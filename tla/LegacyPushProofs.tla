-------------------------- MODULE LegacyPushProofs --------------------------
(***************************************************************************)
(* Proofs about MmapQueue.tla and LegacyPush.tla, for any groups, clients, *)
(* ring capacity and bounds.                                               *)
(***************************************************************************)
EXTENDS LegacyPush, OrderFacts, SequenceTheorems, FiniteSetTheorems, TLAPS

-----------------------------------------------------------------------------
(* The ring.  Its positions are below QUEUE_CAPACITY, so that a sum of two  *)
(* wraps once at most.                                                      *)
LEMMA Modulo ==
    ASSUME NEW n \in Nat \ {0}, NEW x \in 0 .. 2 * n - 1
    PROVE  x % n = IF x < n THEN x ELSE x - n
OBVIOUS

(* The i-th message of a ring, counted from its head. *)
Item(ring, i) == ring.slots[(ring.head + i - 1) % QUEUE_CAPACITY]

Inside(ring) == {Item(ring, i) : i \in 1 .. live_len(ring)}

(* Where the i-th message is. *)
Place(ring, i) ==
    IF ring.head + i - 1 < QUEUE_CAPACITY THEN ring.head + i - 1
    ELSE ring.head + i - 1 - QUEUE_CAPACITY

LEMMA RingPlace ==
    ASSUME NEW M, NEW r \in Ring(M), NEW i \in 1 .. QUEUE_CAPACITY
    PROVE  Place(r, i) \in Slots /\ Item(r, i) = r.slots[Place(r, i)] /\ Item(r, i) \in M
<1>0. QUEUE_CAPACITY \in Nat \ {0}
  BY CapacityAssumption
<1>1. r.head \in 0 .. QUEUE_CAPACITY - 1 /\ r.slots \in [Slots -> M]
  BY DEF Ring, Slots
<1>2. PICK x \in 0 .. 2 * QUEUE_CAPACITY - 1 : x = r.head + i - 1
  BY <1>0, <1>1
<1>3. x % QUEUE_CAPACITY = IF x < QUEUE_CAPACITY THEN x ELSE x - QUEUE_CAPACITY
  BY <1>0, Modulo
<1>4. x % QUEUE_CAPACITY = Place(r, i)
  BY <1>0, <1>1, <1>2, <1>3 DEF Place
<1>5. Place(r, i) \in Slots
  <2>1. x - QUEUE_CAPACITY \in 0 .. QUEUE_CAPACITY - 1 \/ x \in 0 .. QUEUE_CAPACITY - 1
    BY <1>0, <1>2
  <2>2. Place(r, i) = IF x < QUEUE_CAPACITY THEN x ELSE x - QUEUE_CAPACITY
    BY <1>3, <1>4
  <2> QED
    BY <1>0, <2>1, <2>2 DEF Slots
<1>6. Item(r, i) = r.slots[Place(r, i)]
  BY <1>2, <1>4 DEF Item
<1> QED
  BY <1>1, <1>5, <1>6

LEMMA RingLength ==
    ASSUME NEW M, NEW r \in Ring(M)
    PROVE  /\ live_len(r) \in 0 .. QUEUE_CAPACITY - 1
           /\ is_empty(r) <=> live_len(r) = 0
           /\ Len(Contents(r)) = live_len(r)
           /\ \A i \in 1 .. live_len(r) : Contents(r)[i] = Item(r, i) /\ Item(r, i) \in M
<1>0. QUEUE_CAPACITY \in Nat \ {0}
  BY CapacityAssumption
<1>1. r.head \in 0 .. QUEUE_CAPACITY - 1 /\ r.tail \in 0 .. QUEUE_CAPACITY - 1
  BY DEF Ring, Slots
<1>2. live_len(r) \in 0 .. QUEUE_CAPACITY - 1 /\ (is_empty(r) <=> live_len(r) = 0)
  BY <1>0, <1>1 DEF live_len, is_empty
<1>3. Len(Contents(r)) = live_len(r) /\ \A i \in 1 .. live_len(r) : Contents(r)[i] = Item(r, i)
  BY <1>2 DEF Contents, Item
<1>4. \A i \in 1 .. live_len(r) : i \in 1 .. QUEUE_CAPACITY
  BY <1>0, <1>2
<1> QED
  BY <1>2, <1>3, <1>4, RingPlace

LEMMA RingAdvanced ==
    ASSUME NEW s \in Slots
    PROVE  /\ Advanced(s) = IF s + 1 < QUEUE_CAPACITY THEN s + 1 ELSE 0
           /\ Advanced(s) \in Slots
<1>0. QUEUE_CAPACITY \in Nat \ {0} /\ s \in 0 .. QUEUE_CAPACITY - 1
  BY CapacityAssumption DEF Slots
<1>1. PICK x \in 0 .. 2 * QUEUE_CAPACITY - 1 : x = s + 1
  BY <1>0
<1>2. x % QUEUE_CAPACITY = IF x < QUEUE_CAPACITY THEN x ELSE x - QUEUE_CAPACITY
  BY <1>0, Modulo
<1> QED
  BY <1>0, <1>1, <1>2 DEF Advanced, Slots

(* A new queue is empty. *)
LEMMA RingNew ==
    ASSUME NEW M, NEW zero \in M
    PROVE  EmptyRing(zero) \in Ring(M) /\ live_len(EmptyRing(zero)) = 0
BY CapacityAssumption DEF EmptyRing, Ring, Slots, live_len

(* An append adds the message behind the others, or makes the ring empty.   *)
LEMMA RingAppend ==
    ASSUME NEW M, NEW r \in Ring(M), NEW m \in M
    PROVE  /\ append(r, m) \in Ring(M)
           /\ live_len(r) = QUEUE_CAPACITY - 1 => live_len(append(r, m)) = 0
           /\ live_len(r) # QUEUE_CAPACITY - 1 =>
                 /\ live_len(append(r, m)) = live_len(r) + 1
                 /\ \A i \in 1 .. live_len(r) : Item(append(r, m), i) = Item(r, i)
                 /\ Item(append(r, m), live_len(r) + 1) = m
<1> DEFINE a == append(r, m)
<1>0. QUEUE_CAPACITY \in Nat \ {0}
  BY CapacityAssumption
<1>1. /\ r.head \in 0 .. QUEUE_CAPACITY - 1 /\ r.tail \in 0 .. QUEUE_CAPACITY - 1
      /\ r.tail \in Slots /\ r.head \in Slots /\ r.slots \in [Slots -> M]
      /\ r = [head |-> r.head, tail |-> r.tail, slots |-> r.slots]
  BY DEF Ring, Slots
<1>2. /\ Advanced(r.tail) = IF r.tail + 1 < QUEUE_CAPACITY THEN r.tail + 1 ELSE 0
      /\ Advanced(r.tail) \in Slots
  BY <1>1, RingAdvanced
<1>3. /\ a.head = r.head /\ a.tail = Advanced(r.tail)
      /\ a.slots = [r.slots EXCEPT ![r.tail] = m]
      /\ a = [head |-> r.head, tail |-> Advanced(r.tail), slots |-> [r.slots EXCEPT ![r.tail] = m]]
  <2>1. a = [r EXCEPT !.slots = [r.slots EXCEPT ![r.tail] = m], !.tail = Advanced(r.tail)]
    BY <1>1 DEF append
  <2> QED
    BY <1>1, <2>1
<1> HIDE DEF a
<1>4. a \in Ring(M)
  BY <1>1, <1>2, <1>3 DEF Ring
<1>5. live_len(r) \in 0 .. QUEUE_CAPACITY - 1
  BY RingLength
<1>6. /\ live_len(r) = QUEUE_CAPACITY - 1 => live_len(a) = 0
      /\ live_len(r) # QUEUE_CAPACITY - 1 => live_len(a) = live_len(r) + 1
  BY <1>0, <1>1, <1>2, <1>3 DEF live_len
<1>7. ASSUME NEW i \in 1 .. live_len(r), live_len(r) # QUEUE_CAPACITY - 1
      PROVE  Item(a, i) = Item(r, i)
  <2>1. i \in 1 .. QUEUE_CAPACITY
    BY <1>0, <1>5
  <2>2. Item(a, i) = a.slots[Place(a, i)] /\ Item(r, i) = r.slots[Place(r, i)]
        /\ Place(r, i) \in Slots
    BY <1>4, <2>1, RingPlace
  <2>3. Place(a, i) = Place(r, i)
    BY <1>3 DEF Place
  <2>4. Place(r, i) # r.tail
    BY <1>0, <1>1, <1>5, <1>7 DEF Place, live_len
  <2> QED
    BY <1>1, <1>3, <2>2, <2>3, <2>4
<1>8. ASSUME live_len(r) # QUEUE_CAPACITY - 1
      PROVE  Item(a, live_len(r) + 1) = m
  <2>1. live_len(r) + 1 \in 1 .. QUEUE_CAPACITY
    BY <1>0, <1>5
  <2>2. Item(a, live_len(r) + 1) = a.slots[Place(a, live_len(r) + 1)]
    BY <1>4, <2>1, RingPlace
  <2>3. Place(a, live_len(r) + 1) = r.tail
    BY <1>0, <1>1, <1>3, <1>5, <1>8 DEF Place, live_len
  <2> QED
    BY <1>1, <1>3, <2>2, <2>3
<1> QED
  BY <1>4, <1>6, <1>7, <1>8 DEF a

(* A pop removes the first message. *)
LEMMA RingPop ==
    ASSUME NEW M, NEW r \in Ring(M)
    PROVE  /\ pop_front(r) \in Ring(M)
           /\ front(r) \in M
           /\ live_len(r) # 0 =>
                 /\ front(r) = Item(r, 1)
                 /\ live_len(pop_front(r)) = live_len(r) - 1
                 /\ \A i \in 1 .. live_len(r) - 1 : Item(pop_front(r), i) = Item(r, i + 1)
<1> DEFINE a == pop_front(r)
<1>0. QUEUE_CAPACITY \in Nat \ {0}
  BY CapacityAssumption
<1>1. /\ r.head \in 0 .. QUEUE_CAPACITY - 1 /\ r.tail \in 0 .. QUEUE_CAPACITY - 1
      /\ r.tail \in Slots /\ r.head \in Slots /\ r.slots \in [Slots -> M]
      /\ r = [head |-> r.head, tail |-> r.tail, slots |-> r.slots]
  BY DEF Ring, Slots
<1>2. /\ Advanced(r.head) = IF r.head + 1 < QUEUE_CAPACITY THEN r.head + 1 ELSE 0
      /\ Advanced(r.head) \in Slots
  BY <1>1, RingAdvanced
<1>3. /\ a.head = Advanced(r.head) /\ a.tail = r.tail /\ a.slots = r.slots
      /\ a = [head |-> Advanced(r.head), tail |-> r.tail, slots |-> r.slots]
  BY <1>1 DEF pop_front
<1> HIDE DEF a
<1>4. a \in Ring(M)
  BY <1>1, <1>2, <1>3 DEF Ring
<1>5. live_len(r) \in 0 .. QUEUE_CAPACITY - 1
  BY RingLength
<1>6. front(r) \in M
  BY <1>1 DEF front
<1>7. ASSUME live_len(r) # 0 PROVE front(r) = Item(r, 1) /\ live_len(a) = live_len(r) - 1
  <2>1. 1 \in 1 .. QUEUE_CAPACITY
    BY <1>0
  <2>2. Item(r, 1) = r.slots[Place(r, 1)]
    BY <2>1, RingPlace
  <2>3. Place(r, 1) = r.head
    BY <1>0, <1>1 DEF Place
  <2>4. live_len(a) = live_len(r) - 1
    BY <1>0, <1>1, <1>2, <1>3, <1>7 DEF live_len
  <2> QED
    BY <2>2, <2>3, <2>4 DEF front
<1>8. ASSUME live_len(r) # 0, NEW i \in 1 .. live_len(r) - 1
      PROVE  Item(a, i) = Item(r, i + 1)
  <2>1. i \in 1 .. QUEUE_CAPACITY /\ i + 1 \in 1 .. QUEUE_CAPACITY
    BY <1>0, <1>5
  <2>2. Item(a, i) = a.slots[Place(a, i)] /\ Item(r, i + 1) = r.slots[Place(r, i + 1)]
    BY <1>4, <2>1, RingPlace
  <2>3. Place(a, i) = Place(r, i + 1)
    BY <1>0, <1>1, <1>2, <1>3, <2>1 DEF Place
  <2> QED
    BY <1>3, <2>2, <2>3
<1> QED
  BY <1>4, <1>6, <1>7, <1>8 DEF a

-----------------------------------------------------------------------------
(* The recursion of After: a run of n writes exists, and all runs agree.    *)
Run(writes, g, n) ==
    [i \in 0 .. n |-> IF i = 0 THEN rings ELSE Written(g[i - 1], writes[i])]

LEMMA RunStep ==
    ASSUME NEW writes, NEW n \in Nat, NEW g, g = Run(writes, g, n)
    PROVE  /\ g[0] = rings
           /\ \A i \in 1 .. n : g[i] = Written(g[i - 1], writes[i])
<1>1. \A i \in 0 .. n : g[i] = IF i = 0 THEN rings ELSE Written(g[i - 1], writes[i])
  BY DEF Run
<1>2. 0 \in 0 .. n /\ \A i \in 1 .. n : i \in 0 .. n /\ i # 0
  OBVIOUS
<1> QED
  BY <1>1, <1>2

LEMMA RunExists ==
    ASSUME NEW writes
    PROVE  \A n \in Nat : \E g : g = Run(writes, g, n)
<1> DEFINE B == {n \in Nat : ~ \E g : g = Run(writes, g, n)}
<1>1. SUFFICES ASSUME B # {} PROVE FALSE
  BY Zenon
<1>2. B \in SUBSET Nat
  BY Zenon
<1>3. PICK n \in B : \A j \in B : n <= j
  <2> HIDE DEF B
  <2> QED
    BY <1>1, <1>2, NatMin
<1>4. n \in Nat /\ ~ \E g : g = Run(writes, g, n)
  BY Zenon
<1> HIDE DEF B
<1>5. CASE n = 0
  <2> DEFINE g == [i \in 0 .. 0 |-> rings]
  <2>1. g = Run(writes, g, 0)
    BY DEF Run
  <2> HIDE DEF g
  <2> QED
    BY <1>4, <1>5, <2>1
<1>6. CASE n # 0
  <2>1. n - 1 \in Nat /\ ~ (n <= n - 1)
    BY <1>4, <1>6
  <2>2. n - 1 \notin B
    BY <1>3, <2>1
  <2>3. PICK f : f = Run(writes, f, n - 1)
    BY <2>1, <2>2, Zenon DEF B
  <2> DEFINE g == [i \in 0 .. n |-> IF i = n THEN Written(f[n - 1], writes[n]) ELSE f[i]]
  <2>4. f[0] = rings /\ \A i \in 1 .. n - 1 : f[i] = Written(f[i - 1], writes[i])
    BY <2>1, <2>3, RunStep
  <2>5. ASSUME NEW i \in 0 .. n
        PROVE  g[i] = IF i = 0 THEN rings ELSE Written(g[i - 1], writes[i])
    <3>1. CASE i = 0
      BY <1>4, <1>6, <2>4, <3>1
    <3>2. CASE i # 0 /\ i # n
      <4>1. i \in 1 .. n - 1 /\ i - 1 \in 0 .. n /\ i - 1 # n
        BY <1>4, <3>2
      <4>2. g[i] = f[i] /\ g[i - 1] = f[i - 1]
        BY <3>2, <4>1
      <4> HIDE DEF g
      <4> QED
        BY <2>4, <3>2, <4>1, <4>2
    <3>3. CASE i = n
      <4>1. n - 1 \in 0 .. n /\ n - 1 # n /\ n \in 0 .. n
        BY <1>4, <1>6
      <4>2. g[n] = Written(f[n - 1], writes[n]) /\ g[n - 1] = f[n - 1]
        BY <4>1
      <4> HIDE DEF g
      <4> QED
        BY <1>6, <3>3, <4>2
    <3> QED
      BY <3>1, <3>2, <3>3
  <2>6. g = Run(writes, g, n)
    BY <2>5 DEF Run
  <2> HIDE DEF g
  <2> QED
    BY <1>4, <2>6
<1> QED
  BY <1>5, <1>6

LEMMA RunsAgree ==
    ASSUME NEW writes, NEW n \in Nat, NEW k \in 0 .. n,
           NEW g, g = Run(writes, g, n), NEW h, h = Run(writes, h, k)
    PROVE  g[k] = h[k]
<1> DEFINE B == {i \in 0 .. k : g[i] # h[i]}
<1>0. k \in Nat
  OBVIOUS
<1>1. g[0] = rings /\ \A i \in 1 .. n : g[i] = Written(g[i - 1], writes[i])
  BY RunStep
<1>2. h[0] = rings /\ \A i \in 1 .. k : h[i] = Written(h[i - 1], writes[i])
  BY <1>0, RunStep
<1>3. SUFFICES ASSUME B # {} PROVE FALSE
  <2>1. k \in 0 .. k
    BY <1>0
  <2> QED
    BY <2>1, Zenon
<1>4. B \in SUBSET Nat
  BY <1>0
<1>5. PICK i \in B : \A j \in B : i <= j
  <2> HIDE DEF B
  <2> QED
    BY <1>3, <1>4, NatMin
<1>6. i \in 0 .. k /\ g[i] # h[i]
  OBVIOUS
<1>7. i # 0
  BY <1>1, <1>2, <1>6
<1>8. i \in 1 .. n /\ i \in 1 .. k /\ i - 1 \in 0 .. k /\ ~ (i <= i - 1)
  BY <1>0, <1>6, <1>7
<1>9. i - 1 \notin B
  <2> HIDE DEF B
  <2> QED
    BY <1>5, <1>8
<1>10. g[i - 1] = h[i - 1]
  BY <1>8, <1>9
<1> QED
  BY <1>1, <1>2, <1>6, <1>8, <1>10

(* What After computes. *)
LEMMA AfterSteps ==
    ASSUME NEW writes, NEW n \in Nat
    PROVE  /\ After(writes, 0) = rings
           /\ \A i \in 1 .. n : After(writes, i) = Written(After(writes, i - 1), writes[i])
<1> DEFINE F(i) == CHOOSE f : f = Run(writes, f, i)
<1>1. ASSUME NEW i \in Nat PROVE F(i) = Run(writes, F(i), i) /\ After(writes, i) = F(i)[i]
  <2>1. \E g : g = Run(writes, g, i)
    BY RunExists
  <2>2. F(i) = Run(writes, F(i), i)
    BY <2>1, Zenon
  <2>3. After(writes, i) = F(i)[i]
    BY DEF After, Run
  <2> QED
    BY <2>2, <2>3
<1> HIDE DEF F
<1>2. After(writes, 0) = rings
  <2>1. F(0)[0] = rings
    BY <1>1, RunStep
  <2> QED
    BY <1>1, <2>1
<1>3. ASSUME NEW i \in 1 .. n PROVE After(writes, i) = Written(After(writes, i - 1), writes[i])
  <2>1. i \in Nat /\ i - 1 \in Nat /\ i \in 1 .. i /\ i - 1 \in 0 .. i
    OBVIOUS
  <2>2. F(i)[i] = Written(F(i)[i - 1], writes[i])
    BY <1>1, <2>1, RunStep
  <2>3. F(i)[i - 1] = F(i - 1)[i - 1]
    BY <1>1, <2>1, RunsAgree
  <2> QED
    BY <1>1, <2>1, <2>2, <2>3
<1> QED
  BY <1>2, <1>3

-----------------------------------------------------------------------------
(* Registrations.  A group has no more partitions than consumers ever       *)
(* registered, except a new one without consumers; its id is its own.       *)
GroupType == [id : Group, partitions : 1 .. MaxPartitions, consumers : Nat]

Balanced(r) ==
    \/ r.partitions <= r.consumers
    \/ r.partitions = 1 /\ r.consumers = 0

GroupsOK(list) ==
    /\ list \in Seq(GroupType)
    /\ \A i, j \in DOMAIN list : list[i].id = list[j].id => i = j
    /\ \A i \in DOMAIN list : Balanced(list[i])

DiskOK(d) ==
    /\ d \in [groups : Seq(Group), count : [Group -> 0 .. MaxPartitions]]
    /\ \A i, j \in DOMAIN d.groups : d.groups[i] = d.groups[j] => i = j

(* Groups that were there still are, with as many partitions and consumers. *)
Grown(old, new) ==
    \A i \in DOMAIN old :
        /\ i \in DOMAIN new
        /\ new[i].id = old[i].id
        /\ new[i].partitions >= old[i].partitions
        /\ new[i].consumers >= old[i].consumers

(* Where find_or_create_group finds or puts the group, and the list with    *)
(* that entry replaced.                                                     *)
Found(g) == CHOOSE k \in DOMAIN WithGroup(g) : WithGroup(g)[k].id = g
Entry(g) == WithGroup(g)[Found(g)]
Updated(g, r) == [WithGroup(g) EXCEPT ![Found(g)] = r]

NewGroup(g) == [id |-> g, partitions |-> 1, consumers |-> 0]

LEMMA PushConstants ==
    MaxMessages \in Nat /\ MaxPartitions \in Nat \ {0} /\ QUEUE_CAPACITY \in Nat \ {0}
BY PushAssumption, CapacityAssumption

LEMMA FoundFacts ==
    ASSUME GroupsOK(groups), NEW g \in Group
    PROVE  /\ WithGroup(g) \in Seq(GroupType)
           /\ Len(groups) \in Nat /\ Len(WithGroup(g)) \in Nat
           /\ Found(g) \in 1 .. Len(WithGroup(g))
           /\ Entry(g) \in GroupType /\ Entry(g).id = g /\ Balanced(Entry(g))
           /\ \A i \in 1 .. Len(groups) :
                 i \in 1 .. Len(WithGroup(g)) /\ WithGroup(g)[i] = groups[i]
           /\ \A i \in 1 .. Len(WithGroup(g)) : i \in 1 .. Len(groups) \/ i = Found(g)
           /\ \A i \in 1 .. Len(WithGroup(g)) : WithGroup(g)[i].id = g <=> i = Found(g)
           /\ Exists(g) => Len(WithGroup(g)) = Len(groups)
           /\ ~ Exists(g) => Entry(g) = NewGroup(g) /\ Found(g) \notin 1 .. Len(groups)
<1>0. /\ groups \in Seq(GroupType) /\ Len(groups) \in Nat /\ DOMAIN groups = 1 .. Len(groups)
      /\ \A i \in 1 .. Len(groups) : groups[i] \in GroupType /\ Balanced(groups[i])
      /\ \A i, j \in 1 .. Len(groups) : groups[i].id = groups[j].id => i = j
  BY DEF GroupsOK
<1>1. CASE Exists(g)
  <2>1. WithGroup(g) = groups
    BY <1>1 DEF WithGroup
  <2>2. \E k \in DOMAIN WithGroup(g) : WithGroup(g)[k].id = g
    BY <1>1, <2>1 DEF Exists
  <2>3. Found(g) \in DOMAIN WithGroup(g) /\ WithGroup(g)[Found(g)].id = g
    BY <2>2, Zenon DEF Found
  <2>4. Found(g) \in 1 .. Len(groups) /\ groups[Found(g)].id = g
    BY <1>0, <2>1, <2>3
  <2> QED
    BY <1>0, <1>1, <2>1, <2>4 DEF Entry
<1>2. CASE ~ Exists(g)
  <2> DEFINE n == Len(groups)
  <2>0. NewGroup(g) \in GroupType /\ NewGroup(g).id = g /\ Balanced(NewGroup(g))
    BY PushConstants DEF NewGroup, GroupType, Balanced
  <2>1. WithGroup(g) = Append(groups, NewGroup(g))
    BY <1>2 DEF WithGroup, NewGroup
  <2>2. /\ WithGroup(g) \in Seq(GroupType)
        /\ Len(WithGroup(g)) = n + 1
        /\ DOMAIN WithGroup(g) = 1 .. n + 1
        /\ \A i \in 1 .. n : WithGroup(g)[i] = groups[i]
        /\ WithGroup(g)[n + 1] = NewGroup(g)
    BY <1>0, <2>0, <2>1, AppendProperties
  <2>3. n + 1 \in 1 .. n + 1
    BY <1>0
  <2>4. Found(g) \in DOMAIN WithGroup(g) /\ WithGroup(g)[Found(g)].id = g
    <3>1. \E k \in DOMAIN WithGroup(g) : WithGroup(g)[k].id = g
      BY <2>0, <2>2, <2>3
    <3> QED
      BY <3>1, Zenon DEF Found
  <2>5. \A i \in 1 .. n : groups[i].id # g
    BY <1>0, <1>2 DEF Exists
  <2>6. \A i \in 1 .. n + 1 : i \in 1 .. n \/ i = n + 1
    BY <1>0
  <2>7. Found(g) = n + 1
    BY <2>2, <2>4, <2>5, <2>6
  <2>8. /\ n + 1 \notin 1 .. n /\ n + 1 \in Nat
        /\ \A i \in 1 .. n : i \in 1 .. n + 1
    BY <1>0
  <2>9. /\ Entry(g) = NewGroup(g)
        /\ \A i \in 1 .. n + 1 : WithGroup(g)[i].id = g <=> i = n + 1
    BY <2>0, <2>2, <2>5, <2>6, <2>7 DEF Entry
  <2> HIDE DEF n
  <2>10. Len(groups) = n
    BY DEF n
  <2> QED
    BY <1>0, <1>2, <2>0, <2>2, <2>3, <2>6, <2>7, <2>8, <2>9, <2>10
<1> QED
  BY <1>1, <1>2

LEMMA UpdatedFacts ==
    ASSUME GroupsOK(groups), NEW g \in Group, NEW r \in GroupType, r.id = g, Balanced(r),
           r.partitions >= Entry(g).partitions, r.consumers >= Entry(g).consumers
    PROVE  /\ GroupsOK(Updated(g, r))
           /\ Grown(groups, Updated(g, r))
           /\ Found(g) \in DOMAIN Updated(g, r) /\ Updated(g, r)[Found(g)] = r
<1> DEFINE w == WithGroup(g)
           u == Updated(g, r)
           n == Len(w)
<1>1. /\ w \in Seq(GroupType) /\ n \in Nat /\ Len(groups) \in Nat
      /\ Found(g) \in 1 .. n
      /\ \A i \in 1 .. Len(groups) : i \in 1 .. n /\ w[i] = groups[i]
      /\ \A i \in 1 .. n : i \in 1 .. Len(groups) \/ i = Found(g)
      /\ \A i \in 1 .. n : w[i].id = g <=> i = Found(g)
      /\ Entry(g) = w[Found(g)]
  BY FoundFacts DEF Entry
<1>2. u = [w EXCEPT ![Found(g)] = r]
  BY DEF Updated
<1> HIDE DEF w, u, n
<1>3. DOMAIN w = 1 .. n
  BY <1>1 DEF n
<1>4. /\ u \in Seq(GroupType) /\ DOMAIN u = 1 .. n /\ u[Found(g)] = r
      /\ \A i \in 1 .. n : i # Found(g) => u[i] = w[i]
  BY <1>1, <1>2, <1>3
<1>5. \A i \in 1 .. Len(groups) : groups[i] \in GroupType /\ Balanced(groups[i])
  BY DEF GroupsOK
<1>6. \A i, j \in DOMAIN u : u[i].id = u[j].id => i = j
  <2>1. \A i \in 1 .. n : u[i].id = w[i].id
    BY <1>1, <1>4
  <2>2. \A i, j \in 1 .. n : w[i].id = w[j].id => i = j
    <3>1. \A i, j \in 1 .. Len(groups) : groups[i].id = groups[j].id => i = j
      BY DEF GroupsOK
    <3> QED
      BY <1>1, <3>1
  <2> QED
    BY <1>4, <2>1, <2>2
<1>7. \A i \in DOMAIN u : Balanced(u[i])
  BY <1>1, <1>4, <1>5
<1>8. Grown(groups, u)
  <2> SUFFICES ASSUME NEW i \in 1 .. Len(groups)
               PROVE  /\ i \in 1 .. n
                      /\ u[i].id = groups[i].id
                      /\ u[i].partitions >= groups[i].partitions
                      /\ u[i].consumers >= groups[i].consumers
    BY <1>4 DEF Grown, GroupsOK
  <2>1. CASE i = Found(g)
    BY <1>1, <1>4, <2>1
  <2>2. CASE i # Found(g)
    <3>1. i \in 1 .. n /\ u[i] = groups[i]
      BY <1>1, <1>4, <2>2
    <3>2. groups[i].partitions \in Nat /\ groups[i].consumers \in Nat
      BY <1>5, PushConstants DEF GroupType
    <3> QED
      BY <3>1, <3>2
  <2> QED
    BY <2>1, <2>2
<1> QED
  BY <1>1, <1>4, <1>6, <1>7, <1>8 DEF GroupsOK, u

(* assign_partition: the entry stays balanced, and the partition given out  *)
(* is one that was not there before, or the first of a group without        *)
(* consumers.                                                               *)
LEMMA JoinedFacts ==
    ASSUME NEW r \in GroupType, Balanced(r)
    PROVE  /\ Joined(r) = [id |-> r.id, consumers |-> r.consumers + 1,
                           partitions |-> IF r.partitions < r.consumers + 1
                                          THEN r.partitions + 1 ELSE r.partitions]
           /\ Joined(r).id = r.id /\ Joined(r).consumers = r.consumers + 1
           /\ Joined(r).consumers \in Nat /\ Joined(r).partitions \in Nat \ {0}
           /\ Joined(r).partitions >= r.partitions /\ Balanced(Joined(r))
           /\ Joined(r).partitions > r.partitions \/ r.consumers = 0
           /\ Joined(r).partitions <= MaxPartitions => Joined(r) \in GroupType
<1>1. /\ r.id \in Group /\ r.partitions \in 1 .. MaxPartitions /\ r.consumers \in Nat
      /\ r = [id |-> r.id, partitions |-> r.partitions, consumers |-> r.consumers]
      /\ MaxPartitions \in Nat
  BY PushConstants DEF GroupType
<1>2. Joined(r) = [id |-> r.id, consumers |-> r.consumers + 1,
                   partitions |-> IF r.partitions < r.consumers + 1
                                  THEN r.partitions + 1 ELSE r.partitions]
  <2>1. Joined(r) = [r EXCEPT !.consumers = r.consumers + 1,
                              !.partitions = IF r.partitions < r.consumers + 1
                                             THEN r.partitions + 1 ELSE r.partitions]
    BY <1>1 DEF Joined
  <2> QED
    BY <1>1, <2>1
<1>3. /\ Joined(r).id = r.id /\ Joined(r).consumers = r.consumers + 1
      /\ Joined(r).partitions = IF r.partitions < r.consumers + 1
                                THEN r.partitions + 1 ELSE r.partitions
  BY <1>2
<1>4. /\ Joined(r).consumers \in Nat /\ Joined(r).partitions \in Nat \ {0}
      /\ Joined(r).partitions >= r.partitions /\ Balanced(Joined(r))
      /\ Joined(r).partitions > r.partitions \/ r.consumers = 0
  BY <1>1, <1>3 DEF Balanced
<1>5. Joined(r).partitions <= MaxPartitions => Joined(r) \in GroupType
  BY <1>1, <1>2, <1>4 DEF GroupType
<1> QED
  BY <1>2, <1>3, <1>4, <1>5

(* The ids of a list of groups. *)
LEMMA IdsFacts ==
    ASSUME NEW list, GroupsOK(list)
    PROVE  /\ Ids(list) \in Seq(Group)
           /\ \A i, j \in DOMAIN Ids(list) : Ids(list)[i] = Ids(list)[j] => i = j
           /\ Range(Ids(list)) \subseteq Group
<1>1. /\ list \in Seq(GroupType) /\ DOMAIN list = 1 .. Len(list) /\ Len(list) \in Nat
      /\ \A i \in 1 .. Len(list) : list[i].id \in Group
  <2>1. list \in Seq(GroupType)
    BY DEF GroupsOK
  <2>2. \A i \in 1 .. Len(list) : list[i] \in GroupType
    BY <2>1
  <2>3. \A r \in GroupType : r.id \in Group
    BY DEF GroupType
  <2>4. DOMAIN list = 1 .. Len(list) /\ Len(list) \in Nat
    BY <2>1
  <2> QED
    BY <2>1, <2>2, <2>3, <2>4
<1>2. Ids(list) = [i \in 1 .. Len(list) |-> list[i].id]
  BY <1>1 DEF Ids
<1>3. Ids(list) \in Seq(Group)
  BY <1>1, <1>2
<1>4. \A i, j \in DOMAIN Ids(list) : Ids(list)[i] = Ids(list)[j] => i = j
  BY <1>1, <1>2 DEF GroupsOK
<1>5. Range(Ids(list)) \subseteq Group
  BY <1>1, <1>2 DEF Range
<1> QED
  BY <1>3, <1>4, <1>5

LEMMA FoundOK ==
    ASSUME GroupsOK(groups), NEW g \in Group
    PROVE  GroupsOK(WithGroup(g)) /\ Grown(groups, WithGroup(g))
<1>1. /\ WithGroup(g) \in Seq(GroupType) /\ Found(g) \in 1 .. Len(WithGroup(g))
      /\ Entry(g) \in GroupType /\ Entry(g).id = g /\ Balanced(Entry(g))
  BY FoundFacts
<1>2. Entry(g).partitions >= Entry(g).partitions /\ Entry(g).consumers >= Entry(g).consumers
  BY <1>1, PushConstants DEF GroupType
<1>3. GroupsOK(Updated(g, Entry(g))) /\ Grown(groups, Updated(g, Entry(g)))
  BY <1>1, <1>2, UpdatedFacts
<1>4. Updated(g, Entry(g)) = WithGroup(g)
  BY <1>1 DEF Updated, Entry
<1> QED
  BY <1>3, <1>4

(* What registering writes keeps the files consistent. *)
LEMMA DiskWritten ==
    ASSUME DiskOK(disk), NEW list \in Seq(Group),
           \A i, j \in DOMAIN list : list[i] = list[j] => i = j,
           NEW g \in Group, NEW n \in 0 .. MaxPartitions
    PROVE  /\ DiskOK([groups |-> list, count |-> disk.count])
           /\ DiskOK([groups |-> list, count |-> [disk.count EXCEPT ![g] = n]])
           /\ DiskOK([groups |-> disk.groups, count |-> [disk.count EXCEPT ![g] = n]])
           /\ disk = [groups |-> disk.groups, count |-> disk.count]
<1>1. /\ disk.groups \in Seq(Group) /\ disk.count \in [Group -> 0 .. MaxPartitions]
      /\ disk = [groups |-> disk.groups, count |-> disk.count]
  BY DEF DiskOK
<1>2. [disk.count EXCEPT ![g] = n] \in [Group -> 0 .. MaxPartitions]
  BY <1>1
<1> QED
  BY <1>1, <1>2 DEF DiskOK

(* A new entry for the group of a registration. *)
Registered(g) == Updated(g, Joined(Entry(g)))

RegistryInv ==
    /\ GroupsOK(groups)
    /\ DiskOK(disk)
    /\ ~ up => groups = <<>>

LEMMA RegisterEffect ==
    ASSUME RegistryInv, NEW c \in Consumer, NEW g \in Group, register_consumer(c, g)
    PROVE  /\ task[c] = NoTask
           /\ Joined(Entry(g)) \in GroupType
           /\ groups' = Registered(g)
           /\ GroupsOK(groups') /\ DiskOK(disk') /\ Grown(groups, groups')
           /\ Found(g) \in DOMAIN groups' /\ groups'[Found(g)] = Joined(Entry(g))
           /\ task' = [task EXCEPT ![c] = [state |-> "dialing",
                                           queue |-> <<g, Joined(Entry(g)).partitions>>,
                                           message |-> 0,
                                           from |-> Len(taken[<<g, Joined(Entry(g)).partitions>>])]]
           /\ running' = running \cup {c}
           /\ UNCHANGED <<up, rings, producer, histories, failures, faults>>
<1>0. GroupsOK(groups) /\ DiskOK(disk)
  BY DEF RegistryInv
<1>1. Entry(g) \in GroupType /\ Entry(g).id = g /\ Balanced(Entry(g))
  BY <1>0, FoundFacts
<1>2. /\ Joined(Entry(g)).partitions <= MaxPartitions
      /\ groups' = Registered(g)
      /\ disk' = [groups |-> IF Exists(g) THEN disk.groups ELSE Ids(WithGroup(g)),
                  count  |-> IF Exists(g) /\ Joined(Entry(g)).partitions = Entry(g).partitions
                             THEN disk.count
                             ELSE [disk.count EXCEPT ![g] = Joined(Entry(g)).partitions]]
      /\ task' = [task EXCEPT ![c] = [state |-> "dialing",
                                      queue |-> <<g, Joined(Entry(g)).partitions>>,
                                      message |-> 0,
                                      from |-> Len(taken[<<g, Joined(Entry(g)).partitions>>])]]
  BY Zenon DEF register_consumer, Registered, Updated, Entry, Found
<1>3. /\ task[c] = NoTask
      /\ running' = running \cup {c}
      /\ UNCHANGED <<up, rings, producer, histories, failures, faults>>
  BY Zenon DEF register_consumer
<1>4. /\ Joined(Entry(g)) \in GroupType /\ Joined(Entry(g)).id = g /\ Balanced(Joined(Entry(g)))
      /\ Joined(Entry(g)).partitions >= Entry(g).partitions
      /\ Joined(Entry(g)).consumers = Entry(g).consumers + 1
  BY <1>1, <1>2, JoinedFacts
<1>5. Joined(Entry(g)).consumers >= Entry(g).consumers
  BY <1>1, <1>4 DEF GroupType
<1>6. /\ GroupsOK(Registered(g)) /\ Grown(groups, Registered(g))
      /\ Found(g) \in DOMAIN Registered(g) /\ Registered(g)[Found(g)] = Joined(Entry(g))
  BY <1>0, <1>1, <1>4, <1>5, UpdatedFacts DEF Registered
<1>7. DiskOK(disk')
  <2>1. /\ Ids(WithGroup(g)) \in Seq(Group)
        /\ \A i, j \in DOMAIN Ids(WithGroup(g)) :
              Ids(WithGroup(g))[i] = Ids(WithGroup(g))[j] => i = j
    BY <1>0, FoundOK, IdsFacts
  <2>2. Joined(Entry(g)).partitions \in 0 .. MaxPartitions
    BY <1>4, PushConstants DEF GroupType
  <2>3. PICK list : list = Ids(WithGroup(g))
    OBVIOUS
  <2>4. PICK n : n = Joined(Entry(g)).partitions
    OBVIOUS
  <2>5. /\ DiskOK([groups |-> list, count |-> disk.count])
        /\ DiskOK([groups |-> list, count |-> [disk.count EXCEPT ![g] = n]])
        /\ DiskOK([groups |-> disk.groups, count |-> [disk.count EXCEPT ![g] = n]])
        /\ disk = [groups |-> disk.groups, count |-> disk.count]
    BY <1>0, <2>1, <2>2, <2>3, <2>4, DiskWritten
  <2> QED
    BY <1>0, <1>2, <2>3, <2>4, <2>5
<1> QED
  BY <1>2, <1>3, <1>4, <1>6, <1>7

LEMMA RegisterFailsEffect ==
    ASSUME RegistryInv, NEW g \in Group, RegisterFails(g)
    PROVE  /\ GroupsOK(groups') /\ DiskOK(disk') /\ Grown(groups, groups')
           /\ up
           /\ UNCHANGED <<up, rings, producer, task, running, histories, faults>>
<1>0. GroupsOK(groups) /\ DiskOK(disk)
  BY DEF RegistryInv
<1>1. /\ up /\ UNCHANGED <<up, rings, producer, task, running, histories, faults>>
      /\ \/ /\ UNCHANGED <<groups, disk>>
         \/ /\ disk' = [disk EXCEPT !.count[g] = 1]
            /\ groups' \in {groups, WithGroup(g)}
         \/ /\ \/ groups' = [WithGroup(g) EXCEPT ![Found(g)].consumers = @ + 1]
               \/ Joined(Entry(g)).partitions <= MaxPartitions /\ groups' = Registered(g)
            /\ disk' = IF Exists(g) THEN disk
                       ELSE [[disk EXCEPT !.count[g] = 1] EXCEPT !.groups = Ids(WithGroup(g))]
  BY Zenon DEF RegisterFails, Registered, Updated, Entry, Found
<1>2. /\ Entry(g) \in GroupType /\ Entry(g).id = g /\ Balanced(Entry(g))
      /\ Found(g) \in 1 .. Len(WithGroup(g)) /\ WithGroup(g) \in Seq(GroupType)
  BY <1>0, FoundFacts
<1>3. DiskOK(disk')
  <2>1. /\ Ids(WithGroup(g)) \in Seq(Group)
        /\ \A i, j \in DOMAIN Ids(WithGroup(g)) :
              Ids(WithGroup(g))[i] = Ids(WithGroup(g))[j] => i = j
    BY <1>0, FoundOK, IdsFacts
  <2>2. 1 \in 0 .. MaxPartitions
    BY PushConstants
  <2>3. PICK list : list = Ids(WithGroup(g))
    OBVIOUS
  <2>5. /\ DiskOK([groups |-> list, count |-> [disk.count EXCEPT ![g] = 1]])
        /\ DiskOK([groups |-> disk.groups, count |-> [disk.count EXCEPT ![g] = 1]])
        /\ disk = [groups |-> disk.groups, count |-> disk.count]
    BY <1>0, <2>1, <2>2, <2>3, DiskWritten
  <2>6. /\ [disk EXCEPT !.count[g] = 1] =
              [groups |-> disk.groups, count |-> [disk.count EXCEPT ![g] = 1]]
        /\ [[disk EXCEPT !.count[g] = 1] EXCEPT !.groups = list] =
              [groups |-> list, count |-> [disk.count EXCEPT ![g] = 1]]
    <3>1. [disk EXCEPT !.count[g] = 1] = [disk EXCEPT !.count = [disk.count EXCEPT ![g] = 1]]
      BY <2>5
    <3>2. PICK counts : counts = [disk.count EXCEPT ![g] = 1]
      OBVIOUS
    <3>3. [disk EXCEPT !.count = counts] = [groups |-> disk.groups, count |-> counts]
      BY <2>5
    <3>4. [[groups |-> disk.groups, count |-> counts] EXCEPT !.groups = list] =
             [groups |-> list, count |-> counts]
      OBVIOUS
    <3> QED
      BY <3>1, <3>2, <3>3, <3>4
  <2>7. \/ disk' = disk \/ disk' = [disk EXCEPT !.count[g] = 1]
        \/ disk' = [[disk EXCEPT !.count[g] = 1] EXCEPT !.groups = list]
    BY <1>1, <2>3
  <2> QED
    BY <1>0, <2>5, <2>6, <2>7
<1>4. GroupsOK(groups') /\ Grown(groups, groups')
  <2>1. CASE groups' = groups
    <3>1. Grown(groups, groups)
      <4>1. \A i \in DOMAIN groups : groups[i].partitions \in Nat /\ groups[i].consumers \in Nat
        <5>1. \A i \in DOMAIN groups : groups[i] \in GroupType
          BY <1>0 DEF GroupsOK
        <5>2. \A r \in GroupType : r.partitions \in Nat /\ r.consumers \in Nat
          BY PushConstants DEF GroupType
        <5> QED
          BY <5>1, <5>2
      <4> QED
        BY <4>1 DEF Grown
    <3> QED
      BY <1>0, <2>1, <3>1
  <2>2. CASE groups' = WithGroup(g)
    BY <1>0, <2>2, FoundOK
  <2>3. CASE groups' = [WithGroup(g) EXCEPT ![Found(g)].consumers = @ + 1]
    <3> DEFINE r == [Entry(g) EXCEPT !.consumers = @ + 1]
    <3>1. groups' = Updated(g, r)
      BY <1>2, <2>3 DEF Updated, Entry
    <3>2. /\ r \in GroupType /\ r.id = g /\ r.partitions >= Entry(g).partitions
          /\ r.consumers >= Entry(g).consumers /\ Balanced(r)
      <4>1. /\ Entry(g).partitions \in 1 .. MaxPartitions /\ Entry(g).consumers \in Nat
            /\ Entry(g) = [id |-> Entry(g).id, partitions |-> Entry(g).partitions,
                           consumers |-> Entry(g).consumers]
        BY <1>2 DEF GroupType
      <4>2. r = [id |-> g, partitions |-> Entry(g).partitions,
                 consumers |-> Entry(g).consumers + 1]
        BY <1>2, <4>1
      <4>3. r.id = g /\ r.partitions = Entry(g).partitions /\ r.consumers = Entry(g).consumers + 1
        BY <4>2
      <4>4. r \in GroupType
        BY <4>1, <4>2 DEF GroupType
      <4> HIDE DEF r
      <4> QED
        BY <1>2, <4>1, <4>3, <4>4, PushConstants DEF Balanced
    <3> HIDE DEF r
    <3> QED
      BY <1>0, <3>1, <3>2, UpdatedFacts
  <2>4. CASE Joined(Entry(g)).partitions <= MaxPartitions /\ groups' = Registered(g)
    <3>1. /\ Joined(Entry(g)) \in GroupType /\ Joined(Entry(g)).id = g
          /\ Balanced(Joined(Entry(g)))
          /\ Joined(Entry(g)).partitions >= Entry(g).partitions
          /\ Joined(Entry(g)).consumers = Entry(g).consumers + 1
      BY <1>2, <2>4, JoinedFacts
    <3>2. Joined(Entry(g)).consumers >= Entry(g).consumers
      BY <1>2, <3>1 DEF GroupType
    <3> QED
      BY <1>0, <2>4, <3>1, <3>2, UpdatedFacts DEF Registered
  <2> QED
    BY <1>1, <2>1, <2>2, <2>3, <2>4
<1> QED
  BY <1>1, <1>3, <1>4

-----------------------------------------------------------------------------
(* What produce_pcm writes. *)
Slot == {0} \cup Message
GroupQueues == Group \X (1 .. MaxPartitions)

LEMMA QueueFacts ==
    /\ Staging \in Queues /\ Staging \notin GroupQueues
    /\ GroupQueues = Queues \ {Staging}
    /\ \A q \in Queues : q = Staging \/ q \in GroupQueues
<1>1. Staging \notin GroupQueues
  <2>1. \A q \in GroupQueues : q[2] # 0
    BY PushConstants DEF GroupQueues
  <2>2. Staging[2] = 0
    BY DEF Staging
  <2> QED
    BY <2>1, <2>2
<1> QED
  BY <1>1 DEF Queues, GroupQueues

(* smallest_partition_index finds a partition. *)
LEMMA SmallestFacts ==
    ASSUME rings \in [Queues -> Ring(Slot)], NEW r \in GroupType
    PROVE  /\ smallest_partition_index(r) \in 1 .. r.partitions
           /\ TargetOf(r) \in GroupQueues /\ TargetOf(r) \in Queues
           /\ TargetOf(r) = <<r.id, smallest_partition_index(r)>>
<1> DEFINE P      == 1 .. r.partitions
           len(k) == live_len(rings[<<r.id, k>>])
           L      == {len(k) : k \in P}
<1>1. r.id \in Group /\ r.partitions \in 1 .. MaxPartitions
  BY DEF GroupType
<1>2. \A k \in P : k \in 1 .. MaxPartitions /\ <<r.id, k>> \in GroupQueues
  BY <1>1, PushConstants DEF GroupQueues
<1>3. \A k \in P : len(k) \in Nat
  <2>1. \A k \in P : rings[<<r.id, k>>] \in Ring(Slot)
    BY <1>2, QueueFacts
  <2>2. \A s \in Ring(Slot) : live_len(s) \in Nat
    BY RingLength, PushConstants
  <2> QED
    BY <2>1, <2>2, Zenon
<1>4. 1 \in P
  BY <1>1, PushConstants
<1> HIDE DEF len
<1>5. PICK l \in L : \A j \in L : l <= j
  <2>1. L \in SUBSET Nat /\ L # {}
    BY <1>3, <1>4
  <2> HIDE DEF L
  <2> QED
    BY <2>1, NatMin
<1> DEFINE K == {k \in P : len(k) = l}
<1>6. PICK k \in K : \A j \in K : k <= j
  <2>1. K \in SUBSET Nat /\ K # {}
    BY <1>1, <1>5, PushConstants
  <2> HIDE DEF K
  <2> QED
    BY <2>1, NatMin
<1>7. k \in P /\ \A j \in P : len(k) < len(j) \/ (len(k) = len(j) /\ k <= j)
  <2>1. k \in P /\ len(k) = l
    OBVIOUS
  <2>2. ASSUME NEW j \in P PROVE len(k) < len(j) \/ (len(k) = len(j) /\ k <= j)
    <3>1. l <= len(j) /\ len(j) \in Nat /\ l \in Nat
      BY <1>3, <1>5, <2>1
    <3>2. len(j) = l => k <= j
      BY <1>6
    <3> QED
      BY <2>1, <3>1, <3>2
  <2> QED
    BY <2>1, <2>2
<1>8. smallest_partition_index(r) \in P
  <2>1. smallest_partition_index(r) =
           CHOOSE x \in P : \A j \in P : len(x) < len(j) \/ (len(x) = len(j) /\ x <= j)
    BY Zenon DEF smallest_partition_index, len
  <2> HIDE DEF P
  <2> QED
    BY <1>7, <2>1, Zenon
<1>9. TargetOf(r) = <<r.id, smallest_partition_index(r)>>
  BY DEF TargetOf
<1> QED
  BY <1>2, <1>8, <1>9, QueueFacts

Staged == live_len(rings[Staging])

(* The list of writes: with groups, two for each staged message, and one    *)
(* for each group.                                                          *)
LEMMA WritesForm ==
    ASSUME rings \in [Queues -> Ring(Slot)], groups \in Seq(GroupType), groups # <<>>,
           NEW m
    PROVE  /\ Staged \in Nat /\ Len(groups) \in Nat \ {0}
           /\ Len(Writes(m)) = 2 * Staged + Len(groups)
           /\ DOMAIN Writes(m) = 1 .. Len(Writes(m))
           /\ \A k \in 1 .. Staged :
                 /\ Writes(m)[2 * k - 1] = Pull(Staging)
                 /\ Writes(m)[2 * k] = Push(TargetOf(groups[1]), Item(rings[Staging], k))
           /\ \A k \in 1 .. Len(groups) :
                 Writes(m)[2 * Staged + k] = Push(TargetOf(groups[k]), m)
<1> DEFINE n == Staged
           N == Len(groups)
           t == TargetOf(groups[1])
           c == Contents(rings[Staging])
           D == Drain
           F == FanOut(m)
           A == {D[i] : i \in DOMAIN D} \cup {F[i] : i \in DOMAIN F}
<1>1. rings[Staging] \in Ring(Slot)
  BY QueueFacts
<1>2. n \in Nat /\ Len(c) = n /\ \A i \in 1 .. n : c[i] = Item(rings[Staging], i)
  BY <1>1, RingLength, PushConstants DEF Staged
<1>3. N \in Nat \ {0} /\ DOMAIN groups = 1 .. N
  BY EmptySeq
<1>4. D = [i \in 1 .. 2 * n |-> IF i % 2 = 1 THEN Pull(Staging) ELSE Push(t, c[i \div 2])]
  BY <1>2 DEF Drain
<1>5. F = [i \in 1 .. N |-> Push(TargetOf(groups[i]), m)]
  BY <1>3 DEF FanOut
<1>6. Writes(m) = D \o F
  BY DEF Writes
<1> HIDE DEF n, N, t, c, D, F
<1>7. D \in Seq(A) /\ Len(D) = 2 * n /\ F \in Seq(A) /\ Len(F) = N
  <2>1. DOMAIN D = 1 .. 2 * n /\ D = [i \in 1 .. 2 * n |-> D[i]] /\ 2 * n \in Nat
    BY <1>2, <1>4
  <2>2. DOMAIN F = 1 .. N /\ F = [i \in 1 .. N |-> F[i]] /\ N \in Nat
    BY <1>3, <1>5
  <2>3. \A i \in 1 .. 2 * n : D[i] \in A
    BY <2>1
  <2>4. \A i \in 1 .. N : F[i] \in A
    BY <2>2
  <2> HIDE DEF A
  <2>5. D \in Seq(A) /\ Len(D) = 2 * n
    BY <2>1, <2>3
  <2>6. F \in Seq(A) /\ Len(F) = N
    BY <2>2, <2>4
  <2> QED
    BY <2>5, <2>6
<1>8. /\ Len(D \o F) = 2 * n + N
      /\ DOMAIN (D \o F) = 1 .. Len(D \o F)
      /\ \A i \in 1 .. 2 * n : (D \o F)[i] = D[i]
      /\ \A i \in 1 .. N : (D \o F)[2 * n + i] = F[i]
  <2> HIDE DEF A
  <2>1. /\ Len(D \o F) = Len(D) + Len(F)
        /\ D \o F \in Seq(A)
        /\ \A i \in 1 .. Len(D) + Len(F) :
              (D \o F)[i] = IF i <= Len(D) THEN D[i] ELSE F[i - Len(D)]
    BY <1>7, ConcatProperties
  <2>2. \A i \in 1 .. 2 * n : i \in 1 .. 2 * n + N /\ i <= 2 * n
    BY <1>2, <1>3
  <2>3. \A i \in 1 .. N : /\ 2 * n + i \in 1 .. 2 * n + N
                          /\ ~ (2 * n + i <= 2 * n) /\ 2 * n + i - 2 * n = i
    BY <1>2, <1>3
  <2>4. DOMAIN (D \o F) = 1 .. Len(D \o F)
    BY <2>1
  <2>5. Len(D) = 2 * n /\ Len(F) = N
    BY <1>7
  <2>6. \A i \in 1 .. 2 * n : (D \o F)[i] = D[i]
    BY <2>1, <2>2, <2>5
  <2>7. \A i \in 1 .. N : (D \o F)[2 * n + i] = F[i]
    BY <2>1, <2>3, <2>5
  <2> QED
    BY <2>1, <2>4, <2>5, <2>6, <2>7
<1>9. ASSUME NEW k \in 1 .. n
      PROVE  /\ 2 * k - 1 \in 1 .. 2 * n /\ 2 * k \in 1 .. 2 * n
             /\ D[2 * k - 1] = Pull(Staging) /\ D[2 * k] = Push(t, Item(rings[Staging], k))
  <2>1. /\ 2 * k - 1 \in 1 .. 2 * n /\ 2 * k \in 1 .. 2 * n
        /\ (2 * k - 1) % 2 = 1 /\ (2 * k) % 2 = 0 /\ (2 * k) \div 2 = k
    BY <1>2
  <2> QED
    BY <1>2, <1>4, <2>1
<1>10. ASSUME NEW k \in 1 .. n
       PROVE  /\ Writes(m)[2 * k - 1] = Pull(Staging)
              /\ Writes(m)[2 * k] = Push(t, Item(rings[Staging], k))
  <2>1. (D \o F)[2 * k - 1] = D[2 * k - 1] /\ (D \o F)[2 * k] = D[2 * k]
    BY <1>8, <1>9
  <2> QED
    BY <1>6, <1>9, <2>1
<1>11. ASSUME NEW k \in 1 .. N
       PROVE  Writes(m)[2 * n + k] = Push(TargetOf(groups[k]), m)
  BY <1>5, <1>6, <1>8
<1>12. Len(Writes(m)) = 2 * n + N /\ DOMAIN Writes(m) = 1 .. Len(Writes(m))
  BY <1>6, <1>8
<1> QED
  BY <1>2, <1>3, <1>10, <1>11, <1>12 DEF n, N, t

LEMMA WritesStaged ==
    ASSUME groups = <<>>, NEW m
    PROVE  /\ Len(Writes(m)) = 1 /\ Writes(m)[1] = Push(Staging, m)
           /\ DOMAIN Writes(m) = 1 .. Len(Writes(m))
<1>1. PICK x : x = Push(Staging, m)
  OBVIOUS
<1>2. Writes(m) = <<x>>
  BY <1>1 DEF Writes
<1> QED
  BY <1>1, <1>2

(* One write to a queue. *)
LEMMA WriteTyped ==
    ASSUME NEW R \in [Queues -> Ring(Slot)], NEW q \in Queues, NEW m \in Slot
    PROVE  /\ Written(R, Push(q, m)) = [R EXCEPT ![q] = append(R[q], m)]
           /\ Written(R, Push(q, m)) \in [Queues -> Ring(Slot)]
           /\ Written(R, Pull(q)) = [R EXCEPT ![q] = pop_front(R[q])]
           /\ Written(R, Pull(q)) \in [Queues -> Ring(Slot)]
<1>1. append(R[q], m) \in Ring(Slot) /\ pop_front(R[q]) \in Ring(Slot)
  BY RingAppend, RingPop
<1>2. /\ Push(q, m).op = "push" /\ Push(q, m).queue = q /\ Push(q, m).message = m
      /\ Pull(q).op # "push" /\ Pull(q).queue = q
  BY DEF Push, Pull
<1>3. /\ Written(R, Push(q, m)) = [R EXCEPT ![q] = append(R[q], m)]
      /\ Written(R, Pull(q)) = [R EXCEPT ![q] = pop_front(R[q])]
  BY <1>2 DEF Written
<1> QED
  BY <1>1, <1>3

LEMMA WritesTyped ==
    ASSUME rings \in [Queues -> Ring(Slot)], groups \in Seq(GroupType), NEW m \in Slot
    PROVE  /\ Len(Writes(m)) \in Nat
           /\ \A i \in 1 .. Len(Writes(m)) :
                 \E q \in Queues, x \in Slot : Writes(m)[i] \in {Push(q, x), Pull(q)}
<1>1. CASE groups = <<>>
  BY <1>1, WritesStaged, QueueFacts
<1>2. CASE groups # <<>>
  <2> DEFINE n == Staged
             N == Len(groups)
  <2>1. /\ n \in Nat /\ N \in Nat \ {0}
        /\ Len(Writes(m)) = 2 * n + N
        /\ \A k \in 1 .. n :
              /\ Writes(m)[2 * k - 1] = Pull(Staging)
              /\ Writes(m)[2 * k] = Push(TargetOf(groups[1]), Item(rings[Staging], k))
        /\ \A k \in 1 .. N : Writes(m)[2 * n + k] = Push(TargetOf(groups[k]), m)
    BY <1>2, WritesForm
  <2>2. \A k \in 1 .. N : TargetOf(groups[k]) \in Queues
    <3>1. \A k \in 1 .. N : groups[k] \in GroupType
      OBVIOUS
    <3> QED
      BY <3>1, SmallestFacts
  <2>3. \A k \in 1 .. n : Item(rings[Staging], k) \in Slot
    BY QueueFacts, RingLength DEF Staged
  <2> HIDE DEF n, N
  <2>4. ASSUME NEW i \in 1 .. 2 * n + N
        PROVE  \/ \E k \in 1 .. n : i = 2 * k - 1 \/ i = 2 * k
               \/ \E k \in 1 .. N : i = 2 * n + k
    <3>1. CASE i <= 2 * n
      <4>1. (i + 1) \div 2 \in 1 .. n
        BY <2>1, <3>1
      <4>2. i = 2 * ((i + 1) \div 2) - 1 \/ i = 2 * ((i + 1) \div 2)
        BY <2>1
      <4> QED
        BY <4>1, <4>2
    <3>2. CASE i > 2 * n
      <4>1. i - 2 * n \in 1 .. N /\ i = 2 * n + (i - 2 * n)
        BY <2>1, <3>2
      <4> QED
        BY <4>1
    <3> QED
      BY <2>1, <3>1, <3>2
  <2>5. ASSUME NEW i \in 1 .. 2 * n + N
        PROVE  \E q \in Queues, x \in Slot : Writes(m)[i] \in {Push(q, x), Pull(q)}
    <3>1. CASE \E k \in 1 .. n : i = 2 * k - 1 \/ i = 2 * k
      <4>1. PICK k \in 1 .. n : i = 2 * k - 1 \/ i = 2 * k
        BY <3>1
      <4>2. Writes(m)[i] = Pull(Staging)
            \/ Writes(m)[i] = Push(TargetOf(groups[1]), Item(rings[Staging], k))
        BY <2>1, <4>1
      <4>3. TargetOf(groups[1]) \in Queues /\ Item(rings[Staging], k) \in Slot
        BY <2>1, <2>2, <2>3, <4>1
      <4> QED
        BY <4>2, <4>3, QueueFacts, Zenon
    <3>2. CASE \E k \in 1 .. N : i = 2 * n + k
      <4>1. PICK k \in 1 .. N : i = 2 * n + k
        BY <3>2
      <4>2. Writes(m)[i] = Push(TargetOf(groups[k]), m) /\ TargetOf(groups[k]) \in Queues
        BY <2>1, <2>2, <4>1
      <4> QED
        BY <4>2, Zenon
    <3> QED
      BY <2>4, <3>1, <3>2
  <2> QED
    BY <2>1, <2>5
<1> QED
  BY <1>1, <1>2

LEMMA AfterTyped ==
    ASSUME rings \in [Queues -> Ring(Slot)], groups \in Seq(GroupType), NEW m \in Slot,
           NEW n \in 0 .. Len(Writes(m))
    PROVE  After(Writes(m), n) \in [Queues -> Ring(Slot)]
<1> DEFINE w == Writes(m)
           B == {i \in 0 .. Len(w) : After(w, i) \notin [Queues -> Ring(Slot)]}
<1>1. /\ Len(w) \in Nat
      /\ \A i \in 1 .. Len(w) :
            \E q \in Queues, x \in Slot : w[i] \in {Push(q, x), Pull(q)}
  BY WritesTyped
<1>2. /\ After(w, 0) = rings
      /\ \A i \in 1 .. Len(w) : After(w, i) = Written(After(w, i - 1), w[i])
  BY <1>1, AfterSteps
<1>3. SUFFICES ASSUME B # {} PROVE FALSE
  OBVIOUS
<1> HIDE DEF w
<1>4. B \in SUBSET Nat
  BY <1>1
<1>5. PICK i \in B : \A j \in B : i <= j
  <2> HIDE DEF B
  <2> QED
    BY <1>3, <1>4, NatMin
<1>6. i \in 0 .. Len(w) /\ After(w, i) \notin [Queues -> Ring(Slot)]
  OBVIOUS
<1>7. i # 0
  BY <1>2, <1>6
<1>8. i \in 1 .. Len(w) /\ i - 1 \in 0 .. Len(w) /\ ~ (i <= i - 1)
  BY <1>1, <1>6, <1>7
<1>9. After(w, i - 1) \in [Queues -> Ring(Slot)]
  <2>1. i - 1 \notin B
    <3> HIDE DEF B
    <3> QED
      BY <1>5, <1>8
  <2> QED
    BY <1>8, <2>1
<1>10. PICK q \in Queues, x \in Slot : w[i] \in {Push(q, x), Pull(q)}
  BY <1>1, <1>8
<1>11. PICK R \in [Queues -> Ring(Slot)] : R = After(w, i - 1)
  BY <1>9
<1>12. Written(R, Push(q, x)) \in [Queues -> Ring(Slot)]
       /\ Written(R, Pull(q)) \in [Queues -> Ring(Slot)]
  BY WriteTyped
<1> HIDE DEF B
<1> QED
  BY <1>2, <1>6, <1>8, <1>10, <1>11, <1>12, Zenon

-----------------------------------------------------------------------------
(* Types. *)
Task == [state   : {"none", "over", "dialing", "reading", "popping", "writing"},
         queue   : Queues,
         message : Slot,
         from    : Nat]

Active(t) == t \notin {NoTask, TaskOver}

TypeInv ==
    /\ up \in BOOLEAN
    /\ rings \in [Queues -> Ring(Slot)]
    /\ producer \in [Producer -> [state : {"new", "connected", "answering", "over"},
                                  message : Slot]]
    /\ \A p \in Producer :
          producer[p].state = "answering" => producer[p].message \in 1 .. Produced
    /\ task \in [Consumer -> Task]
    /\ \A c \in Consumer : Active(task[c]) => task[c].queue \in GroupQueues
    /\ running \subseteq Consumer
    /\ taken \in [Queues -> Seq(Slot)]
    /\ owed \in Seq(SUBSET Group)
    /\ acked \subseteq 1 .. Produced
    /\ Produced <= MaxMessages

LEMMA NoTaskTyped ==
    /\ NoTask \in Task /\ TaskOver \in Task /\ ~ Active(NoTask) /\ ~ Active(TaskOver)
    /\ NoTask.state = "none" /\ TaskOver.state = "over"
    /\ 0 \in Slot /\ \A s : At(s) = [state |-> s, message |-> 0]
<1>1. TaskOver = [state |-> "over", queue |-> Staging, message |-> 0, from |-> 0]
  BY DEF TaskOver, NoTask
<1> QED
  BY <1>1, QueueFacts DEF NoTask, Task, Slot, Active, At

(* The state of a task changes, or it ends. *)
LEMMA GoesFacts ==
    ASSUME task \in [Consumer -> Task], NEW c \in Consumer, NEW state, Goes(c, state),
           state \in {"over", "reading", "popping"},
           task[c].state \in {"dialing", "reading", "writing"}
    PROVE  /\ task' \in [Consumer -> Task]
           /\ \A d \in Consumer : Active(task'[d]) =>
                 Active(task[d]) /\ task'[d].queue = task[d].queue
<1> DEFINE t == IF state = "over" THEN TaskOver
                ELSE [task[c] EXCEPT !.state = state, !.message = 0]
<1>1. task' = [task EXCEPT ![c] = t]
  BY DEF Goes
<1>2. task[c] \in Task
  OBVIOUS
<1>3. t \in Task /\ (t # TaskOver => t.queue = task[c].queue)
  BY <1>2, NoTaskTyped DEF Task
<1>4. Active(task[c])
  BY NoTaskTyped DEF Active
<1> HIDE DEF t
<1>5. task' \in [Consumer -> Task]
  BY <1>1, <1>3
<1>6. ASSUME NEW d \in Consumer, Active(task'[d])
      PROVE  Active(task[d]) /\ task'[d].queue = task[d].queue
  <2>1. CASE d = c
    <3>1. task'[d] = t /\ t # TaskOver
      BY <1>1, <1>6, <2>1 DEF Active
    <3> QED
      BY <1>3, <1>4, <2>1, <3>1
  <2>2. CASE d # c
    BY <1>1, <1>6, <2>2
  <2> QED
    BY <2>1, <2>2
<1> QED
  BY <1>5, <1>6

-----------------------------------------------------------------------------
(* The inductive invariant of the registrations: a running task reads a     *)
(* partition of a known group that has consumers, and no other reads it.    *)
Owned(t, list) ==
    \E i \in DOMAIN list : \E k \in 1 .. list[i].partitions :
        t.queue = <<list[i].id, k>> /\ list[i].consumers >= 1

OwnersInv ==
    /\ \A c \in Consumer : Active(task[c]) => Owned(task[c], groups)
    /\ \A c, d \in Consumer :
          c # d /\ Active(task[c]) /\ Active(task[d]) => task[c].queue # task[d].queue

LEMMA OwnersAreOne == OwnersInv => QueueHasOneTask
<1> SUFFICES ASSUME OwnersInv, NEW c \in Consumer, NEW d \in Consumer, c # d,
                    {task[c], task[d]} \cap {NoTask, TaskOver} = {}
             PROVE  task[c].queue # task[d].queue
  BY DEF QueueHasOneTask
<1>1. Active(task[c]) /\ Active(task[d])
  BY DEF Active
<1> QED
  BY <1>1 DEF OwnersInv

LEMMA OwnedGrows ==
    ASSUME NEW old, GroupsOK(old), NEW new, GroupsOK(new), Grown(old, new),
           NEW t, Owned(t, old)
    PROVE  Owned(t, new)
<1>0. PICK i \in DOMAIN old :
         \E k \in 1 .. old[i].partitions :
            t.queue = <<old[i].id, k>> /\ old[i].consumers >= 1
  BY DEF Owned
<1>1. PICK k \in 1 .. old[i].partitions :
         t.queue = <<old[i].id, k>> /\ old[i].consumers >= 1
  BY <1>0
<1>2. /\ i \in DOMAIN new /\ new[i].id = old[i].id
      /\ new[i].partitions >= old[i].partitions /\ new[i].consumers >= old[i].consumers
  BY DEF Grown
<1>3. old[i] \in GroupType /\ new[i] \in GroupType
  BY <1>2 DEF GroupsOK
<1>4. \A r \in GroupType : r.partitions \in Nat /\ r.consumers \in Nat
  BY PushConstants DEF GroupType
<1>5. k \in 1 .. new[i].partitions /\ new[i].consumers >= 1
  BY <1>1, <1>2, <1>3, <1>4
<1> QED
  BY <1>1, <1>2, <1>5 DEF Owned

(* Steps that start no task. *)
LEMMA OwnersFewer ==
    ASSUME OwnersInv, GroupsOK(groups),
           \A c \in Consumer : Active(task'[c]) =>
              /\ Active(task[c]) /\ task'[c].queue = task[c].queue
              /\ GroupsOK(groups') /\ Grown(groups, groups')
    PROVE  OwnersInv'
<1>1. ASSUME NEW c \in Consumer, Active(task'[c]) PROVE Owned(task'[c], groups')
  <2>1. /\ Owned(task[c], groups) /\ task'[c].queue = task[c].queue
        /\ GroupsOK(groups') /\ Grown(groups, groups')
    BY <1>1 DEF OwnersInv
  <2>2. Owned(task[c], groups')
    BY <2>1, OwnedGrows
  <2> QED
    BY <2>1, <2>2 DEF Owned
<1>2. ASSUME NEW c \in Consumer, NEW d \in Consumer, c # d, Active(task'[c]), Active(task'[d])
      PROVE  task'[c].queue # task'[d].queue
  BY <1>2 DEF OwnersInv
<1>3. /\ \A c \in Consumer : Active(task'[c]) => Owned(task'[c], groups')
      /\ \A c, d \in Consumer :
            c # d /\ Active(task'[c]) /\ Active(task'[d]) => task'[c].queue # task'[d].queue
  BY <1>1, <1>2
<1> QED
  BY <1>3 DEF OwnersInv

LEMMA GrownSame ==
    ASSUME NEW list, GroupsOK(list)
    PROVE  Grown(list, list)
<1>1. \A i \in DOMAIN list : list[i] \in GroupType
  BY DEF GroupsOK
<1>2. \A r \in GroupType : r.partitions \in Nat /\ r.consumers \in Nat
  BY PushConstants DEF GroupType
<1> QED
  BY <1>1, <1>2 DEF Grown

(* A registration gives out a queue that no running task reads. *)
LEMMA OwnersRegister ==
    ASSUME TypeInv, RegistryInv, OwnersInv, NEW c \in Consumer, NEW g \in Group,
           register_consumer(c, g)
    PROVE  OwnersInv'
<1> DEFINE j == Joined(Entry(g))
           q == <<g, j.partitions>>
<1>1. /\ task[c] = NoTask /\ j \in GroupType
      /\ GroupsOK(groups') /\ Grown(groups, groups')
      /\ Found(g) \in DOMAIN groups' /\ groups'[Found(g)] = j
      /\ task' = [task EXCEPT ![c] = [state |-> "dialing", queue |-> q,
                                      message |-> 0, from |-> Len(taken[q])]]
  BY RegisterEffect
<1>2. GroupsOK(groups)
  BY DEF RegistryInv
<1>3. /\ Entry(g) \in GroupType /\ Entry(g).id = g /\ Balanced(Entry(g))
      /\ \A i \in 1 .. Len(groups) :
            i \in 1 .. Len(WithGroup(g)) /\ WithGroup(g)[i] = groups[i]
      /\ \A i \in 1 .. Len(WithGroup(g)) : WithGroup(g)[i].id = g <=> i = Found(g)
      /\ DOMAIN groups = 1 .. Len(groups)
  BY <1>2, FoundFacts DEF GroupsOK
<1>4. /\ j.id = g /\ j.consumers = Entry(g).consumers + 1
      /\ j.partitions \in Nat \ {0}
      /\ j.partitions > Entry(g).partitions \/ Entry(g).consumers = 0
  BY <1>3, JoinedFacts
<1> HIDE DEF j
<1>5. ASSUME NEW d \in Consumer, d # c
      PROVE  task'[d] = task[d] /\ (Active(task[d]) => task[d].queue # q)
  <2>1. task'[d] = task[d]
    BY <1>1, <1>5 DEF TypeInv
  <2>2. SUFFICES ASSUME Active(task[d]), task[d].queue = q PROVE FALSE
    BY <2>1
  <2> PICK i \in DOMAIN groups :
         \E k \in 1 .. groups[i].partitions :
            task[d].queue = <<groups[i].id, k>> /\ groups[i].consumers >= 1
    BY <2>2 DEF OwnersInv, Owned
  <2>3. PICK k \in 1 .. groups[i].partitions :
           task[d].queue = <<groups[i].id, k>> /\ groups[i].consumers >= 1
    OBVIOUS
  <2>4. groups[i].id = g /\ k = j.partitions
    BY <2>2, <2>3
  <2>5. groups[i] = Entry(g)
    BY <1>3, <2>4 DEF Entry
  <2>6. Entry(g).partitions \in Nat /\ Entry(g).consumers \in Nat
    BY <1>3, PushConstants DEF GroupType
  <2> QED
    BY <1>4, <2>3, <2>4, <2>5, <2>6
<1>6. task'[c].queue = q
  BY <1>1 DEF TypeInv
<1>7. ASSUME NEW d \in Consumer, Active(task'[d]) PROVE Owned(task'[d], groups')
  <2>1. CASE d = c
    <3>1. j.partitions \in 1 .. j.partitions /\ j.consumers >= 1
      BY <1>3, <1>4 DEF GroupType
    <3> QED
      BY <1>1, <1>4, <1>6, <2>1, <3>1 DEF Owned
  <2>2. CASE d # c
    <3>1. task'[d] = task[d]
      BY <1>5, <2>2
    <3>2. Owned(task[d], groups)
      BY <1>7, <3>1 DEF OwnersInv
    <3> QED
      BY <1>1, <1>2, <3>1, <3>2, OwnedGrows
  <2> QED
    BY <2>1, <2>2
<1>8. ASSUME NEW d \in Consumer, NEW e \in Consumer, d # e,
             Active(task'[d]), Active(task'[e])
      PROVE  task'[d].queue # task'[e].queue
  <2>1. CASE d = c
    BY <1>5, <1>6, <1>8, <2>1
  <2>2. CASE e = c
    BY <1>5, <1>6, <1>8, <2>2
  <2>3. CASE d # c /\ e # c
    BY <1>5, <1>8, <2>3 DEF OwnersInv
  <2> QED
    BY <2>1, <2>2, <2>3
<1>9. /\ \A d \in Consumer : Active(task'[d]) => Owned(task'[d], groups')
      /\ \A d, e \in Consumer :
            d # e /\ Active(task'[d]) /\ Active(task'[e]) => task'[d].queue # task'[e].queue
  BY <1>7, <1>8
<1> QED
  BY <1>9 DEF OwnersInv

(* The broker ends. *)
LEMMA EndedFacts ==
    ASSUME TypeInv, RegistryInv, Ended
    PROVE  /\ up' = FALSE /\ groups' = <<>> /\ GroupsOK(groups') /\ running' = {}
           /\ task' \in [Consumer -> Task]
           /\ \A c \in Consumer : ~ Active(task'[c])
           /\ producer' \in [Producer -> [state : {"new", "connected", "answering", "over"},
                                          message : Slot]]
           /\ \A p \in Producer : producer'[p].state # "answering"
<1>1. up' = FALSE /\ groups' = <<>> /\ running' = {}
  BY DEF Ended
<1>2. GroupsOK(groups')
  BY <1>1 DEF GroupsOK
<1>3. /\ task' \in [Consumer -> Task]
      /\ \A c \in Consumer : ~ Active(task'[c])
  BY NoTaskTyped DEF Ended
<1>4. \A p \in Producer : producer'[p] \in {At("new"), At("over")}
  BY DEF Ended
<1>5. DOMAIN producer' = Producer /\ producer' = [p \in Producer |-> producer'[p]]
  BY DEF Ended
<1>6. \A p \in Producer :
         /\ producer'[p] \in [state : {"new", "connected", "answering", "over"}, message : Slot]
         /\ producer'[p].state # "answering"
  BY <1>4, NoTaskTyped
<1>7. producer' \in [Producer -> [state : {"new", "connected", "answering", "over"},
                                  message : Slot]]
  BY <1>5, <1>6
<1> QED
  BY <1>1, <1>2, <1>3, <1>6, <1>7

BaseInv == TypeInv /\ RegistryInv /\ OwnersInv

LEMMA BaseInit == Init => BaseInv
<1> SUFFICES ASSUME Init PROVE BaseInv
  OBVIOUS
<1>1. rings \in [Queues -> Ring(Slot)]
  BY NoTaskTyped, RingNew DEF Init
<1>2. /\ producer \in [Producer -> [state : {"new", "connected", "answering", "over"},
                                    message : Slot]]
      /\ \A p \in Producer : producer[p].state # "answering"
  BY NoTaskTyped DEF Init
<1>3. task \in [Consumer -> Task] /\ \A c \in Consumer : ~ Active(task[c])
  BY NoTaskTyped DEF Init
<1>4. /\ owed \in Seq(SUBSET Group) /\ Produced = 0 /\ acked = {} /\ running = {} /\ up = TRUE
      /\ taken \in [Queues -> Seq(Slot)]
  BY DEF Init, Produced
<1>5. TypeInv
  BY <1>1, <1>2, <1>3, <1>4, PushConstants DEF TypeInv
<1>6. RegistryInv
  BY PushConstants DEF Init, RegistryInv, GroupsOK, DiskOK
<1>7. OwnersInv
  BY <1>3 DEF OwnersInv
<1> QED
  BY <1>5, <1>6, <1>7 DEF BaseInv

(* The facts a step must show for the types. *)
LEMMA TypeKept ==
    ASSUME TypeInv,
           up' \in BOOLEAN,
           rings' \in [Queues -> Ring(Slot)],
           producer' \in [Producer -> [state : {"new", "connected", "answering", "over"},
                                       message : Slot]],
           \A p \in Producer : producer'[p].state = "answering" =>
              producer'[p] = producer[p] \/ producer'[p].message \in 1 .. Len(owed'),
           task' \in [Consumer -> Task],
           \A c \in Consumer : Active(task'[c]) =>
              \/ Active(task[c]) /\ task'[c].queue = task[c].queue
              \/ task'[c].queue \in GroupQueues,
           running' \subseteq Consumer,
           taken' \in [Queues -> Seq(Slot)],
           \/ owed' = owed
           \/ \E s \in SUBSET Group : owed' = Append(owed, s) /\ Len(owed) < MaxMessages,
           acked' \subseteq acked \cup (1 .. Len(owed))
    PROVE  TypeInv'
<1>1. owed \in Seq(SUBSET Group) /\ Len(owed) \in Nat /\ Len(owed) <= MaxMessages
  BY DEF TypeInv, Produced
<1>2. /\ owed' \in Seq(SUBSET Group) /\ Len(owed') \in Nat
      /\ Len(owed) <= Len(owed') /\ Len(owed') <= MaxMessages
  <2>1. CASE owed' = owed
    BY <1>1, <2>1
  <2>2. CASE \E s \in SUBSET Group : owed' = Append(owed, s) /\ Len(owed) < MaxMessages
    BY <1>1, <2>2, PushConstants
  <2> QED
    BY <2>1, <2>2
<1>3. \A x \in 1 .. Len(owed) : x \in 1 .. Len(owed')
  BY <1>1, <1>2
<1>4. \A p \in Producer :
         producer'[p].state = "answering" => producer'[p].message \in 1 .. Len(owed')
  BY <1>3 DEF TypeInv, Produced
<1>5. acked' \subseteq 1 .. Len(owed')
  BY <1>3 DEF TypeInv, Produced
<1>6. \A c \in Consumer : Active(task'[c]) => task'[c].queue \in GroupQueues
  BY DEF TypeInv
<1> QED
  BY <1>2, <1>4, <1>5, <1>6 DEF TypeInv, Produced

LEMMA BaseNext == BaseInv /\ [Next]_vars => BaseInv'
<1> SUFFICES ASSUME BaseInv, [Next]_vars PROVE BaseInv'
  OBVIOUS
<1> DEFINE ProducerType == [state : {"new", "connected", "answering", "over"}, message : Slot]
<1>0. /\ TypeInv /\ RegistryInv /\ OwnersInv /\ GroupsOK(groups) /\ DiskOK(disk)
      /\ groups \in Seq(GroupType) /\ Grown(groups, groups)
      /\ up \in BOOLEAN /\ rings \in [Queues -> Ring(Slot)]
      /\ producer \in [Producer -> ProducerType] /\ task \in [Consumer -> Task]
      /\ running \subseteq Consumer /\ taken \in [Queues -> Seq(Slot)]
      /\ owed \in Seq(SUBSET Group) /\ Produced = Len(owed) /\ Len(owed) \in Nat
  <2>1. TypeInv /\ RegistryInv /\ OwnersInv
    BY DEF BaseInv
  <2>2. GroupsOK(groups) /\ DiskOK(disk)
    BY <2>1 DEF RegistryInv
  <2>3. Grown(groups, groups)
    BY <2>2, GrownSame
  <2>4. groups \in Seq(GroupType)
    BY <2>2 DEF GroupsOK
  <2>5. /\ up \in BOOLEAN /\ rings \in [Queues -> Ring(Slot)]
        /\ producer \in [Producer -> ProducerType] /\ task \in [Consumer -> Task]
        /\ running \subseteq Consumer /\ taken \in [Queues -> Seq(Slot)]
        /\ owed \in Seq(SUBSET Group)
    BY <2>1 DEF TypeInv
  <2>6. Produced = Len(owed) /\ Len(owed) \in Nat
    BY <2>5 DEF Produced
  <2> QED
    BY <2>1, <2>2, <2>3, <2>4, <2>5, <2>6
<1>1. ASSUME NEW p \in Producer, register_producer(p) PROVE BaseInv'
  <2>1. /\ producer' = [producer EXCEPT ![p] = At("connected")]
        /\ UNCHANGED <<up, groups, disk, rings, task, running, taken, owed, acked>>
    BY <1>1 DEF register_producer, histories
  <2>2. At("connected") \in ProducerType /\ At("connected").state # "answering"
    BY NoTaskTyped
  <2>3. /\ producer' \in [Producer -> ProducerType]
        /\ \A o \in Producer : producer'[o].state = "answering" => producer'[o] = producer[o]
    BY <1>0, <2>1, <2>2
  <2>4. TypeInv'
    BY <1>0, <2>1, <2>3, TypeKept
  <2>5. OwnersInv'
    BY <1>0, <2>1, OwnersFewer
  <2> QED
    BY <1>0, <2>1, <2>4, <2>5 DEF BaseInv, RegistryInv
<1>2. ASSUME NEW p \in Producer, produce_pcm(p) PROVE BaseInv'
  <2> DEFINE m == Produced + 1
  <2>1. /\ Produced < MaxMessages
        /\ rings' = After(Writes(m), Len(Writes(m)))
        /\ owed' = Append(owed, Range(Ids(groups)))
        /\ producer' = [producer EXCEPT ![p] = [state |-> "answering", message |-> m]]
        /\ UNCHANGED <<up, groups, disk, task, running, taken, acked>>
    BY <1>2 DEF produce_pcm
  <2>2. m \in Message /\ m \in Slot
    BY <1>0, <2>1, PushConstants DEF Message, Slot
  <2>3. rings' \in [Queues -> Ring(Slot)]
    <3>1. Len(Writes(m)) \in 0 .. Len(Writes(m))
      BY <1>0, <2>2, WritesTyped
    <3> QED
      BY <1>0, <2>1, <2>2, <3>1, AfterTyped
  <2>4. Range(Ids(groups)) \in SUBSET Group
    BY <1>0, IdsFacts
  <2>5. Len(owed') = Len(owed) + 1 /\ m \in 1 .. Len(owed')
    BY <1>0, <2>1, <2>4
  <2> HIDE DEF m
  <2>6. /\ producer' \in [Producer -> ProducerType]
        /\ \A o \in Producer : producer'[o].state = "answering" =>
              producer'[o] = producer[o] \/ producer'[o].message \in 1 .. Len(owed')
    BY <1>0, <2>1, <2>2, <2>5
  <2>7. \E s \in SUBSET Group : owed' = Append(owed, s) /\ Len(owed) < MaxMessages
    BY <1>0, <2>1, <2>4
  <2>8. TypeInv'
    BY <1>0, <2>1, <2>3, <2>6, <2>7, TypeKept
  <2>9. OwnersInv'
    BY <1>0, <2>1, OwnersFewer
  <2> QED
    BY <1>0, <2>1, <2>8, <2>9 DEF BaseInv, RegistryInv
<1>3. ASSUME NEW p \in Producer, Answer(p) PROVE BaseInv'
  <2>1. /\ producer[p].state = "answering"
        /\ producer' = [producer EXCEPT ![p] = At("connected")]
        /\ acked' = acked \cup {producer[p].message}
        /\ UNCHANGED <<up, groups, disk, rings, task, running, taken, owed>>
    BY <1>3 DEF Answer
  <2>2. At("connected") \in ProducerType /\ At("connected").state # "answering"
    BY NoTaskTyped
  <2>3. /\ producer' \in [Producer -> ProducerType]
        /\ \A o \in Producer : producer'[o].state = "answering" => producer'[o] = producer[o]
    BY <1>0, <2>1, <2>2
  <2>4. acked' \subseteq acked \cup (1 .. Len(owed))
    BY <1>0, <2>1 DEF TypeInv
  <2>5. TypeInv'
    BY <1>0, <2>1, <2>3, <2>4, TypeKept
  <2>6. OwnersInv'
    BY <1>0, <2>1, OwnersFewer
  <2> QED
    BY <1>0, <2>1, <2>5, <2>6 DEF BaseInv, RegistryInv
<1>4. ASSUME Ended, UNCHANGED <<disk, taken, acked>>,
             rings' \in [Queues -> Ring(Slot)],
             \/ owed' = owed
             \/ \E s \in SUBSET Group : owed' = Append(owed, s) /\ Len(owed) < MaxMessages
      PROVE  BaseInv'
  <2>1. /\ up' = FALSE /\ groups' = <<>> /\ GroupsOK(groups') /\ running' = {}
        /\ task' \in [Consumer -> Task] /\ \A c \in Consumer : ~ Active(task'[c])
        /\ producer' \in [Producer -> ProducerType]
        /\ \A p \in Producer : producer'[p].state # "answering"
    BY <1>0, <1>4, EndedFacts
  <2>2. TypeInv'
    BY <1>0, <1>4, <2>1, TypeKept
  <2>3. OwnersInv'
    BY <1>0, <2>1, OwnersFewer
  <2> QED
    BY <1>0, <1>4, <2>1, <2>2, <2>3 DEF BaseInv, RegistryInv
<1>5. ASSUME NEW p \in Producer, CrashDuringProduce(p) PROVE BaseInv'
  <2> DEFINE m == Produced + 1
  <2>1. /\ Produced < MaxMessages /\ Ended /\ UNCHANGED <<disk, taken, acked>>
        /\ \E n \in 0 .. Len(Writes(m)) - 1 : rings' = After(Writes(m), n)
        /\ owed' = Append(owed, {})
    BY <1>5 DEF CrashDuringProduce
  <2>2. m \in Slot
    BY <1>0, <2>1, PushConstants DEF Message, Slot
  <2>3. rings' \in [Queues -> Ring(Slot)]
    <3>1. PICK n \in 0 .. Len(Writes(m)) - 1 : rings' = After(Writes(m), n)
      BY <2>1
    <3>2. n \in 0 .. Len(Writes(m))
      BY <1>0, <2>2, WritesTyped
    <3> QED
      BY <1>0, <2>2, <3>1, <3>2, AfterTyped
  <2>4. \E s \in SUBSET Group : owed' = Append(owed, s) /\ Len(owed) < MaxMessages
    <3>1. {} \in SUBSET Group /\ owed' = Append(owed, {}) /\ Len(owed) < MaxMessages
      BY <1>0, <2>1
    <3> QED
      BY <3>1, Zenon
  <2> QED
    BY <1>4, <2>1, <2>3, <2>4
<1>6. CASE Crash
  <2>1. Ended /\ UNCHANGED <<disk, taken, acked, rings, owed>>
    BY <1>6 DEF Crash, histories
  <2> QED
    BY <1>0, <1>4, <2>1
<1>7. ASSUME NEW c \in Consumer,
             dial_back_to_consumer(c) \/ ReadReady(c) \/ Write(c)
      PROVE  BaseInv'
  <2>1. /\ UNCHANGED <<up, groups, disk, rings, producer, running, taken, owed, acked>>
        /\ task[c].state \in {"dialing", "reading", "writing"}
        /\ \E s \in {"over", "reading", "popping"} : Goes(c, s)
    BY <1>7 DEF dial_back_to_consumer, ReadReady, Write, histories
  <2>2. /\ task' \in [Consumer -> Task]
        /\ \A d \in Consumer : Active(task'[d]) =>
              Active(task[d]) /\ task'[d].queue = task[d].queue
    BY <1>0, <2>1, GoesFacts
  <2>3. TypeInv'
    BY <1>0, <2>1, <2>2, TypeKept
  <2>4. OwnersInv'
    BY <1>0, <2>1, <2>2, OwnersFewer
  <2> QED
    BY <1>0, <2>1, <2>3, <2>4 DEF BaseInv, RegistryInv
<1>8. ASSUME NEW c \in Consumer, Pop(c) PROVE BaseInv'
  <2> DEFINE q == task[c].queue
             x == front(rings[q])
             t == [task[c] EXCEPT !.state = "writing", !.message = x]
  <2>1. /\ task[c].state = "popping"
        /\ task' = [task EXCEPT ![c].state = "writing", ![c].message = x]
        /\ rings' = [rings EXCEPT ![q] = pop_front(rings[q])]
        /\ taken' = [taken EXCEPT ![q] = Append(taken[q], x)]
        /\ UNCHANGED <<up, groups, disk, producer, running, owed, acked>>
    BY <1>8 DEF Pop
  <2>2. task[c] \in Task /\ q \in Queues /\ Active(task[c])
    BY <1>0, <2>1, NoTaskTyped DEF Task, Active
  <2>3. x \in Slot /\ pop_front(rings[q]) \in Ring(Slot)
    BY <1>0, <2>2, RingPop
  <2> HIDE DEF x
  <2>4. task' = [task EXCEPT ![c] = t]
    BY <1>0, <2>1
  <2>5. t \in Task /\ t.queue = q
    BY <2>2, <2>3 DEF Task
  <2> HIDE DEF t, q
  <2>6. /\ task' \in [Consumer -> Task]
        /\ \A d \in Consumer : Active(task'[d]) =>
              Active(task[d]) /\ task'[d].queue = task[d].queue
    BY <1>0, <2>2, <2>4, <2>5 DEF q
  <2>7. rings' \in [Queues -> Ring(Slot)] /\ taken' \in [Queues -> Seq(Slot)]
    BY <1>0, <2>1, <2>2, <2>3
  <2>8. TypeInv'
    BY <1>0, <2>1, <2>6, <2>7, TypeKept
  <2>9. OwnersInv'
    BY <1>0, <2>1, <2>6, OwnersFewer
  <2> QED
    BY <1>0, <2>1, <2>8, <2>9 DEF BaseInv, RegistryInv
<1>9. ASSUME NEW c \in Consumer, Die(c) PROVE BaseInv'
  <2>1. /\ running' = running \ {c}
        /\ UNCHANGED <<up, groups, disk, rings, producer, task, taken, owed, acked>>
    BY <1>9 DEF Die, histories
  <2>2. TypeInv'
    BY <1>0, <2>1, TypeKept
  <2>3. OwnersInv'
    BY <1>0, <2>1, OwnersFewer
  <2> QED
    BY <1>0, <2>1, <2>2, <2>3 DEF BaseInv, RegistryInv
<1>10. ASSUME NEW c \in Consumer, NEW g \in Group, register_consumer(c, g) PROVE BaseInv'
  <2> DEFINE q == <<g, Joined(Entry(g)).partitions>>
             t == [state |-> "dialing", queue |-> q, message |-> 0, from |-> Len(taken[q])]
  <2>1. /\ Joined(Entry(g)) \in GroupType
        /\ GroupsOK(groups') /\ DiskOK(disk')
        /\ task' = [task EXCEPT ![c] = t]
        /\ running' = running \cup {c}
        /\ UNCHANGED <<up, rings, producer, taken, owed, acked>>
    BY <1>0, <1>10, RegisterEffect DEF histories
  <2>2. q \in GroupQueues /\ q \in Queues
    BY <2>1, QueueFacts DEF GroupType, GroupQueues
  <2> HIDE DEF q
  <2>3. t \in Task /\ t.queue = q
    BY <1>0, <2>2 DEF Task, Slot
  <2> HIDE DEF t
  <2>4. /\ task' \in [Consumer -> Task]
        /\ \A d \in Consumer : Active(task'[d]) =>
              \/ Active(task[d]) /\ task'[d].queue = task[d].queue
              \/ task'[d].queue \in GroupQueues
    BY <1>0, <2>1, <2>2, <2>3
  <2>5. TypeInv'
    BY <1>0, <2>1, <2>4, TypeKept
  <2>6. OwnersInv'
    BY <1>0, <1>10, OwnersRegister
  <2>7. up
    BY <1>10 DEF register_consumer
  <2> QED
    BY <2>1, <2>5, <2>6, <2>7 DEF BaseInv, RegistryInv
<1>11. ASSUME NEW g \in Group, RegisterFails(g) PROVE BaseInv'
  <2>1. /\ GroupsOK(groups') /\ DiskOK(disk') /\ Grown(groups, groups') /\ up
        /\ UNCHANGED <<up, rings, producer, task, running, taken, owed, acked>>
    BY <1>0, <1>11, RegisterFailsEffect DEF histories
  <2>2. TypeInv'
    BY <1>0, <2>1, TypeKept
  <2>3. OwnersInv'
    BY <1>0, <2>1, OwnersFewer
  <2> QED
    BY <2>1, <2>2, <2>3 DEF BaseInv, RegistryInv
<1>12. CASE Restart
  <2>1. /\ ~ up /\ up' = TRUE
        /\ groups' = [i \in DOMAIN disk.groups |-> Loaded(disk.groups[i])]
        /\ UNCHANGED <<disk, rings, producer, task, running, taken, owed, acked>>
    BY <1>12 DEF Restart, histories
  <2>2. TypeInv'
    BY <1>0, <2>1, TypeKept
  <2>3. \A c \in Consumer : ~ Active(task[c])
    BY <1>0, <2>1 DEF RegistryInv, OwnersInv, Owned
  <2>4. OwnersInv'
    BY <1>0, <2>1, <2>3, OwnersFewer
  <2>5. GroupsOK(groups')
    <3>1. /\ disk.groups \in Seq(Group) /\ disk.count \in [Group -> 0 .. MaxPartitions]
          /\ \A i, j \in DOMAIN disk.groups : disk.groups[i] = disk.groups[j] => i = j
      BY <1>0 DEF DiskOK
    <3>2. ASSUME NEW g \in Group
          PROVE  Loaded(g) \in GroupType /\ Loaded(g).id = g /\ Balanced(Loaded(g))
      BY <3>1, PushConstants DEF Loaded, GroupType, Balanced
    <3>3. /\ DOMAIN disk.groups = 1 .. Len(disk.groups) /\ Len(disk.groups) \in Nat
          /\ \A i \in DOMAIN disk.groups : disk.groups[i] \in Group
      BY <3>1
    <3>4. /\ DOMAIN groups' = 1 .. Len(disk.groups)
          /\ \A i \in DOMAIN groups' : /\ groups'[i] = Loaded(disk.groups[i])
                                       /\ disk.groups[i] \in Group
      BY <2>1, <3>3
    <3>5. groups' \in Seq(GroupType)
      BY <2>1, <3>2, <3>3
    <3>6. \A i, j \in DOMAIN groups' : groups'[i].id = groups'[j].id => i = j
      BY <3>1, <3>2, <3>3, <3>4
    <3>7. \A i \in DOMAIN groups' : Balanced(groups'[i])
      BY <3>2, <3>4
    <3> QED
      BY <3>5, <3>6, <3>7 DEF GroupsOK
  <2> QED
    BY <1>0, <2>1, <2>2, <2>4, <2>5 DEF BaseInv, RegistryInv
<1>13. CASE UNCHANGED vars
  <2>1. UNCHANGED <<up, groups, disk, rings, producer, task, running, taken, owed, acked>>
    BY <1>13 DEF vars
  <2>2. TypeInv'
    BY <1>0, <2>1, TypeKept
  <2>3. OwnersInv'
    BY <1>0, <2>1, OwnersFewer
  <2> QED
    BY <1>0, <2>1, <2>2, <2>3 DEF BaseInv, RegistryInv
<1> QED
  BY <1>1, <1>2, <1>3, <1>5, <1>6, <1>7, <1>8, <1>9, <1>10, <1>11, <1>12, <1>13, Zenon
     DEF Next, ConsumerStep

(* Type correctness of the push path: rings, registrations, tasks and       *)
(* histories (topic.rs, cgroup.rs, mmap_queue.rs and the dial-back tasks).  *)
THEOREM TypeCorrect == Spec => []TypeOK
<1>1. BaseInv => TypeOK
  <2> SUFFICES ASSUME TypeInv, RegistryInv PROVE TypeOK
    BY DEF BaseInv
  <2>1. \A r \in GroupType : /\ r.id \in Group /\ r.partitions \in 1 .. MaxPartitions
                             /\ r.consumers \in Nat
    BY DEF GroupType
  <2>2. \A i \in DOMAIN groups : groups[i] \in GroupType
    BY DEF RegistryInv, GroupsOK
  <2>3. disk.count \in [Group -> 0 .. MaxPartitions]
    BY DEF RegistryInv, DiskOK
  <2>4. \A c \in Consumer :
           task[c] \in {NoTask, TaskOver} \/ task[c].queue \in Queues \ {Staging}
    BY QueueFacts DEF TypeInv, Active
  <2>5. rings \in [Queues -> Ring({0} \cup Message)]
    BY DEF TypeInv, Slot
  <2> QED
    BY <2>1, <2>2, <2>3, <2>4, <2>5 DEF TypeOK, TypeInv
<1> QED
  BY BaseInit, BaseNext, <1>1, PTL DEF Spec

(* Two consumers whose tasks still run never pop from the same queue:       *)
(* assign_partition gives out a partition that was not there before, or the *)
(* first of a group nobody joined, also after failing registrations and     *)
(* after restarts that reload partition counts.                             *)
THEOREM QueueHasOneTaskCorrect == Spec => []QueueHasOneTask
<1>1. BaseInv => QueueHasOneTask
  BY OwnersAreOne DEF BaseInv
<1> QED
  BY BaseInit, BaseNext, <1>1, PTL DEF Spec

-----------------------------------------------------------------------------
(* The order of messages.  Sets of messages that a ring holds, and that a   *)
(* queue holds or has given out.                                            *)
Sorted(ring) ==
    \A i, j \in 1 .. live_len(ring) : i < j => Item(ring, i) < Item(ring, j)

Seen(R, T, q) == Inside(R[q]) \cup Range(T[q])

Ascending(s) == \A i, j \in DOMAIN s : i < j => s[i] < s[j]

(* Each queue is sorted and gives out smaller messages than it holds, the   *)
(* queues of a group share no message, and staged messages are newer than   *)
(* all others.                                                              *)
Ordered(R, T) ==
    /\ \A q \in Queues : Sorted(R[q])
    /\ \A q \in Queues : \A x \in Range(T[q]), y \in Inside(R[q]) : x < y
    /\ \A q \in Queues : Ascending(T[q])
    /\ \A g \in Group : \A j, k \in 1 .. MaxPartitions :
          j # k => \A x \in Seen(R, T, <<g, j>>) : x \notin Seen(R, T, <<g, k>>)
    /\ \A q \in GroupQueues : \A x \in Seen(R, T, q), y \in Inside(R[Staging]) : x < y

LEMMA AppendSorted ==
    ASSUME NEW r \in Ring(Slot), NEW m \in Slot, Sorted(r), \A x \in Inside(r) : x < m
    PROVE  Sorted(append(r, m)) /\ Inside(append(r, m)) \subseteq Inside(r) \cup {m}
<1> DEFINE a == append(r, m)
           n == live_len(r)
<1>1. /\ n = QUEUE_CAPACITY - 1 => live_len(a) = 0
      /\ n # QUEUE_CAPACITY - 1 =>
            /\ live_len(a) = n + 1
            /\ \A i \in 1 .. n : Item(a, i) = Item(r, i)
            /\ Item(a, n + 1) = m
  BY RingAppend
<1>2. n \in Nat
  BY RingLength, PushConstants
<1> HIDE DEF a
<1>3. CASE live_len(a) = 0
  <2>1. \A i \in 1 .. live_len(a) : FALSE
    BY <1>3
  <2> QED
    BY <2>1 DEF Sorted, Inside, a
<1>4. CASE /\ live_len(a) = n + 1 /\ \A i \in 1 .. n : Item(a, i) = Item(r, i)
           /\ Item(a, n + 1) = m
  <2>1. \A i \in 1 .. n + 1 : i \in 1 .. n \/ i = n + 1
    BY <1>2
  <2>2. \A i \in 1 .. n : Item(r, i) \in Inside(r) /\ Item(r, i) < m
    BY DEF Inside
  <2>3. ASSUME NEW i \in 1 .. n + 1, NEW j \in 1 .. n + 1, i < j
        PROVE  Item(a, i) < Item(a, j)
    <3>1. i \in 1 .. n
      BY <1>2, <2>3
    <3>2. CASE j \in 1 .. n
      BY <1>4, <2>3, <3>1, <3>2 DEF Sorted
    <3>3. CASE j = n + 1
      BY <1>4, <2>2, <3>1, <3>3
    <3> QED
      BY <2>1, <3>2, <3>3
  <2>4. Sorted(a)
    BY <1>4, <2>3 DEF Sorted
  <2>5. \A i \in 1 .. n + 1 : Item(a, i) \in Inside(r) \cup {m}
    BY <1>4, <2>1, <2>2
  <2>6. Inside(a) \subseteq Inside(r) \cup {m}
    BY <1>4, <2>5 DEF Inside
  <2> QED
    BY <2>4, <2>6 DEF a
<1> QED
  BY <1>1, <1>3, <1>4

LEMMA PopSorted ==
    ASSUME NEW r \in Ring(Slot), Sorted(r), live_len(r) # 0
    PROVE  /\ Sorted(pop_front(r)) /\ Inside(pop_front(r)) \subseteq Inside(r)
           /\ Item(r, 1) \in Inside(r) /\ front(r) = Item(r, 1)
           /\ \A y \in Inside(pop_front(r)) : Item(r, 1) < y
<1> DEFINE a == pop_front(r)
           n == live_len(r)
<1>1. /\ front(r) = Item(r, 1) /\ live_len(a) = n - 1
      /\ \A i \in 1 .. n - 1 : Item(a, i) = Item(r, i + 1)
  BY RingPop
<1>2. n \in Nat \ {0}
  BY RingLength, PushConstants
<1> HIDE DEF a, n
<1>3. \A i \in 1 .. n - 1 : i + 1 \in 1 .. n /\ 1 < i + 1
  BY <1>2
<1>4. 1 \in 1 .. n
  BY <1>2
<1>5. Sorted(a)
  <2> SUFFICES ASSUME NEW i \in 1 .. n - 1, NEW j \in 1 .. n - 1, i < j
               PROVE  Item(a, i) < Item(a, j)
    BY <1>1 DEF Sorted
  <2>1. i + 1 < j + 1 /\ i + 1 \in 1 .. n /\ j + 1 \in 1 .. n
    BY <1>2
  <2>2. Item(r, i + 1) < Item(r, j + 1)
    BY <2>1 DEF Sorted, n
  <2> QED
    BY <1>1, <2>2
<1>6. Inside(r) = {Item(r, i) : i \in 1 .. n} /\ Inside(a) = {Item(a, i) : i \in 1 .. n - 1}
  BY <1>1 DEF Inside, n
<1>7. \A i \in 1 .. n - 1 : Item(r, 1) < Item(r, i + 1)
  BY <1>3, <1>4 DEF Sorted, n
<1>8. \A i \in 1 .. n - 1 : Item(a, i) \in Inside(r) /\ Item(r, 1) < Item(a, i)
  BY <1>1, <1>3, <1>6, <1>7
<1> QED
  BY <1>1, <1>4, <1>5, <1>6, <1>8 DEF a

(* Fewer messages in the rings. *)
LEMMA OrderedShrinks ==
    ASSUME NEW R, NEW T, NEW S, Ordered(R, T),
           \A q \in Queues : Sorted(S[q]) /\ Inside(S[q]) \subseteq Inside(R[q])
    PROVE  Ordered(S, T) /\ \A q \in Queues : Seen(S, T, q) \subseteq Seen(R, T, q)
<1>1. \A q \in Queues : Seen(S, T, q) \subseteq Seen(R, T, q)
  BY DEF Seen
<1>2. \A q \in GroupQueues : q \in Queues
  BY QueueFacts
<1>3. \A g \in Group : \A k \in 1 .. MaxPartitions : <<g, k>> \in Queues
  BY <1>2 DEF GroupQueues
<1>4. \A q \in Queues : \A x \in Range(T[q]), y \in Inside(S[q]) : x < y
  BY DEF Ordered
<1>5. \A g \in Group : \A j, k \in 1 .. MaxPartitions :
         j # k => \A x \in Seen(S, T, <<g, j>>) : x \notin Seen(S, T, <<g, k>>)
  BY <1>1, <1>3 DEF Ordered
<1>6. \A q \in GroupQueues : \A x \in Seen(S, T, q), y \in Inside(S[Staging]) : x < y
  BY <1>1, <1>2, QueueFacts DEF Ordered
<1> QED
  BY <1>1, <1>4, <1>5, <1>6 DEF Ordered

(* A push to a queue of a group, of a message newer than all that the group *)
(* has seen and older than what is staged.                                  *)
LEMMA PushOrdered ==
    ASSUME NEW R \in [Queues -> Ring(Slot)], NEW T, Ordered(R, T),
           NEW g \in Group, NEW p \in 1 .. MaxPartitions, NEW m \in Slot,
           \A k \in 1 .. MaxPartitions : \A x \in Seen(R, T, <<g, k>>) : x < m,
           \A y \in Inside(R[Staging]) : m < y
    PROVE  /\ Ordered(Written(R, Push(<<g, p>>, m)), T)
           /\ \A q \in Queues : q # <<g, p>> =>
                 /\ Written(R, Push(<<g, p>>, m))[q] = R[q]
                 /\ Seen(Written(R, Push(<<g, p>>, m)), T, q) = Seen(R, T, q)
           /\ Seen(Written(R, Push(<<g, p>>, m)), T, <<g, p>>) \subseteq
                 Seen(R, T, <<g, p>>) \cup {m}
<1> DEFINE t == <<g, p>>
           S == Written(R, Push(t, m))
<1>0. t \in GroupQueues /\ t \in Queues /\ t # Staging
  BY QueueFacts DEF GroupQueues
<1>1. S = [R EXCEPT ![t] = append(R[t], m)]
  <2> HIDE DEF t
  <2> QED
    BY <1>0, WriteTyped
<1> HIDE DEF S
<1>2. S[t] = append(R[t], m) /\ \A q \in Queues : q # t => S[q] = R[q]
  BY <1>0, <1>1
<1>3. /\ \A x \in Seen(R, T, t) : x < m
      /\ \A x \in Inside(R[t]) : x < m
      /\ \A x \in Range(T[t]) : x < m
  BY DEF Seen
<1>4. Sorted(R[t]) /\ R[t] \in Ring(Slot)
  BY <1>0 DEF Ordered
<1>5. Sorted(S[t]) /\ Inside(S[t]) \subseteq Inside(R[t]) \cup {m}
  BY <1>2, <1>3, <1>4, AppendSorted
<1>6. Seen(S, T, t) \subseteq Seen(R, T, t) \cup {m}
  BY <1>5 DEF Seen
<1>7. \A q \in Queues : q # t => S[q] = R[q] /\ Seen(S, T, q) = Seen(R, T, q)
  BY <1>2 DEF Seen
<1>8. \A q \in Queues : Sorted(S[q])
  BY <1>5, <1>7 DEF Ordered
<1>9. ASSUME NEW q \in Queues, NEW x \in Range(T[q]), NEW y \in Inside(S[q])
      PROVE  x < y
  <2>1. CASE q = t /\ y = m
    BY <1>3, <2>1
  <2>2. CASE q # t \/ y # m
    <3>1. y \in Inside(R[q])
      BY <1>5, <1>7, <2>2
    <3> QED
      BY <3>1 DEF Ordered
  <2> QED
    BY <2>1, <2>2
<1>10. ASSUME NEW h \in Group, NEW j \in 1 .. MaxPartitions, NEW k \in 1 .. MaxPartitions,
              j # k, NEW x \in Seen(S, T, <<h, j>>)
       PROVE  x \notin Seen(S, T, <<h, k>>)
  <2>0. <<h, j>> \in Queues /\ <<h, k>> \in Queues /\ <<h, j>> # <<h, k>>
    BY <1>10, QueueFacts DEF GroupQueues
  <2>1. \A z \in Seen(R, T, <<h, j>>) : z \notin Seen(R, T, <<h, k>>)
    BY <1>10 DEF Ordered
  <2>2. CASE <<h, j>> = t
    <3>1. h = g /\ Seen(S, T, <<h, k>>) = Seen(R, T, <<h, k>>)
      BY <1>7, <2>0, <2>2
    <3>2. x \in Seen(R, T, <<h, j>>) \/ x = m
      BY <1>6, <1>10, <2>2
    <3>3. m \notin Seen(R, T, <<h, k>>)
      <4>1. \A z \in Seen(R, T, <<h, k>>) : z < m
        BY <3>1
      <4>2. ~ (m < m)
        BY PushConstants DEF Slot, Message
      <4> QED
        BY <4>1, <4>2
    <3> QED
      BY <2>1, <3>1, <3>2, <3>3
  <2>3. CASE <<h, k>> = t
    <3>1. h = g /\ x \in Seen(R, T, <<h, j>>)
      BY <1>7, <1>10, <2>0, <2>3
    <3>2. x # m
      <4>1. x < m
        BY <3>1
      <4>2. ~ (m < m)
        BY PushConstants DEF Slot, Message
      <4> QED
        BY <4>1, <4>2
    <3> QED
      BY <1>6, <2>1, <2>3, <3>1, <3>2
  <2>4. CASE <<h, j>> # t /\ <<h, k>> # t
    BY <1>7, <1>10, <2>0, <2>1, <2>4
  <2> QED
    BY <2>2, <2>3, <2>4
<1>11. ASSUME NEW q \in GroupQueues, NEW x \in Seen(S, T, q), NEW y \in Inside(S[Staging])
       PROVE  x < y
  <2>1. q \in Queues /\ y \in Inside(R[Staging])
    BY <1>0, <1>7, QueueFacts
  <2>2. CASE x \in Seen(R, T, q)
    BY <2>1, <2>2 DEF Ordered
  <2>3. CASE x = m
    BY <2>1, <2>3
  <2> QED
    BY <1>6, <1>7, <2>1, <2>2, <2>3
<1>12. Ordered(S, T)
  BY <1>8, <1>9, <1>10, <1>11 DEF Ordered
<1> QED
  BY <1>6, <1>7, <1>12 DEF S

(* A push to the staging queue, of the newest message. *)
LEMMA StageOrdered ==
    ASSUME NEW R \in [Queues -> Ring(Slot)], NEW T, Ordered(R, T), NEW m \in Slot,
           \A q \in Queues : \A x \in Seen(R, T, q) : x < m
    PROVE  /\ Ordered(Written(R, Push(Staging, m)), T)
           /\ \A q \in Queues :
                 Seen(Written(R, Push(Staging, m)), T, q) \subseteq Seen(R, T, q) \cup {m}
<1> DEFINE t == Staging
           S == Written(R, Push(t, m))
<1>0. t \in Queues /\ t \notin GroupQueues
  BY QueueFacts
<1> HIDE DEF t
<1>1. S = [R EXCEPT ![t] = append(R[t], m)]
  BY <1>0, WriteTyped
<1> HIDE DEF S
<1>2. S[t] = append(R[t], m) /\ \A q \in Queues : q # t => S[q] = R[q]
  BY <1>0, <1>1
<1>3. \A q \in Queues : (\A x \in Inside(R[q]) : x < m) /\ (\A x \in Range(T[q]) : x < m)
  BY DEF Seen
<1>4. Sorted(R[t]) /\ R[t] \in Ring(Slot)
  BY <1>0 DEF Ordered
<1>5. Sorted(S[t]) /\ Inside(S[t]) \subseteq Inside(R[t]) \cup {m}
  BY <1>0, <1>2, <1>3, <1>4, AppendSorted
<1>6. \A q \in Queues : q # t => S[q] = R[q] /\ Seen(S, T, q) = Seen(R, T, q)
  BY <1>2 DEF Seen
<1>7. \A q \in Queues : Sorted(S[q])
  BY <1>5, <1>6 DEF Ordered
<1>8. \A q \in Queues : Inside(S[q]) \subseteq Inside(R[q]) \cup {m}
  BY <1>5, <1>6
<1>9. \A q \in Queues : \A x \in Range(T[q]), y \in Inside(S[q]) : x < y
  BY <1>3, <1>8 DEF Ordered
<1>10. \A q \in GroupQueues : q \in Queues /\ q # t
  BY <1>0, QueueFacts
<1>11. \A g \in Group : \A j, k \in 1 .. MaxPartitions :
          j # k => \A x \in Seen(S, T, <<g, j>>) : x \notin Seen(S, T, <<g, k>>)
  <2>1. \A g \in Group : \A k \in 1 .. MaxPartitions : <<g, k>> \in Queues /\ <<g, k>> # t
    BY <1>10 DEF GroupQueues
  <2> QED
    BY <1>6, <2>1 DEF Ordered
<1>12. ASSUME NEW q \in GroupQueues, NEW x \in Seen(S, T, q), NEW y \in Inside(S[t])
       PROVE  x < y
  <2>1. q \in Queues /\ x \in Seen(R, T, q)
    BY <1>6, <1>10
  <2>2. CASE y \in Inside(R[t])
    BY <2>1, <2>2 DEF Ordered, t
  <2>3. CASE y = m
    BY <2>1, <2>3
  <2> QED
    BY <1>5, <2>2, <2>3
<1>13. Ordered(S, T)
  BY <1>7, <1>9, <1>11, <1>12 DEF Ordered, t
<1>14. \A q \in Queues : Seen(S, T, q) \subseteq Seen(R, T, q) \cup {m}
  BY <1>8 DEF Seen
<1> QED
  BY <1>13, <1>14 DEF S, t

(* One staged message moves to a group: after the pull, and after the push. *)
LEMMA DrainStep ==
    ASSUME NEW R \in [Queues -> Ring(Slot)], NEW T, Ordered(R, T),
           live_len(R[Staging]) # 0, NEW g \in Group, NEW p \in 1 .. MaxPartitions,
           NEW A, A = Written(R, Pull(Staging)),
           NEW B, B = Written(A, Push(<<g, p>>, Item(R[Staging], 1)))
    PROVE  /\ A \in [Queues -> Ring(Slot)] /\ B \in [Queues -> Ring(Slot)]
           /\ Ordered(A, T) /\ Ordered(B, T)
           /\ A[Staging] = pop_front(R[Staging]) /\ B[Staging] = pop_front(R[Staging])
           /\ \A q \in Queues :
                 /\ Seen(A, T, q) \subseteq Seen(R, T, q)
                 /\ Seen(B, T, q) \subseteq Seen(R, T, q) \cup Seen(R, T, Staging)
<1>0. Staging \in Queues /\ Staging # <<g, p>> /\ <<g, p>> \in Queues /\ 0 \in Slot
  BY QueueFacts DEF GroupQueues, Slot
<1> DEFINE m == Item(R[Staging], 1)
           t == <<g, p>>
<1>1. R[Staging] \in Ring(Slot) /\ Sorted(R[Staging])
  BY <1>0 DEF Ordered
<1>2. 1 \in 1 .. live_len(R[Staging])
  BY <1>1, RingLength, PushConstants
<1>3. m \in Slot
  BY <1>1, <1>2, RingLength
<1>4. /\ Sorted(pop_front(R[Staging]))
      /\ Inside(pop_front(R[Staging])) \subseteq Inside(R[Staging])
      /\ m \in Inside(R[Staging])
      /\ \A y \in Inside(pop_front(R[Staging])) : m < y
  BY <1>1, PopSorted
<1>5. A = [R EXCEPT ![Staging] = pop_front(R[Staging])] /\ A \in [Queues -> Ring(Slot)]
  BY <1>0, WriteTyped
<1>6. /\ A[Staging] = pop_front(R[Staging])
      /\ \A q \in Queues : q # Staging => A[q] = R[q]
  BY <1>0, <1>5
<1>7. \A q \in Queues : Sorted(A[q]) /\ Inside(A[q]) \subseteq Inside(R[q])
  BY <1>4, <1>6 DEF Ordered
<1>8. Ordered(A, T) /\ \A q \in Queues : Seen(A, T, q) \subseteq Seen(R, T, q)
  BY <1>7, OrderedShrinks
<1> HIDE DEF m
<1>9. \A k \in 1 .. MaxPartitions : \A x \in Seen(A, T, <<g, k>>) : x < m
  <2>1. \A k \in 1 .. MaxPartitions : <<g, k>> \in GroupQueues /\ <<g, k>> \in Queues
    BY QueueFacts DEF GroupQueues
  <2> QED
    BY <1>4, <1>8, <2>1 DEF Ordered
<1>10. \A y \in Inside(A[Staging]) : m < y
  BY <1>4, <1>6
<1>11. B = Written(A, Push(<<g, p>>, m))
  BY DEF m
<1>12. /\ Ordered(B, T)
       /\ \A q \in Queues : q # <<g, p>> => B[q] = A[q] /\ Seen(B, T, q) = Seen(A, T, q)
       /\ Seen(B, T, <<g, p>>) \subseteq Seen(A, T, <<g, p>>) \cup {m}
  <2>1. /\ Ordered(Written(A, Push(<<g, p>>, m)), T)
        /\ \A q \in Queues : q # <<g, p>> =>
              /\ Written(A, Push(<<g, p>>, m))[q] = A[q]
              /\ Seen(Written(A, Push(<<g, p>>, m)), T, q) = Seen(A, T, q)
        /\ Seen(Written(A, Push(<<g, p>>, m)), T, <<g, p>>) \subseteq
              Seen(A, T, <<g, p>>) \cup {m}
    <3>1. A \in [Queues -> Ring(Slot)] /\ Ordered(A, T)
      BY <1>5, <1>8
    <3> QED
      BY <3>1, <1>3, <1>9, <1>10, PushOrdered
  <2> QED
    BY <1>11, <2>1
<1>13. B \in [Queues -> Ring(Slot)]
  <2> HIDE DEF t
  <2>1. Written(A, Push(t, m)) \in [Queues -> Ring(Slot)]
    BY <1>0, <1>3, <1>5, WriteTyped DEF t
  <2> QED
    BY <1>11, <2>1 DEF t
<1>14. m \in Seen(R, T, Staging)
  BY <1>4 DEF Seen
<1>15. ASSUME NEW q \in Queues
       PROVE  Seen(B, T, q) \subseteq Seen(R, T, q) \cup Seen(R, T, Staging)
  BY <1>8, <1>12, <1>14
<1> QED
  BY <1>0, <1>5, <1>6, <1>8, <1>12, <1>13, <1>15

(* The first phase of produce_pcm: k staged messages have been moved. *)
Drained(k, T, w, top) ==
    /\ After(w, 2 * k) \in [Queues -> Ring(Slot)]
    /\ Ordered(After(w, 2 * k), T)
    /\ live_len(After(w, 2 * k)[Staging]) = Staged - k
    /\ \A j \in 1 .. Staged - k :
          Item(After(w, 2 * k)[Staging], j) = Item(rings[Staging], k + j)
    /\ \A q \in Queues : Seen(After(w, 2 * k), T, q) \subseteq 1 .. top

LEMMA DrainedStep ==
    ASSUME rings \in [Queues -> Ring(Slot)], groups \in Seq(GroupType), groups # <<>>,
           NEW T, NEW m \in Slot, NEW top \in Nat,
           NEW k \in 0 .. Staged - 1, Drained(k, T, Writes(m), top)
    PROVE  /\ Drained(k + 1, T, Writes(m), top)
           /\ Ordered(After(Writes(m), 2 * k + 1), T)
           /\ \A q \in Queues : Seen(After(Writes(m), 2 * k + 1), T, q) \subseteq 1 .. top
<1> DEFINE w == Writes(m)
           n == Staged
           r == groups[1]
<1>1. /\ n \in Nat /\ Len(groups) \in Nat \ {0} /\ Len(w) = 2 * n + Len(groups)
      /\ \A j \in 1 .. n : /\ w[2 * j - 1] = Pull(Staging)
                           /\ w[2 * j] = Push(TargetOf(groups[1]), Item(rings[Staging], j))
  BY WritesForm
<1>2. r \in GroupType
  BY <1>1
<1>3. TargetOf(r) = <<r.id, smallest_partition_index(r)>>
      /\ smallest_partition_index(r) \in 1 .. r.partitions
  BY <1>2, SmallestFacts
<1>4. r.id \in Group /\ smallest_partition_index(r) \in 1 .. MaxPartitions
  BY <1>2, <1>3, PushConstants DEF GroupType
<1> HIDE DEF w, n
<1>5. /\ k + 1 \in 1 .. n /\ 2 * (k + 1) - 1 = 2 * k + 1 /\ 2 * (k + 1) = 2 * k + 2
      /\ 2 * k + 1 \in 1 .. 2 * n /\ 2 * k + 2 \in 1 .. 2 * n /\ k \in Nat
      /\ 2 * k + 1 - 1 = 2 * k /\ 2 * k + 2 - 1 = 2 * k + 1 /\ 2 * n \in Nat
      /\ k < n
  BY <1>1 DEF n
<1>6. /\ w[2 * k + 1] = Pull(Staging)
      /\ w[2 * k + 2] = Push(TargetOf(r), Item(rings[Staging], k + 1))
  <2>1. w[2 * (k + 1) - 1] = Pull(Staging)
        /\ w[2 * (k + 1)] = Push(TargetOf(groups[1]), Item(rings[Staging], k + 1))
    BY <1>1, <1>5
  <2> QED
    BY <1>5, <2>1
<1>7. /\ After(w, 2 * k + 1) = Written(After(w, 2 * k), w[2 * k + 1])
      /\ After(w, 2 * k + 2) = Written(After(w, 2 * k + 1), w[2 * k + 2])
  <2>1. \A i \in 1 .. 2 * n : After(w, i) = Written(After(w, i - 1), w[i])
    BY <1>5, AfterSteps
  <2>2. /\ After(w, 2 * k + 1) = Written(After(w, 2 * k + 1 - 1), w[2 * k + 1])
        /\ After(w, 2 * k + 2) = Written(After(w, 2 * k + 2 - 1), w[2 * k + 2])
    BY <1>5, <2>1
  <2> QED
    BY <1>5, <2>2
<1>8. PICK R \in [Queues -> Ring(Slot)] : R = After(w, 2 * k)
  BY DEF Drained, w
<1>9. /\ Ordered(R, T) /\ live_len(R[Staging]) = n - k
      /\ \A j \in 1 .. n - k : Item(R[Staging], j) = Item(rings[Staging], k + j)
      /\ \A q \in Queues : Seen(R, T, q) \subseteq 1 .. top
  BY <1>8 DEF Drained, w, n
<1>10. PICK A : A = After(w, 2 * k + 1)
  OBVIOUS
<1>11. PICK B : B = After(w, 2 * k + 2)
  OBVIOUS
<1>12. 1 \in 1 .. n - k /\ live_len(R[Staging]) # 0
  BY <1>1, <1>5, <1>9
<1>13. Item(R[Staging], 1) = Item(rings[Staging], k + 1)
  BY <1>9, <1>12
<1>14. PICK g \in Group : g = r.id
  BY <1>4
<1>15. PICK p \in 1 .. MaxPartitions : p = smallest_partition_index(r)
  BY <1>4
<1>16. A = Written(R, Pull(Staging)) /\ B = Written(A, Push(<<g, p>>, Item(R[Staging], 1)))
  BY <1>3, <1>6, <1>7, <1>8, <1>10, <1>11, <1>13, <1>14, <1>15
<1>17. /\ A \in [Queues -> Ring(Slot)] /\ B \in [Queues -> Ring(Slot)]
       /\ Ordered(A, T) /\ Ordered(B, T)
       /\ B[Staging] = pop_front(R[Staging])
       /\ \A q \in Queues :
             /\ Seen(A, T, q) \subseteq Seen(R, T, q)
             /\ Seen(B, T, q) \subseteq Seen(R, T, q) \cup Seen(R, T, Staging)
  BY <1>9, <1>12, <1>16, DrainStep
<1>18. \A q \in Queues : Seen(A, T, q) \subseteq 1 .. top /\ Seen(B, T, q) \subseteq 1 .. top
  BY <1>9, <1>17, QueueFacts
<1>19. R[Staging] \in Ring(Slot)
  BY QueueFacts
<1>20. /\ live_len(B[Staging]) = n - k - 1
       /\ \A i \in 1 .. n - k - 1 : Item(B[Staging], i) = Item(R[Staging], i + 1)
  BY <1>9, <1>12, <1>17, <1>19, RingPop
<1>21. /\ n - k - 1 = n - (k + 1)
       /\ \A i \in 1 .. n - (k + 1) : i + 1 \in 1 .. n - k /\ k + (i + 1) = (k + 1) + i
  BY <1>1, <1>5
<1>22. \A i \in 1 .. n - (k + 1) : Item(B[Staging], i) = Item(rings[Staging], (k + 1) + i)
  <2>1. ASSUME NEW i \in 1 .. n - (k + 1)
        PROVE  Item(B[Staging], i) = Item(rings[Staging], (k + 1) + i)
    <3>1. Item(B[Staging], i) = Item(R[Staging], i + 1)
      BY <1>20, <1>21
    <3>2. Item(R[Staging], i + 1) = Item(rings[Staging], k + (i + 1))
      BY <1>9, <1>21
    <3> QED
      BY <1>21, <3>1, <3>2
  <2> QED
    BY <2>1
<1>23. After(w, 2 * (k + 1)) = B
  BY <1>5, <1>11
<1>24. Drained(k + 1, T, w, top)
  BY <1>17, <1>18, <1>20, <1>21, <1>22, <1>23 DEF Drained, n
<1> QED
  BY <1>10, <1>17, <1>18, <1>24 DEF w

(* The second phase: k groups have got the message. *)
FannedOut(k, T, w, top) ==
    /\ After(w, 2 * Staged + k) \in [Queues -> Ring(Slot)]
    /\ Ordered(After(w, 2 * Staged + k), T)
    /\ live_len(After(w, 2 * Staged + k)[Staging]) = 0
    /\ \A q \in Queues : Seen(After(w, 2 * Staged + k), T, q) \subseteq 1 .. top + 1
    /\ \A j \in k + 1 .. Len(groups) : \A p \in 1 .. MaxPartitions :
          Seen(After(w, 2 * Staged + k), T, <<groups[j].id, p>>) \subseteq 1 .. top

LEMMA FannedOutStep ==
    ASSUME rings \in [Queues -> Ring(Slot)], GroupsOK(groups), groups # <<>>,
           NEW T, NEW top \in Nat, top + 1 \in Slot,
           NEW k \in 0 .. Len(groups) - 1, FannedOut(k, T, Writes(top + 1), top)
    PROVE  FannedOut(k + 1, T, Writes(top + 1), top)
<1>0. PICK m \in Slot : m = top + 1
  OBVIOUS
<1> DEFINE w == Writes(m)
           n == Staged
           N == Len(groups)
           r == groups[k + 1]
           g == r.id
           p == smallest_partition_index(r)
<1>1. groups \in Seq(GroupType) /\ \A i, j \in 1 .. N : groups[i].id = groups[j].id => i = j
  BY DEF GroupsOK
<1>2. /\ n \in Nat /\ N \in Nat \ {0} /\ Len(w) = 2 * n + N
      /\ \A j \in 1 .. N : w[2 * n + j] = Push(TargetOf(groups[j]), m)
  BY <1>1, WritesForm
<1>3. k \in Nat /\ k + 1 \in 1 .. N
  BY <1>2
<1>4. r \in GroupType
  BY <1>1, <1>3
<1>5. TargetOf(r) = <<g, p>> /\ p \in 1 .. r.partitions
  BY <1>1, <1>4, SmallestFacts
<1>6. g \in Group /\ p \in 1 .. MaxPartitions
  BY <1>4, <1>5, PushConstants DEF GroupType
<1> HIDE DEF w, n, N, p
<1>7. w[2 * n + (k + 1)] = Push(<<g, p>>, m)
  BY <1>2, <1>3, <1>5
<1>8. After(w, 2 * n + (k + 1)) = Written(After(w, 2 * n + k), Push(<<g, p>>, m))
  <2>1. 2 * n + N \in Nat
    BY <1>2
  <2>2. PICK x \in 1 .. 2 * n + N : x = 2 * n + (k + 1)
    BY <1>2, <1>3
  <2>3. x - 1 = 2 * n + k
    BY <1>2, <1>3, <2>2
  <2>4. After(w, x) = Written(After(w, x - 1), w[x])
    BY <2>1, AfterSteps
  <2> QED
    BY <1>7, <2>2, <2>3, <2>4, Zenon
<1>9. PICK R \in [Queues -> Ring(Slot)] : R = After(w, 2 * n + k)
  BY <1>0 DEF FannedOut, w, n
<1>10. /\ Ordered(R, T) /\ live_len(R[Staging]) = 0
       /\ \A q \in Queues : Seen(R, T, q) \subseteq 1 .. top + 1
       /\ \A j \in k + 1 .. N : \A e \in 1 .. MaxPartitions :
             Seen(R, T, <<groups[j].id, e>>) \subseteq 1 .. top
  BY <1>0, <1>9 DEF FannedOut, w, n, N
<1>11. \A e \in 1 .. MaxPartitions : \A x \in Seen(R, T, <<g, e>>) : x < m
  <2>1. k + 1 \in k + 1 .. N
    BY <1>2, <1>3
  <2>2. \A e \in 1 .. MaxPartitions : Seen(R, T, <<g, e>>) \subseteq 1 .. top
    BY <1>10, <2>1
  <2>3. \A x \in 1 .. top : x < m
    BY <1>0
  <2> QED
    BY <2>2, <2>3
<1>12. \A y \in Inside(R[Staging]) : m < y
  <2>1. \A i \in 1 .. live_len(R[Staging]) : FALSE
    BY <1>10
  <2> QED
    BY <2>1 DEF Inside
<1>13. PICK S : S = Written(R, Push(<<g, p>>, m))
  OBVIOUS
<1> HIDE DEF g
<1>14. /\ Ordered(S, T)
       /\ \A q \in Queues : q # <<g, p>> => S[q] = R[q] /\ Seen(S, T, q) = Seen(R, T, q)
       /\ Seen(S, T, <<g, p>>) \subseteq Seen(R, T, <<g, p>>) \cup {m}
  BY <1>6, <1>10, <1>11, <1>12, <1>13, PushOrdered
<1>15. <<g, p>> \in GroupQueues /\ <<g, p>> \in Queues /\ <<g, p>> # Staging
  BY <1>6, QueueFacts DEF GroupQueues
<1>16. S \in [Queues -> Ring(Slot)]
  <2>1. PICK t \in Queues : t = <<g, p>>
    BY <1>15
  <2>2. Written(R, Push(t, m)) \in [Queues -> Ring(Slot)]
    BY WriteTyped
  <2> QED
    BY <1>13, <2>1, <2>2
<1>17. live_len(S[Staging]) = 0
  BY <1>10, <1>14, <1>15, QueueFacts
<1>18. \A q \in Queues : Seen(S, T, q) \subseteq 1 .. top + 1
  <2>1. m \in 1 .. top + 1
    BY <1>0
  <2> QED
    BY <1>10, <1>14, <2>1
<1>19. ASSUME NEW j \in k + 1 + 1 .. N, NEW e \in 1 .. MaxPartitions
       PROVE  Seen(S, T, <<groups[j].id, e>>) \subseteq 1 .. top
  <2>1. j \in k + 1 .. N /\ j \in 1 .. N /\ j # k + 1
    BY <1>2, <1>3
  <2>2. groups[j] \in GroupType /\ groups[j].id # g
    BY <1>1, <1>3, <2>1 DEF g, N
  <2>3. <<groups[j].id, e>> \in Queues
    BY <2>2, QueueFacts DEF GroupQueues, GroupType
  <2>4. <<groups[j].id, e>> # <<g, p>>
    BY <2>2
  <2>5. Seen(S, T, <<groups[j].id, e>>) = Seen(R, T, <<groups[j].id, e>>)
    BY <1>14, <2>3, <2>4
  <2> QED
    BY <1>10, <2>1, <2>5
<1>20. After(w, 2 * n + (k + 1)) = S
  BY <1>8, <1>9, <1>13
<1>21. FannedOut(k + 1, T, w, top)
  BY <1>14, <1>16, <1>17, <1>18, <1>19, <1>20 DEF FannedOut, n, N
<1> QED
  BY <1>0, <1>21 DEF w

(* All of produce_pcm, and every prefix of it that a crash may leave.       *)
LEMMA ProduceOrdered ==
    ASSUME rings \in [Queues -> Ring(Slot)], GroupsOK(groups), NEW T, Ordered(rings, T),
           NEW top \in Nat, top + 1 \in Slot,
           \A q \in Queues : Seen(rings, T, q) \subseteq 1 .. top,
           NEW i \in 0 .. Len(Writes(top + 1))
    PROVE  /\ Ordered(After(Writes(top + 1), i), T)
           /\ \A q \in Queues : Seen(After(Writes(top + 1), i), T, q) \subseteq 1 .. top + 1
<1>0. PICK m \in Slot : m = top + 1
  OBVIOUS
<1> DEFINE w == Writes(m)
           n == Staged
           N == Len(groups)
<1>1. groups \in Seq(GroupType)
  BY DEF GroupsOK
<1>2. Len(w) \in Nat
  BY <1>1, WritesTyped
<1>3. i \in 0 .. Len(w)
  BY <1>0
<1>4. \A x \in 1 .. top : x \in 1 .. top + 1 /\ x < m
  BY <1>0
<1>5. /\ After(w, 0) = rings
      /\ \A j \in 1 .. Len(w) : After(w, j) = Written(After(w, j - 1), w[j])
  BY <1>2, AfterSteps
<1>6. SUFFICES /\ Ordered(After(w, i), T)
               /\ \A q \in Queues : Seen(After(w, i), T, q) \subseteq 1 .. top + 1
  BY <1>0
<1>7. CASE groups = <<>>
  <2>1. Len(w) = 1 /\ w[1] = Push(Staging, m)
    BY <1>7, WritesStaged
  <2> HIDE DEF w
  <2>2. After(w, 1) = Written(rings, Push(Staging, m))
    BY <1>5, <2>1
  <2>3. /\ Ordered(Written(rings, Push(Staging, m)), T)
        /\ \A q \in Queues :
              Seen(Written(rings, Push(Staging, m)), T, q) \subseteq Seen(rings, T, q) \cup {m}
    <3>1. \A q \in Queues : \A x \in Seen(rings, T, q) : x < m
      BY <1>4
    <3> QED
      BY <3>1, StageOrdered
  <2>4. i = 0 \/ i = 1
    BY <1>3, <2>1
  <2>5. m \in 1 .. top + 1
    BY <1>0
  <2>6. CASE i = 0
    BY <1>4, <1>5, <2>6
  <2>7. CASE i = 1
    BY <1>4, <2>2, <2>3, <2>5, <2>7
  <2> QED
    BY <2>4, <2>6, <2>7
<1>8. CASE groups # <<>>
  <2>1. n \in Nat /\ N \in Nat \ {0} /\ Len(w) = 2 * n + N
    BY <1>1, <1>8, WritesForm
  <2> HIDE DEF w, n, N
  <2>2. Drained(0, T, w, top)
    <3>1. 2 * 0 = 0 /\ n - 0 = n /\ \A j \in 1 .. n : 0 + j = j
      BY <2>1
    <3> QED
      BY <1>5, <3>1 DEF Drained, Staged, n
  <2>3. ASSUME NEW k \in 0 .. n PROVE Drained(k, T, w, top)
    <3> DEFINE B == {j \in 0 .. n : ~ Drained(j, T, w, top)}
    <3>1. SUFFICES ASSUME B # {} PROVE FALSE
      OBVIOUS
    <3>2. B \in SUBSET Nat
      BY <2>1
    <3>3. PICK b \in B : \A j \in B : b <= j
      <4> HIDE DEF B
      <4> QED
        BY <3>1, <3>2, NatMin
    <3>4. b \in 0 .. n /\ ~ Drained(b, T, w, top)
      OBVIOUS
    <3>5. b # 0
      BY <2>2, <3>4
    <3>6. PICK a \in 0 .. n - 1 : a = b - 1
      BY <2>1, <3>4, <3>5
    <3>7. a \in 0 .. n /\ a + 1 = b /\ ~ (b <= a)
      BY <2>1, <3>4, <3>6
    <3>8. Drained(a, T, w, top)
      BY <3>3, <3>7
    <3>9. Drained(a + 1, T, w, top)
      BY <1>1, <1>8, <3>6, <3>8, DrainedStep DEF w, n
    <3> QED
      BY <3>4, <3>7, <3>9
  <2>4. FannedOut(0, T, w, top)
    <3>1. Drained(n, T, w, top)
      BY <2>1, <2>3
    <3>2. 2 * n + 0 = 2 * n /\ n - n = 0
      BY <2>1
    <3>3. /\ After(w, 2 * n) \in [Queues -> Ring(Slot)] /\ Ordered(After(w, 2 * n), T)
          /\ live_len(After(w, 2 * n)[Staging]) = 0
          /\ \A q \in Queues : Seen(After(w, 2 * n), T, q) \subseteq 1 .. top
      BY <3>1, <3>2 DEF Drained, n
    <3>4. ASSUME NEW j \in 0 + 1 .. N, NEW p \in 1 .. MaxPartitions
          PROVE  <<groups[j].id, p>> \in Queues
      <4>1. groups[j] \in GroupType
        BY <1>1 DEF N
      <4> QED
        BY <4>1, QueueFacts DEF GroupType, GroupQueues
    <3> QED
      BY <1>4, <3>2, <3>3, <3>4 DEF FannedOut, n, N
  <2>5. ASSUME NEW k \in 0 .. N PROVE FannedOut(k, T, w, top)
    <3> DEFINE B == {j \in 0 .. N : ~ FannedOut(j, T, w, top)}
    <3>1. SUFFICES ASSUME B # {} PROVE FALSE
      OBVIOUS
    <3>2. B \in SUBSET Nat
      BY <2>1
    <3>3. PICK b \in B : \A j \in B : b <= j
      <4> HIDE DEF B
      <4> QED
        BY <3>1, <3>2, NatMin
    <3>4. b \in 0 .. N /\ ~ FannedOut(b, T, w, top)
      OBVIOUS
    <3>5. b # 0
      BY <2>4, <3>4
    <3>6. PICK a \in 0 .. N - 1 : a = b - 1
      BY <2>1, <3>4, <3>5
    <3>7. a \in 0 .. N /\ a + 1 = b /\ ~ (b <= a)
      BY <2>1, <3>4, <3>6
    <3>8. FannedOut(a, T, w, top)
      BY <3>3, <3>7
    <3>9. FannedOut(a + 1, T, w, top)
      BY <1>0, <1>8, <3>6, <3>8, FannedOutStep DEF w, N
    <3> QED
      BY <3>4, <3>7, <3>9
  <2>6. CASE i > 2 * n
    <3>1. PICK k \in 0 .. N : i = 2 * n + k
      <4>1. i - 2 * n \in 0 .. N /\ i = 2 * n + (i - 2 * n)
        BY <1>3, <2>1, <2>6
      <4> QED
        BY <4>1
    <3>2. FannedOut(k, T, w, top)
      BY <2>5
    <3> QED
      BY <3>1, <3>2 DEF FannedOut, n
  <2>7. CASE i <= 2 * n /\ \E k \in 0 .. n : i = 2 * k
    <3>1. PICK k \in 0 .. n : i = 2 * k
      BY <2>7
    <3>2. Drained(k, T, w, top)
      BY <2>3
    <3> QED
      BY <1>4, <3>1, <3>2 DEF Drained
  <2>8. CASE i <= 2 * n /\ \E k \in 0 .. n - 1 : i = 2 * k + 1
    <3>1. PICK k \in 0 .. n - 1 : i = 2 * k + 1
      BY <2>8
    <3>2. k \in 0 .. n
      BY <2>1
    <3>3. Drained(k, T, w, top)
      BY <2>3, <3>2
    <3>4. /\ Ordered(After(w, 2 * k + 1), T)
          /\ \A q \in Queues : Seen(After(w, 2 * k + 1), T, q) \subseteq 1 .. top
      BY <1>1, <1>8, <3>3, DrainedStep DEF w, n
    <3> QED
      BY <1>4, <3>1, <3>4
  <2>9. i <= 2 * n => (\E k \in 0 .. n : i = 2 * k) \/ \E k \in 0 .. n - 1 : i = 2 * k + 1
    <3> SUFFICES ASSUME i <= 2 * n
                 PROVE  (\E k \in 0 .. n : i = 2 * k) \/ \E k \in 0 .. n - 1 : i = 2 * k + 1
      OBVIOUS
    <3>1. i \in Nat
      BY <1>2, <1>3
    <3>2. \/ i \div 2 \in 0 .. n /\ i = 2 * (i \div 2)
          \/ i \div 2 \in 0 .. n - 1 /\ i = 2 * (i \div 2) + 1
      BY <2>1, <3>1
    <3> QED
      BY <3>2
  <2>10. i \in Nat /\ 2 * n \in Nat
    BY <1>2, <1>3, <2>1
  <2> QED
    BY <2>6, <2>7, <2>8, <2>9, <2>10
<1> QED
  BY <1>7, <1>8

-----------------------------------------------------------------------------
OrderInv ==
    /\ Ordered(rings, taken)
    /\ \A q \in Queues : Seen(rings, taken, q) \subseteq 1 .. Produced

LEMMA OrderInit == Init => OrderInv
<1> SUFFICES ASSUME Init PROVE OrderInv
  OBVIOUS
<1>1. \A q \in Queues : live_len(rings[q]) = 0 /\ taken[q] = <<>>
  BY RingNew, NoTaskTyped DEF Init
<1>2. \A q \in Queues : \A i \in 1 .. live_len(rings[q]) : FALSE
  BY <1>1
<1>3. \A q \in Queues : (\A x \in Inside(rings[q]) : FALSE) /\ Sorted(rings[q])
  BY <1>2 DEF Inside, Sorted
<1>4. \A q \in Queues : (\A x \in Range(taken[q]) : FALSE) /\ Ascending(taken[q])
  BY <1>1 DEF Range, Ascending
<1>5. \A q \in Queues : \A x \in Seen(rings, taken, q) : FALSE
  BY <1>3, <1>4 DEF Seen
<1>6. \A q \in GroupQueues : q \in Queues
  BY QueueFacts
<1>7. \A g \in Group : \A k \in 1 .. MaxPartitions : <<g, k>> \in Queues
  BY <1>6 DEF GroupQueues
<1>8. Ordered(rings, taken)
  BY <1>3, <1>4, <1>5, <1>6, <1>7 DEF Ordered
<1> QED
  BY <1>5, <1>8 DEF OrderInv

(* A task takes the first message of its queue. *)
LEMMA PopOrdered ==
    ASSUME NEW R \in [Queues -> Ring(Slot)], NEW T \in [Queues -> Seq(Slot)], Ordered(R, T),
           NEW q \in GroupQueues, live_len(R[q]) # 0,
           NEW S, S[q] = pop_front(R[q]),
           NEW U, U[q] = Append(T[q], front(R[q])),
           \A p \in Queues : p # q => S[p] = R[p] /\ U[p] = T[p]
    PROVE  Ordered(S, U) /\ \A p \in Queues : Seen(S, U, p) \subseteq Seen(R, T, p)
<1>0. q \in Queues /\ q # Staging /\ Staging \in Queues
  BY QueueFacts
<1>1. R[q] \in Ring(Slot) /\ Sorted(R[q]) /\ T[q] \in Seq(Slot) /\ Ascending(T[q])
  BY <1>0 DEF Ordered
<1>2. PICK x : x = front(R[q])
  OBVIOUS
<1>3. x \in Slot
  BY <1>1, <1>2, RingPop
<1>4. /\ Sorted(pop_front(R[q])) /\ Inside(pop_front(R[q])) \subseteq Inside(R[q])
      /\ x \in Inside(R[q]) /\ \A y \in Inside(pop_front(R[q])) : x < y
  BY <1>1, <1>2, PopSorted
<1>5. /\ S[q] = pop_front(R[q]) /\ U[q] = Append(T[q], x)
      /\ \A p \in Queues : p # q => S[p] = R[p] /\ U[p] = T[p]
  BY <1>0, <1>2
<1>6. /\ Len(T[q]) \in Nat /\ DOMAIN T[q] = 1 .. Len(T[q])
      /\ DOMAIN U[q] = 1 .. Len(T[q]) + 1
      /\ U[q][Len(T[q]) + 1] = x
      /\ \A i \in 1 .. Len(T[q]) : U[q][i] = T[q][i]
  BY <1>1, <1>3, <1>5, AppendProperties
<1>7. \A i \in 1 .. Len(T[q]) + 1 : i \in 1 .. Len(T[q]) \/ i = Len(T[q]) + 1
  BY <1>6
<1>8. \A y \in Range(U[q]) : y \in Range(T[q]) \/ y = x
  BY <1>6, <1>7 DEF Range
<1>9. \A y \in Range(T[q]) : y < x
  BY <1>0, <1>4 DEF Ordered
<1>10. Ascending(U[q])
  <2> SUFFICES ASSUME NEW i \in 1 .. Len(T[q]) + 1, NEW j \in 1 .. Len(T[q]) + 1, i < j
               PROVE  U[q][i] < U[q][j]
    BY <1>6 DEF Ascending
  <2>1. i \in 1 .. Len(T[q])
    BY <1>6
  <2>2. CASE j \in 1 .. Len(T[q])
    BY <1>1, <1>6, <2>1, <2>2 DEF Ascending
  <2>3. CASE j = Len(T[q]) + 1
    <3>1. T[q][i] \in Range(T[q])
      BY <1>6, <2>1 DEF Range
    <3> QED
      BY <1>6, <1>9, <2>1, <2>3, <3>1
  <2> QED
    BY <1>7, <2>2, <2>3
<1>11. \A p \in Queues : Seen(S, U, p) \subseteq Seen(R, T, p)
  <2>1. ASSUME NEW p \in Queues PROVE Seen(S, U, p) \subseteq Seen(R, T, p)
    <3>1. CASE p = q
      BY <1>4, <1>5, <1>8, <3>1 DEF Seen
    <3>2. CASE p # q
      BY <1>5, <3>2 DEF Seen
    <3> QED
      BY <3>1, <3>2
  <2> QED
    BY <2>1
<1>12. \A p \in Queues : Sorted(S[p]) /\ Ascending(U[p])
  BY <1>4, <1>5, <1>10 DEF Ordered
<1>13. \A p \in Queues : \A y \in Range(U[p]), z \in Inside(S[p]) : y < z
  <2>1. ASSUME NEW p \in Queues, NEW y \in Range(U[p]), NEW z \in Inside(S[p]) PROVE y < z
    <3>1. CASE p = q
      <4>1. z \in Inside(R[q]) /\ x < z
        BY <1>4, <1>5, <3>1
      <4>2. y \in Range(T[q]) \/ y = x
        BY <1>8, <3>1
      <4> QED
        BY <1>0, <4>1, <4>2 DEF Ordered
    <3>2. CASE p # q
      BY <1>5, <3>2 DEF Ordered
    <3> QED
      BY <3>1, <3>2
  <2> QED
    BY <2>1
<1>14. \A p \in GroupQueues : p \in Queues
  BY QueueFacts
<1>15. \A g \in Group : \A k \in 1 .. MaxPartitions : <<g, k>> \in Queues
  BY <1>14 DEF GroupQueues
<1>16. \A g \in Group : \A j, k \in 1 .. MaxPartitions :
          j # k => \A y \in Seen(S, U, <<g, j>>) : y \notin Seen(S, U, <<g, k>>)
  BY <1>11, <1>15 DEF Ordered
<1>17. \A p \in GroupQueues : \A y \in Seen(S, U, p), z \in Inside(S[Staging]) : y < z
  BY <1>0, <1>5, <1>11, <1>14 DEF Ordered
<1> QED
  BY <1>11, <1>12, <1>13, <1>16, <1>17 DEF Ordered

LEMMA OrderNext == BaseInv /\ OrderInv /\ [Next]_vars => OrderInv'
<1> SUFFICES ASSUME BaseInv, OrderInv, [Next]_vars PROVE OrderInv'
  OBVIOUS
<1>0. /\ rings \in [Queues -> Ring(Slot)] /\ taken \in [Queues -> Seq(Slot)]
      /\ GroupsOK(groups) /\ Ordered(rings, taken)
      /\ Produced \in Nat /\ Produced = Len(owed) /\ owed \in Seq(SUBSET Group)
      /\ \A q \in Queues : Seen(rings, taken, q) \subseteq 1 .. Produced
  BY DEF BaseInv, TypeInv, RegistryInv, OrderInv, Produced
<1>1. ASSUME UNCHANGED <<rings, taken, owed>> PROVE OrderInv'
  BY <1>1 DEF OrderInv, Produced
<1>2. ASSUME taken' = taken, Produced < MaxMessages,
             \E i \in 0 .. Len(Writes(Produced + 1)) : rings' = After(Writes(Produced + 1), i),
             \E s \in SUBSET Group : owed' = Append(owed, s)
      PROVE  OrderInv'
  <2>1. Produced + 1 \in Slot
    BY <1>0, <1>2, PushConstants DEF Slot, Message
  <2>2. Produced' = Produced + 1
    BY <1>0, <1>2 DEF Produced
  <2>3. PICK i \in 0 .. Len(Writes(Produced + 1)) : rings' = After(Writes(Produced + 1), i)
    BY <1>2
  <2>4. PICK top \in Nat : top = Produced
    BY <1>0
  <2>5. /\ Ordered(After(Writes(top + 1), i), taken)
        /\ \A q \in Queues : Seen(After(Writes(top + 1), i), taken, q) \subseteq 1 .. top + 1
    BY <1>0, <2>1, <2>3, <2>4, ProduceOrdered
  <2>6. /\ Ordered(rings', taken')
        /\ \A q \in Queues : Seen(rings', taken', q) \subseteq 1 .. Produced + 1
    BY <1>2, <2>3, <2>4, <2>5
  <2> QED
    BY <2>2, <2>6 DEF OrderInv
<1>3. ASSUME NEW p \in Producer, produce_pcm(p) PROVE OrderInv'
  <2>1. /\ taken' = taken /\ Produced < MaxMessages
        /\ rings' = After(Writes(Produced + 1), Len(Writes(Produced + 1)))
        /\ owed' = Append(owed, Range(Ids(groups)))
    BY <1>3 DEF produce_pcm
  <2>2. Produced + 1 \in Slot /\ groups \in Seq(GroupType)
    BY <1>0, <2>1, PushConstants DEF Slot, Message, GroupsOK
  <2>3. Len(Writes(Produced + 1)) \in 0 .. Len(Writes(Produced + 1))
    BY <1>0, <2>2, WritesTyped
  <2>4. Range(Ids(groups)) \in SUBSET Group
    BY <1>0, IdsFacts
  <2>5. \E i \in 0 .. Len(Writes(Produced + 1)) : rings' = After(Writes(Produced + 1), i)
    BY <2>1, <2>3, Zenon
  <2>6. \E s \in SUBSET Group : owed' = Append(owed, s)
    BY <2>1, <2>4, Zenon
  <2> QED
    BY <1>2, <2>1, <2>5, <2>6
<1>4. ASSUME NEW p \in Producer, CrashDuringProduce(p) PROVE OrderInv'
  <2>1. /\ taken' = taken /\ Produced < MaxMessages
        /\ \E i \in 0 .. Len(Writes(Produced + 1)) - 1 : rings' = After(Writes(Produced + 1), i)
        /\ owed' = Append(owed, {})
    BY <1>4 DEF CrashDuringProduce
  <2>2. Produced + 1 \in Slot /\ groups \in Seq(GroupType)
    BY <1>0, <2>1, PushConstants DEF Slot, Message, GroupsOK
  <2>3. PICK i \in 0 .. Len(Writes(Produced + 1)) - 1 : rings' = After(Writes(Produced + 1), i)
    BY <2>1
  <2>4. i \in 0 .. Len(Writes(Produced + 1))
    BY <1>0, <2>2, WritesTyped
  <2>5. \E j \in 0 .. Len(Writes(Produced + 1)) : rings' = After(Writes(Produced + 1), j)
    BY <2>3, <2>4, Zenon
  <2>6. {} \in SUBSET Group
    OBVIOUS
  <2>7. \E s \in SUBSET Group : owed' = Append(owed, s)
    BY <2>1, <2>6, Zenon
  <2> QED
    BY <1>2, <2>1, <2>5, <2>7
<1>5. ASSUME NEW c \in Consumer, Pop(c) PROVE OrderInv'
  <2> DEFINE q == task[c].queue
  <2>1. /\ task[c].state = "popping" /\ ~ is_empty(rings[q])
        /\ rings' = [rings EXCEPT ![q] = pop_front(rings[q])]
        /\ taken' = [taken EXCEPT ![q] = Append(taken[q], front(rings[q]))]
        /\ owed' = owed
    BY <1>5 DEF Pop
  <2>2. q \in GroupQueues
    BY <2>1, NoTaskTyped DEF BaseInv, TypeInv, Active
  <2> HIDE DEF q
  <2>3. live_len(rings[q]) # 0
    BY <1>0, <2>1, <2>2, QueueFacts, RingLength
  <2>4. /\ Ordered(rings', taken')
        /\ \A p \in Queues : Seen(rings', taken', p) \subseteq Seen(rings, taken, p)
    <3>0. PICK S : S = rings'
      OBVIOUS
    <3>1. PICK U : U = taken'
      OBVIOUS
    <3>2. /\ S[q] = pop_front(rings[q]) /\ U[q] = Append(taken[q], front(rings[q]))
          /\ \A p \in Queues : p # q => S[p] = rings[p] /\ U[p] = taken[p]
      BY <1>0, <2>1, <2>2, <3>0, <3>1, QueueFacts
    <3>3. Ordered(S, U) /\ \A p \in Queues : Seen(S, U, p) \subseteq Seen(rings, taken, p)
      BY <1>0, <2>2, <2>3, <3>2, PopOrdered
    <3> QED
      BY <3>0, <3>1, <3>3
  <2>5. Produced' = Produced
    BY <2>1 DEF Produced
  <2> QED
    BY <1>0, <2>4, <2>5 DEF OrderInv
<1>6. ASSUME NEW p \in Producer, register_producer(p) \/ Answer(p) PROVE OrderInv'
  <2>1. UNCHANGED <<rings, taken, owed>>
    BY <1>6 DEF register_producer, Answer, histories
  <2> QED
    BY <1>1, <2>1
<1>7. ASSUME NEW c \in Consumer,
             dial_back_to_consumer(c) \/ ReadReady(c) \/ Write(c) \/ Die(c)
      PROVE  OrderInv'
  <2>1. UNCHANGED <<rings, taken, owed>>
    BY <1>7 DEF dial_back_to_consumer, ReadReady, Write, Die, histories
  <2> QED
    BY <1>1, <2>1
<1>8. ASSUME NEW c, NEW g, register_consumer(c, g) PROVE OrderInv'
  <2>1. UNCHANGED <<rings, taken, owed>>
    BY <1>8 DEF register_consumer, histories
  <2> QED
    BY <1>1, <2>1
<1>9. ASSUME NEW g, RegisterFails(g) PROVE OrderInv'
  <2>1. UNCHANGED <<rings, taken, owed>>
    BY <1>9 DEF RegisterFails, histories
  <2> QED
    BY <1>1, <2>1
<1>10. CASE Crash \/ Restart \/ UNCHANGED vars
  <2>1. UNCHANGED <<rings, taken, owed>>
    BY <1>10 DEF Crash, Restart, vars, histories
  <2> QED
    BY <1>1, <2>1
<1> QED
  BY <1>3, <1>4, <1>5, <1>6, <1>7, <1>8, <1>9, <1>10, Zenon DEF Next, ConsumerStep

(* A group gets a message at most once, and each of its queues gives out    *)
(* messages in the order they were produced in, staged ones included,       *)
(* through full rings, crashes inside produce_pcm and restarts: broker.rs   *)
(* drains the staging queue before it queues the new message.               *)
THEOREM TakenInOrderCorrect == Spec => []TakenInOrder
<1> DEFINE Inv == BaseInv /\ OrderInv
<1>1. Init => Inv
  BY BaseInit, OrderInit
<1>2. Inv /\ [Next]_vars => Inv'
  BY BaseNext, OrderNext
<1>3. Inv => TakenInOrder
  <2> SUFFICES ASSUME OrderInv PROVE TakenInOrder
    OBVIOUS
  <2>1. \A q \in Queues : \A i, j \in DOMAIN taken[q] : i < j => taken[q][i] < taken[q][j]
    BY DEF OrderInv, Ordered, Ascending
  <2>2. \A g \in Group : \A j, k \in 1 .. MaxPartitions :
           j # k => Range(taken[<<g, j>>]) \cap Range(taken[<<g, k>>]) = {}
    BY DEF OrderInv, Ordered, Seen
  <2> QED
    BY <2>1, <2>2 DEF TakenInOrder
<1> HIDE DEF Inv
<1> QED
  BY <1>1, <1>2, <1>3, PTL DEF Spec

-----------------------------------------------------------------------------
(* What is lost.  An append to a full ring loses what the ring holds and    *)
(* what is appended.                                                        *)
Full(w, i) ==
    w[i].op = "push" /\ live_len(After(w, i - 1)[w[i].queue]) = QUEUE_CAPACITY - 1

Fulls(w, n) == {i \in 1 .. n : Full(w, i)}

LostAt(w, i) == Inside(After(w, i - 1)[w[i].queue]) \cup {w[i].message}

Lost(w, n) == UNION {LostAt(w, i) : i \in Fulls(w, n)}

(* A list of writes to queues, and the queues in between. *)
Proper(w, n) ==
    \A i \in 1 .. n : /\ After(w, i - 1) \in [Queues -> Ring(Slot)]
                      /\ \E q \in Queues, x \in Slot : w[i] \in {Push(q, x), Pull(q)}

LEMMA WriteFields ==
    ASSUME NEW q, NEW x
    PROVE  /\ Push(q, x).op = "push" /\ Push(q, x).queue = q /\ Push(q, x).message = x
           /\ Pull(q).op = "pull" /\ Pull(q).queue = q
BY DEF Push, Pull

LEMMA AppendKeeps ==
    ASSUME NEW r \in Ring(Slot), NEW m \in Slot, live_len(r) # QUEUE_CAPACITY - 1
    PROVE  Inside(r) \cup {m} \subseteq Inside(append(r, m))
<1>1. /\ live_len(append(r, m)) = live_len(r) + 1
      /\ \A i \in 1 .. live_len(r) : Item(append(r, m), i) = Item(r, i)
      /\ Item(append(r, m), live_len(r) + 1) = m
  BY RingAppend
<1>2. live_len(r) \in Nat
  BY RingLength, PushConstants
<1> HIDE DEF Item
<1>3. \A i \in 1 .. live_len(r) : i \in 1 .. live_len(append(r, m))
  BY <1>1, <1>2
<1>4. live_len(r) + 1 \in 1 .. live_len(append(r, m))
  BY <1>1, <1>2
<1> QED
  BY <1>1, <1>3, <1>4 DEF Inside

(* A queue that nothing is pulled from keeps what it holds and gets, but    *)
(* for what is lost.                                                        *)
LEMMA WriteKeeps ==
    ASSUME NEW w, NEW n \in Nat, Proper(w, n), NEW q \in Queues, NEW i \in 1 .. n,
           w[i] # Pull(q),
           NEW y, y \in Inside(After(w, i - 1)[q]) \/ w[i] = Push(q, y)
    PROVE  y \in Inside(After(w, i)[q]) \/ y \in Lost(w, n)
<1>1. After(w, i) = Written(After(w, i - 1), w[i])
  BY AfterSteps
<1>2. PICK R \in [Queues -> Ring(Slot)] : R = After(w, i - 1)
  BY DEF Proper
<1>3. PICK p \in Queues, x \in Slot : w[i] = Push(p, x) \/ w[i] = Pull(p)
  BY DEF Proper
<1>4. /\ Written(R, Push(p, x)) = [R EXCEPT ![p] = append(R[p], x)]
      /\ Written(R, Pull(p)) = [R EXCEPT ![p] = pop_front(R[p])]
  BY WriteTyped
<1>5. CASE p # q
  <2>1. w[i] # Push(q, y)
    BY <1>3, <1>5, WriteFields
  <2>2. After(w, i)[q] = R[q]
    BY <1>1, <1>2, <1>3, <1>4, <1>5
  <2> QED
    BY <1>2, <2>1, <2>2
<1>6. CASE p = q
  <2>1. w[i] = Push(q, x)
    BY <1>3, <1>6
  <2>2. y \in Inside(R[q]) \cup {x}
    BY <1>2, <2>1, WriteFields
  <2>3. CASE live_len(R[q]) = QUEUE_CAPACITY - 1
    <3>1. i \in Fulls(w, n)
      BY <1>2, <2>1, <2>3, WriteFields DEF Fulls, Full
    <3>2. y \in LostAt(w, i)
      BY <1>2, <2>1, <2>2, WriteFields DEF LostAt
    <3> QED
      BY <3>1, <3>2 DEF Lost
  <2>4. CASE live_len(R[q]) # QUEUE_CAPACITY - 1
    <3>1. After(w, i)[q] = append(R[q], x)
      BY <1>1, <1>2, <1>4, <1>6, <2>1
    <3>2. y \in Inside(append(R[q], x))
      BY <2>2, <2>4, AppendKeeps
    <3> QED
      BY <3>1, <3>2
  <2> QED
    BY <2>3, <2>4
<1> QED
  BY <1>5, <1>6

LEMMA WritesKeep ==
    ASSUME NEW w, NEW n \in Nat, Proper(w, n), NEW q \in Queues,
           \A i \in 1 .. n : w[i] # Pull(q), NEW k \in 0 .. n, NEW y,
           y \in Inside(rings[q]) \/ \E j \in 1 .. k : w[j] = Push(q, y)
    PROVE  y \in Inside(After(w, k)[q]) \/ y \in Lost(w, n)
<1> DEFINE Due(i) == y \in Inside(rings[q]) \/ \E j \in 1 .. i : w[j] = Push(q, y)
           Safe(i) == y \in Inside(After(w, i)[q]) \/ y \in Lost(w, n)
           B == {i \in 0 .. n : Due(i) /\ ~ Safe(i)}
<1>1. SUFFICES ASSUME B # {} PROVE FALSE
  OBVIOUS
<1>2. B \in SUBSET Nat
  OBVIOUS
<1>3. PICK b \in B : \A j \in B : b <= j
  <2> HIDE DEF B
  <2> QED
    BY <1>1, <1>2, NatMin
<1>4. b \in 0 .. n /\ Due(b) /\ ~ Safe(b)
  OBVIOUS
<1>5. b # 0
  <2> SUFFICES ASSUME b = 0 PROVE FALSE
    OBVIOUS
  <2>1. y \in Inside(rings[q])
    BY <1>4
  <2>2. After(w, 0) = rings
    BY AfterSteps
  <2> QED
    BY <1>4, <2>1, <2>2
<1>6. b \in 1 .. n /\ b - 1 \in 0 .. n /\ ~ (b <= b - 1)
  BY <1>4, <1>5
<1>7. Due(b - 1) => Safe(b - 1)
  BY <1>3, <1>6
<1>8. Due(b - 1) \/ w[b] = Push(q, y)
  <2>1. \A j \in 1 .. b : j \in 1 .. b - 1 \/ j = b
    BY <1>6
  <2> QED
    BY <1>4, <2>1
<1>9. y \in Inside(After(w, b - 1)[q]) \/ w[b] = Push(q, y) \/ y \in Lost(w, n)
  BY <1>7, <1>8
<1> QED
  BY <1>4, <1>6, <1>9, WriteKeeps

(* The writes of produce_pcm are proper, and pull from the staging queue. *)
LEMMA WritesProper ==
    ASSUME rings \in [Queues -> Ring(Slot)], groups \in Seq(GroupType), NEW m \in Slot,
           NEW w, w = Writes(m)
    PROVE  Len(w) \in Nat /\ Proper(w, Len(w))
<1>1. Len(w) \in Nat /\ \A i \in 1 .. Len(w) :
         \E q \in Queues, x \in Slot : w[i] \in {Push(q, x), Pull(q)}
  BY WritesTyped
<1>2. ASSUME NEW i \in 1 .. Len(w) PROVE After(w, i - 1) \in [Queues -> Ring(Slot)]
  <2>1. i - 1 \in 0 .. Len(Writes(m))
    BY <1>1
  <2> QED
    BY <2>1, AfterTyped
<1> QED
  BY <1>1, <1>2 DEF Proper

(* While the staging queue is drained: what is left in it, and how long the *)
(* queue is that gets its messages.                                         *)
Wrapped(x) == IF x < QUEUE_CAPACITY THEN x ELSE x - QUEUE_CAPACITY

Moved(k, w, t) ==
    /\ live_len(After(w, 2 * k)[t]) = Wrapped(live_len(rings[t]) + k)
    /\ live_len(After(w, 2 * k)[Staging]) = Staged - k
    /\ \A j \in 1 .. Staged - k :
          Item(After(w, 2 * k)[Staging], j) = Item(rings[Staging], k + j)

(* The two writes that move a message. *)
Moves(k, w, t) ==
    w[2 * k + 1] = Pull(Staging) /\ w[2 * k + 2] = Push(t, Item(rings[Staging], k + 1))

LEMMA MovedStep ==
    ASSUME rings \in [Queues -> Ring(Slot)], NEW w, NEW n \in Nat, Proper(w, n),
           NEW t \in GroupQueues, NEW k \in 0 .. Staged - 1, 2 * k + 2 <= n,
           Moves(k, w, t), Moved(k, w, t)
    PROVE  /\ Moved(k + 1, w, t)
           /\ After(w, 2 * k + 1)[t] = After(w, 2 * k)[t]
           /\ After(w, 2 * k + 1)[Staging] = After(w, 2 * k + 2)[Staging]
<1>0. Staging \in Queues /\ t \in Queues /\ t # Staging
  BY QueueFacts
<1>1. /\ Staged \in 0 .. QUEUE_CAPACITY - 1
      /\ live_len(rings[t]) \in 0 .. QUEUE_CAPACITY - 1
      /\ Item(rings[Staging], k + 1) \in Slot
  <2>1. rings[Staging] \in Ring(Slot) /\ rings[t] \in Ring(Slot)
    BY <1>0
  <2>2. Staged \in 0 .. QUEUE_CAPACITY - 1 /\ live_len(rings[t]) \in 0 .. QUEUE_CAPACITY - 1
        /\ \A i \in 1 .. Staged : Item(rings[Staging], i) \in Slot
    BY <2>1, RingLength DEF Staged
  <2>3. k + 1 \in 1 .. Staged
    BY <2>2, PushConstants
  <2> QED
    BY <2>2, <2>3
<1> DEFINE s == Staged
<1>2. s \in Nat /\ k \in Nat /\ k + 1 <= s
  BY <1>1, PushConstants
<1> HIDE DEF s
<1>3. PICK a \in 1 .. n : a = 2 * k + 1
  BY <1>2
<1>4. PICK b \in 1 .. n : b = 2 * k + 2
  BY <1>2
<1>5. /\ a - 1 = 2 * k /\ b - 1 = a /\ 2 * (k + 1) = b
  BY <1>2, <1>3, <1>4
<1>6. PICK x \in Slot : x = Item(rings[Staging], k + 1)
  BY <1>1
<1>7. w[a] = Pull(Staging) /\ w[b] = Push(t, x)
  BY <1>3, <1>4, <1>6 DEF Moves
<1>8. PICK R \in [Queues -> Ring(Slot)] : R = After(w, a - 1)
  BY DEF Proper
<1>9. PICK A \in [Queues -> Ring(Slot)] : A = After(w, a)
  BY <1>5 DEF Proper
<1>10. /\ A = Written(R, Pull(Staging))
       /\ After(w, b) = Written(A, Push(t, x))
  BY <1>5, <1>7, <1>8, <1>9, AfterSteps
<1>11. /\ A[Staging] = pop_front(R[Staging]) /\ A[t] = R[t]
       /\ After(w, b)[Staging] = A[Staging] /\ After(w, b)[t] = append(A[t], x)
  <2>1. A = [R EXCEPT ![Staging] = pop_front(R[Staging])]
    BY <1>0, <1>10, WriteTyped
  <2>2. After(w, b) = [A EXCEPT ![t] = append(A[t], x)]
    BY <1>0, <1>10, WriteTyped
  <2> QED
    BY <1>0, <2>1, <2>2
<1>12. /\ live_len(R[t]) = Wrapped(live_len(rings[t]) + k)
       /\ live_len(R[Staging]) = s - k
       /\ \A j \in 1 .. s - k : Item(R[Staging], j) = Item(rings[Staging], k + j)
  BY <1>5, <1>8 DEF Moved, s
<1>13. R[t] \in Ring(Slot) /\ R[Staging] \in Ring(Slot)
  BY <1>0
<1>14. live_len(After(w, b)[t]) = Wrapped(live_len(rings[t]) + (k + 1))
  <2>1. PICK old \in 0 .. QUEUE_CAPACITY - 1 : old = live_len(rings[t])
    BY <1>1
  <2>2. PICK len : len = live_len(R[t])
    OBVIOUS
  <2>3. PICK new : new = live_len(append(R[t], x))
    OBVIOUS
  <2>4. /\ len = QUEUE_CAPACITY - 1 => new = 0
        /\ len # QUEUE_CAPACITY - 1 => new = len + 1
    BY <1>13, <2>2, <2>3, RingAppend
  <2>5. len = IF old + k < QUEUE_CAPACITY THEN old + k ELSE old + k - QUEUE_CAPACITY
    <3>1. len = Wrapped(old + k)
      BY <1>12, <2>1, <2>2, Zenon
    <3> QED
      BY <1>2, <3>1, PushConstants DEF Wrapped
  <2>6. k + 1 <= QUEUE_CAPACITY - 1
    BY <1>1, <1>2, PushConstants DEF s
  <2>7. new = IF old + (k + 1) < QUEUE_CAPACITY THEN old + (k + 1)
              ELSE old + (k + 1) - QUEUE_CAPACITY
    BY <1>2, <2>4, <2>5, <2>6, PushConstants
  <2>8. new = Wrapped(old + (k + 1))
    BY <1>2, <2>7, PushConstants DEF Wrapped
  <2> QED
    BY <1>11, <2>1, <2>3, <2>8, Zenon
<1>15. live_len(R[Staging]) # 0
  BY <1>2, <1>12
<1>16. /\ live_len(pop_front(R[Staging])) = s - k - 1
       /\ \A i \in 1 .. s - k - 1 : Item(pop_front(R[Staging]), i) = Item(R[Staging], i + 1)
  BY <1>12, <1>13, <1>15, RingPop
<1>17. s - k - 1 = s - (k + 1)
  BY <1>2
<1>18. ASSUME NEW i \in 1 .. s - (k + 1)
       PROVE  Item(After(w, b)[Staging], i) = Item(rings[Staging], (k + 1) + i)
  <2>1. i + 1 \in 1 .. s - k /\ k + (i + 1) = (k + 1) + i
    BY <1>2
  <2>2. Item(pop_front(R[Staging]), i) = Item(R[Staging], i + 1)
    BY <1>16, <1>17
  <2>3. Item(R[Staging], i + 1) = Item(rings[Staging], k + (i + 1))
    BY <1>12, <2>1
  <2> QED
    BY <1>11, <2>1, <2>2, <2>3
<1>19. Moved(k + 1, w, t)
  BY <1>5, <1>11, <1>14, <1>16, <1>17, <1>18 DEF Moved, s
<1> QED
  BY <1>3, <1>4, <1>5, <1>8, <1>9, <1>11, <1>19

LEMMA MovedAll ==
    ASSUME rings \in [Queues -> Ring(Slot)], NEW w, NEW n \in Nat, Proper(w, n),
           NEW t \in GroupQueues, 2 * Staged <= n,
           \A k \in 0 .. Staged - 1 : Moves(k, w, t), NEW k \in 0 .. Staged
    PROVE  Moved(k, w, t)
<1> DEFINE s == Staged
           B == {j \in 0 .. s : ~ Moved(j, w, t)}
<1>0. s \in Nat
  BY QueueFacts, RingLength, PushConstants DEF Staged
<1> HIDE DEF s
<1>1. SUFFICES ASSUME B # {} PROVE FALSE
  BY DEF s
<1>2. B \in SUBSET Nat
  BY <1>0
<1>3. PICK b \in B : \A j \in B : b <= j
  <2> HIDE DEF B
  <2> QED
    BY <1>1, <1>2, NatMin
<1>4. b \in 0 .. s /\ ~ Moved(b, w, t)
  OBVIOUS
<1>5. b # 0
  <2>1. Moved(0, w, t)
    <3>1. After(w, 2 * 0) = rings
      BY AfterSteps
    <3>2. PICK len : len = live_len(rings[t])
      OBVIOUS
    <3>3. len \in 0 .. QUEUE_CAPACITY - 1
      BY <3>2, QueueFacts, RingLength
    <3>4. Wrapped(len + 0) = len
      BY <3>3, PushConstants DEF Wrapped
    <3>5. s - 0 = s /\ \A j \in 1 .. s : 0 + j = j
      BY <1>0
    <3> QED
      BY <3>1, <3>2, <3>4, <3>5 DEF Moved, Staged, s
  <2> QED
    BY <1>4, <2>1
<1>6. PICK a \in 0 .. s - 1 : a = b - 1
  BY <1>0, <1>4, <1>5
<1>7. a \in 0 .. s /\ a + 1 = b /\ ~ (b <= a) /\ 2 * a + 2 <= 2 * s
  BY <1>0, <1>4, <1>6
<1>8. Moved(a, w, t)
  BY <1>3, <1>7
<1>9. 2 * a + 2 <= n
  BY <1>0, <1>7 DEF s
<1>10. Moved(a + 1, w, t)
  BY <1>6, <1>8, <1>9, MovedStep DEF s
<1> QED
  BY <1>4, <1>7, <1>10

(* The writes of produce_pcm once more, by their place in the list. *)
ByPlace(w, m, t) ==
    /\ Staged \in 0 .. QUEUE_CAPACITY - 1 /\ Len(groups) \in Nat \ {0}
    /\ Len(w) = 2 * Staged + Len(groups)
    /\ t \in GroupQueues
    /\ \A k \in 0 .. Staged - 1 : Moves(k, w, t)
    /\ \A k \in 1 .. Len(groups) :
          /\ w[2 * Staged + k] = Push(TargetOf(groups[k]), m)
          /\ TargetOf(groups[k]) \in GroupQueues
    /\ \A j, k \in 1 .. Len(groups) : TargetOf(groups[j]) = TargetOf(groups[k]) => j = k
    /\ \A i \in 1 .. Len(w) :
          \/ \E k \in 0 .. Staged - 1 : i = 2 * k + 1 \/ i = 2 * k + 2
          \/ \E k \in 1 .. Len(groups) : i = 2 * Staged + k

LEMMA WritesByPlace ==
    ASSUME rings \in [Queues -> Ring(Slot)], GroupsOK(groups), groups # <<>>, NEW m \in Slot,
           NEW w, w = Writes(m), NEW t, t = TargetOf(groups[1])
    PROVE  ByPlace(w, m, t)
<1> DEFINE s == Staged
           N == Len(groups)
<1>1. groups \in Seq(GroupType) /\ \A i, j \in 1 .. N : groups[i].id = groups[j].id => i = j
  BY DEF GroupsOK
<1>2. /\ s \in Nat /\ N \in Nat \ {0} /\ Len(w) = 2 * s + N
      /\ \A k \in 1 .. s : /\ w[2 * k - 1] = Pull(Staging)
                           /\ w[2 * k] = Push(TargetOf(groups[1]), Item(rings[Staging], k))
      /\ \A k \in 1 .. N : w[2 * s + k] = Push(TargetOf(groups[k]), m)
  BY <1>1, WritesForm
<1>3. s \in 0 .. QUEUE_CAPACITY - 1
  BY QueueFacts, RingLength DEF Staged
<1>4. ASSUME NEW k \in 1 .. N
      PROVE  /\ TargetOf(groups[k]) \in GroupQueues
             /\ TargetOf(groups[k]) = <<groups[k].id, smallest_partition_index(groups[k])>>
  <2>1. groups[k] \in GroupType
    BY <1>1
  <2> QED
    BY <2>1, SmallestFacts
<1>5. ASSUME NEW j \in 1 .. N, NEW k \in 1 .. N, TargetOf(groups[j]) = TargetOf(groups[k])
      PROVE  j = k
  <2>1. groups[j].id = groups[k].id
    BY <1>4, <1>5
  <2> QED
    BY <1>1, <2>1
<1>6. t \in GroupQueues
  BY <1>2, <1>4
<1> HIDE DEF s, N
<1>7. ASSUME NEW k \in 0 .. s - 1 PROVE Moves(k, w, t)
  <2>1. k + 1 \in 1 .. s /\ 2 * (k + 1) - 1 = 2 * k + 1 /\ 2 * (k + 1) = 2 * k + 2
    BY <1>2
  <2>2. w[2 * (k + 1) - 1] = Pull(Staging) /\ w[2 * (k + 1)] = Push(t, Item(rings[Staging], k + 1))
    BY <1>2, <2>1
  <2> QED
    BY <2>1, <2>2 DEF Moves
<1>8. ASSUME NEW i \in 1 .. 2 * s + N
      PROVE  \/ \E k \in 0 .. s - 1 : i = 2 * k + 1 \/ i = 2 * k + 2
             \/ \E k \in 1 .. N : i = 2 * s + k
  <2>1. CASE i > 2 * s
    <3>1. i - 2 * s \in 1 .. N /\ i = 2 * s + (i - 2 * s)
      BY <1>2, <2>1
    <3> QED
      BY <3>1
  <2>2. CASE i <= 2 * s
    <3>1. i \in Nat \ {0}
      BY <1>2
    <3>2. PICK k \in Int : k = (i - 1) \div 2
      BY <3>1
    <3>3. k \in 0 .. s - 1 /\ (i = 2 * k + 1 \/ i = 2 * k + 2)
      BY <1>2, <2>2, <3>1, <3>2
    <3> QED
      BY <3>3
  <2> QED
    BY <1>2, <2>1, <2>2
<1> QED
  BY <1>2, <1>3, <1>4, <1>5, <1>6, <1>7, <1>8 DEF s, N, ByPlace

(* No ring overflows twice in one produce_pcm: the first group's queue gets *)
(* as many messages as a ring has slots, at most, and the others get one.   *)
LEMMA OverflowOnce ==
    ASSUME rings \in [Queues -> Ring(Slot)], GroupsOK(groups), NEW m \in Slot,
           NEW w, w = Writes(m), NEW i \in Fulls(w, Len(w)), NEW j \in Fulls(w, Len(w)),
           w[i].queue = w[j].queue
    PROVE  i = j
<1>1. /\ i \in 1 .. Len(w) /\ j \in 1 .. Len(w) /\ Full(w, i) /\ Full(w, j)
  BY DEF Fulls
<1>2. CASE groups = <<>>
  <2>1. Len(w) = 1
    BY <1>2, WritesStaged
  <2> QED
    BY <1>1, <2>1
<1>3. CASE groups # <<>>
  <2>1. PICK t : t = TargetOf(groups[1])
    OBVIOUS
  <2> DEFINE s == Staged
             N == Len(groups)
             n == Len(w)
  <2>2. /\ s \in 0 .. QUEUE_CAPACITY - 1 /\ N \in Nat \ {0} /\ n = 2 * s + N
        /\ t \in GroupQueues
        /\ \A k \in 0 .. s - 1 : Moves(k, w, t)
        /\ \A k \in 1 .. N : w[2 * s + k] = Push(TargetOf(groups[k]), m)
        /\ \A e, k \in 1 .. N : TargetOf(groups[e]) = TargetOf(groups[k]) => e = k
        /\ \A e \in 1 .. n : \/ \E k \in 0 .. s - 1 : e = 2 * k + 1 \/ e = 2 * k + 2
                             \/ \E k \in 1 .. N : e = 2 * s + k
    <3>1. ByPlace(w, m, t)
      BY <1>3, <2>1, WritesByPlace
    <3> QED
      BY <3>1 DEF ByPlace
  <2>3. n \in Nat /\ Proper(w, n) /\ s \in Nat /\ 2 * s <= n
    BY <2>2, PushConstants, WritesProper DEF GroupsOK
  <2>4. PICK len \in 0 .. QUEUE_CAPACITY - 1 : len = live_len(rings[t])
    BY <2>2, QueueFacts, RingLength
  <2> HIDE DEF s, N, n
  <2>5. \A k \in 0 .. s : Moved(k, w, t)
    BY <2>2, <2>3, MovedAll DEF s
  <2>6. ASSUME NEW e \in 1 .. n, Full(w, e), NEW k \in 0 .. s - 1,
               e = 2 * k + 1 \/ e = 2 * k + 2
        PROVE  e = 2 * k + 2 /\ w[e].queue = t /\ len + k = QUEUE_CAPACITY - 1
    <3>1. w[2 * k + 1] = Pull(Staging) /\ w[2 * k + 2] = Push(t, Item(rings[Staging], k + 1))
      BY <2>2 DEF Moves
    <3>2. e = 2 * k + 2 /\ w[e].queue = t
      <4>1. CASE e = 2 * k + 1
        <5>1. w[e].op = "pull"
          <6>1. Pull(Staging).op = "pull"
            BY WriteFields
          <6> QED
            BY <3>1, <4>1, <6>1, Zenon
        <5> QED
          BY <2>6, <5>1 DEF Full
      <4>2. CASE e = 2 * k + 2
        <5>1. Push(t, Item(rings[Staging], k + 1)).queue = t
          BY WriteFields
        <5> QED
          BY <3>1, <4>2, <5>1, Zenon
      <4> QED
        BY <2>6, <4>1, <4>2
    <3>3. k \in 0 .. s /\ 2 * k + 2 <= n /\ e - 1 = 2 * k + 1
      BY <2>3, <3>2
    <3>4. After(w, 2 * k + 1)[t] = After(w, 2 * k)[t]
      <4>1. Moves(k, w, t) /\ Moved(k, w, t) /\ k \in 0 .. Staged - 1
        BY <2>2, <2>5, <3>3 DEF s
      <4> QED
        BY <2>2, <2>3, <3>3, <4>1, MovedStep
    <3>5. live_len(After(w, 2 * k)[t]) = QUEUE_CAPACITY - 1
      BY <2>6, <3>2, <3>3, <3>4 DEF Full
    <3>6. Wrapped(len + k) = QUEUE_CAPACITY - 1
      <4>1. live_len(After(w, 2 * k)[t]) = Wrapped(live_len(rings[t]) + k)
        BY <2>5, <3>3 DEF Moved
      <4> QED
        BY <2>4, <3>5, <4>1, Zenon
    <3>7. len + k = QUEUE_CAPACITY - 1
      BY <2>2, <2>3, <2>4, <3>6, PushConstants DEF Wrapped
    <3> QED
      BY <3>2, <3>7
  <2>7. ASSUME NEW e \in 1 .. n, Full(w, e), NEW k \in 1 .. N, e = 2 * s + k
        PROVE  /\ w[e].queue = TargetOf(groups[k])
               /\ w[e].queue = t => k = 1 /\ len + s = QUEUE_CAPACITY - 1
    <3>1. w[e] = Push(TargetOf(groups[k]), m)
      BY <2>2, <2>7
    <3>2. w[e].queue = TargetOf(groups[k])
      BY <3>1, WriteFields
    <3>3. ASSUME w[e].queue = t PROVE k = 1 /\ len + s = QUEUE_CAPACITY - 1
      <4>1. 1 \in 1 .. N
        BY <2>2
      <4>2. k = 1
        BY <2>1, <2>2, <3>2, <3>3, <4>1
      <4>3. e - 1 = 2 * s /\ s \in 0 .. s
        BY <2>3, <2>7, <4>2
      <4>4. live_len(After(w, 2 * s)[t]) = QUEUE_CAPACITY - 1
        BY <2>7, <3>3, <4>3 DEF Full
      <4>5. live_len(After(w, 2 * s)[t]) = Wrapped(live_len(rings[t]) + s)
        BY <2>5, <4>3 DEF Moved
      <4>6. Wrapped(len + s) = QUEUE_CAPACITY - 1
        BY <2>4, <4>4, <4>5, Zenon
      <4>7. len + s = QUEUE_CAPACITY - 1
        BY <2>2, <2>3, <2>4, <4>6, PushConstants DEF Wrapped
      <4> QED
        BY <4>2, <4>7
    <3> QED
      BY <3>2, <3>3
  <2>8. i \in 1 .. n /\ j \in 1 .. n
    BY <1>1 DEF n
  <2>9. CASE w[i].queue = t
    <3>1. ASSUME NEW e \in 1 .. n, Full(w, e), w[e].queue = t
          PROVE  IF len + s = QUEUE_CAPACITY - 1 THEN e = 2 * s + 1
                 ELSE e = 2 * (QUEUE_CAPACITY - 1 - len) + 2
      <4>1. CASE \E k \in 0 .. s - 1 : e = 2 * k + 1 \/ e = 2 * k + 2
        <5>1. PICK k \in 0 .. s - 1 : e = 2 * k + 1 \/ e = 2 * k + 2
          BY <4>1
        <5>2. e = 2 * k + 2 /\ len + k = QUEUE_CAPACITY - 1
          BY <2>6, <3>1, <5>1
        <5> QED
          BY <2>3, <2>4, <5>2, PushConstants
      <4>2. CASE \E k \in 1 .. N : e = 2 * s + k
        <5>1. PICK k \in 1 .. N : e = 2 * s + k
          BY <4>2
        <5>2. k = 1 /\ len + s = QUEUE_CAPACITY - 1
          BY <2>7, <3>1, <5>1
        <5> QED
          BY <5>1, <5>2
      <4> QED
        BY <2>2, <4>1, <4>2
    <3> QED
      BY <1>1, <2>8, <2>9, <3>1
  <2>10. CASE w[i].queue # t
    <3>1. ASSUME NEW e \in 1 .. n, Full(w, e), w[e].queue # t
          PROVE  \E k \in 1 .. N : e = 2 * s + k /\ w[e].queue = TargetOf(groups[k])
      BY <2>2, <2>6, <2>7, <3>1
    <3>2. PICK k \in 1 .. N : i = 2 * s + k /\ w[i].queue = TargetOf(groups[k])
      BY <1>1, <2>8, <2>10, <3>1
    <3>3. PICK e \in 1 .. N : j = 2 * s + e /\ w[j].queue = TargetOf(groups[e])
      BY <1>1, <2>8, <2>10, <3>1
    <3> QED
      BY <2>2, <3>2, <3>3
  <2> QED
    BY <2>9, <2>10
<1> QED
  BY <1>2, <1>3

(* The rings that overflow are those of the writes that find one full. *)
LEMMA OverflowingIs ==
    ASSUME rings \in [Queues -> Ring(Slot)], GroupsOK(groups), NEW m \in Slot,
           NEW w, w = Writes(m)
    PROVE  /\ \A i \in Fulls(w, Len(w)) : w[i].queue \in Overflowing(m)
           /\ \A q \in Overflowing(m) : \E i \in Fulls(w, Len(w)) : w[i].queue = q
<1>1. groups \in Seq(GroupType)
  BY DEF GroupsOK
<1>2. DOMAIN w = 1 .. Len(w)
  <2>1. CASE groups = <<>>
    BY <2>1, WritesStaged
  <2>2. CASE groups # <<>>
    BY <1>1, <2>2, WritesForm
  <2> QED
    BY <2>1, <2>2
<1>3. Len(w) \in Nat /\ Proper(w, Len(w))
  BY <1>1, WritesProper
<1>4. ASSUME NEW i \in 1 .. Len(w) PROVE w[i].queue \in Queues
  <2>1. PICK q \in Queues, x \in Slot : w[i] = Push(q, x) \/ w[i] = Pull(q)
    BY <1>3 DEF Proper
  <2>2. Push(q, x).queue = q /\ Pull(q).queue = q
    BY WriteFields
  <2> QED
    BY <2>1, <2>2
<1>5. ASSUME NEW i \in Fulls(w, Len(w)) PROVE w[i].queue \in Overflowing(m)
  <2>1. i \in 1 .. Len(w) /\ w[i].op = "push"
        /\ live_len(After(w, i - 1)[w[i].queue]) = QUEUE_CAPACITY - 1
    BY DEF Fulls, Full
  <2> QED
    BY <1>2, <1>4, <2>1 DEF Overflowing
<1>6. ASSUME NEW q \in Overflowing(m) PROVE \E i \in Fulls(w, Len(w)) : w[i].queue = q
  <2>1. PICK i \in DOMAIN w :
           w[i].op = "push" /\ w[i].queue = q
           /\ live_len(After(w, i - 1)[q]) = QUEUE_CAPACITY - 1
    BY DEF Overflowing
  <2>2. i \in Fulls(w, Len(w))
    BY <1>2, <2>1 DEF Fulls, Full
  <2> QED
    BY <2>1, <2>2
<1> QED
  BY <1>5, <1>6

(* produce_pcm loses at most the slots of the rings that it overflows. *)
LEMMA LostSmall ==
    ASSUME rings \in [Queues -> Ring(Slot)], GroupsOK(groups), NEW m \in Slot,
           NEW w, w = Writes(m)
    PROVE  /\ Cardinality(Overflowing(m)) \in Nat
           /\ IsFiniteSet(Lost(w, Len(w)))
           /\ Cardinality(Lost(w, Len(w))) <= QUEUE_CAPACITY * Cardinality(Overflowing(m))
<1> DEFINE n == Len(w)
           F == Fulls(w, n)
           O == Overflowing(m)
           X == Lost(w, n)
           C == 1 .. QUEUE_CAPACITY
<1>1. n \in Nat /\ Proper(w, n)
  BY WritesProper DEF GroupsOK
<1>2. IsFiniteSet(F)
  <2>1. IsFiniteSet(1 .. n)
    BY <1>1, FS_Interval
  <2>2. F \in SUBSET (1 .. n)
    BY DEF Fulls
  <2> HIDE DEF n, F
  <2> QED
    BY <2>1, <2>2, FS_Subset
<1>3. /\ \A i \in F : w[i].queue \in O
      /\ \A q \in O : \E i \in F : w[i].queue = q
      /\ \A i, j \in F : w[i].queue = w[j].queue => i = j
  BY OverflowingIs, OverflowOnce
<1> HIDE DEF F, O, X, n
<1>4. Cardinality(F) = Cardinality(O) /\ Cardinality(O) \in Nat
  <2> DEFINE f == [i \in F |-> w[i].queue]
  <2>1. f \in [F -> O] /\ \A q \in O : \E i \in F : f[i] = q
    BY <1>3
  <2>2. \A i, j \in F : f[i] = f[j] => i = j
    BY <1>3
  <2> HIDE DEF f
  <2>3. f \in Surjection(F, O)
    BY <2>1 DEF Surjection
  <2>4. f \in Injection(F, O)
    BY <2>1, <2>2 DEF Injection, IsInjective
  <2>5. IsFiniteSet(O) /\ Cardinality(O) = Cardinality(F)
    BY <1>2, <2>3, <2>4, FS_Surjection
  <2> QED
    BY <2>5, FS_CardinalityType
<1>5. IsFiniteSet(C) /\ Cardinality(C) = QUEUE_CAPACITY
  BY PushConstants, FS_Interval
<1>6. IsFiniteSet(F \X C) /\ Cardinality(F \X C) = Cardinality(F) * QUEUE_CAPACITY
  <2> HIDE DEF C
  <2> QED
    BY <1>2, <1>5, FS_Product
<1>7. ASSUME NEW i \in F
      PROVE  /\ LostAt(w, i) \subseteq X
             /\ \A y \in LostAt(w, i) :
                   \/ y = w[i].message
                   \/ \E c \in 1 .. QUEUE_CAPACITY - 1 :
                         y = Item(After(w, i - 1)[w[i].queue], c)
             /\ \A c \in 1 .. QUEUE_CAPACITY - 1 :
                   Item(After(w, i - 1)[w[i].queue], c) \in LostAt(w, i)
             /\ w[i].message \in LostAt(w, i)
  <2>1. live_len(After(w, i - 1)[w[i].queue]) = QUEUE_CAPACITY - 1
    BY DEF F, Fulls, Full
  <2>2. Inside(After(w, i - 1)[w[i].queue]) =
           {Item(After(w, i - 1)[w[i].queue], c) : c \in 1 .. QUEUE_CAPACITY - 1}
    BY <2>1 DEF Inside
  <2>3. LostAt(w, i) \subseteq X
    BY DEF X, Lost, F
  <2> HIDE DEF Item
  <2> QED
    BY <2>2, <2>3 DEF LostAt
<1> DEFINE Spot(i, c) == IF c = QUEUE_CAPACITY THEN w[i].message
                           ELSE Item(After(w, i - 1)[w[i].queue], c)
           h == [e \in F \X C |-> Spot(e[1], e[2])]
<1>8. ASSUME NEW i \in F, NEW c \in C PROVE Spot(i, c) \in X
  <2>1. c = QUEUE_CAPACITY \/ c \in 1 .. QUEUE_CAPACITY - 1
    BY PushConstants
  <2> QED
    BY <1>7, <2>1
<1>9. ASSUME NEW y \in X PROVE \E i \in F, c \in C : Spot(i, c) = y
  <2>1. PICK i \in F : y \in LostAt(w, i)
    BY DEF X, Lost, F
  <2>2. CASE y = w[i].message
    <3>1. QUEUE_CAPACITY \in C /\ Spot(i, QUEUE_CAPACITY) = y
      BY <2>2, PushConstants
    <3> QED
      BY <3>1
  <2>3. CASE \E c \in 1 .. QUEUE_CAPACITY - 1 : y = Item(After(w, i - 1)[w[i].queue], c)
    <3>1. PICK c \in 1 .. QUEUE_CAPACITY - 1 : y = Item(After(w, i - 1)[w[i].queue], c)
      BY <2>3
    <3>2. c \in C /\ c # QUEUE_CAPACITY
      BY PushConstants
    <3>3. Spot(i, c) = y
      BY <3>1, <3>2
    <3> QED
      BY <3>2, <3>3
  <2> QED
    BY <1>7, <2>1, <2>2, <2>3
<1> HIDE DEF Spot, C
<1>10. h \in Surjection(F \X C, X)
  <2>1. h \in [F \X C -> X]
    BY <1>8
  <2>2. ASSUME NEW y \in X PROVE \E e \in F \X C : h[e] = y
    <3>1. PICK i \in F, c \in C : Spot(i, c) = y
      BY <1>9
    <3>2. <<i, c>> \in F \X C /\ h[<<i, c>>] = y
      BY <3>1
    <3> QED
      BY <3>2
  <2> HIDE DEF h
  <2> QED
    BY <2>1, <2>2 DEF Surjection
<1>11. IsFiniteSet(X) /\ Cardinality(X) <= Cardinality(F \X C)
  <2> HIDE DEF h
  <2> QED
    BY <1>6, <1>10, FS_Surjection
<1>12. Cardinality(F \X C) = QUEUE_CAPACITY * Cardinality(O)
  BY <1>4, <1>6, PushConstants
<1> QED
  BY <1>4, <1>11, <1>12 DEF X, O, n

(* Only the staging queue is pulled from. *)
LEMMA OnlyStagingPulled ==
    ASSUME NEW w, NEW m, NEW t, ByPlace(w, m, t), NEW q \in GroupQueues,
           NEW e \in 1 .. Len(w)
    PROVE  w[e] # Pull(q)
<1> DEFINE s == Staged
           N == Len(groups)
<1>1. /\ \A j \in 0 .. s - 1 : Moves(j, w, t)
      /\ \A j \in 1 .. N : w[2 * s + j] = Push(TargetOf(groups[j]), m)
      /\ \/ \E j \in 0 .. s - 1 : e = 2 * j + 1 \/ e = 2 * j + 2
         \/ \E j \in 1 .. N : e = 2 * s + j
  BY DEF ByPlace
<1>2. \A p, x : Push(p, x) # Pull(q)
  <2>1. \A p, x : Push(p, x).op = "push" /\ Pull(q).op = "pull"
    BY WriteFields
  <2>2. "push" # "pull"
    OBVIOUS
  <2> QED
    BY <2>1, <2>2
<1>3. Pull(Staging) # Pull(q)
  BY QueueFacts DEF Pull
<1> HIDE DEF s, N
<1>4. ASSUME NEW j \in 0 .. s - 1 PROVE w[2 * j + 1] # Pull(q) /\ w[2 * j + 2] # Pull(q)
  <2>1. w[2 * j + 1] = Pull(Staging) /\ w[2 * j + 2] = Push(t, Item(rings[Staging], j + 1))
    BY <1>1 DEF Moves
  <2> QED
    BY <1>2, <1>3, <2>1, Zenon
<1>5. \A j \in 1 .. N : w[2 * s + j] # Pull(q)
  BY <1>1, <1>2
<1> QED
  BY <1>1, <1>4, <1>5

(* A staged message stays, is lost with a ring, is in a queue of the first  *)
(* group, or is on its way: pulled by the i-th write and not pushed yet.    *)
LEMMA StagedKept ==
    ASSUME rings \in [Queues -> Ring(Slot)], GroupsOK(groups), groups # <<>>, NEW m \in Slot,
           NEW w, w = Writes(m), NEW t, t = TargetOf(groups[1]),
           NEW i \in 0 .. Len(w), NEW k \in 1 .. Staged,
           NEW y, y = Item(rings[Staging], k)
    PROVE  \/ y \in Inside(After(w, i)[Staging])
           \/ y \in Inside(After(w, i)[t])
           \/ y \in Lost(w, Len(w))
           \/ i = 2 * k - 1 /\ i # Len(w)
<1> DEFINE s == Staged
           n == Len(w)
<1>1. ByPlace(w, m, t)
  BY WritesByPlace
<1>2. /\ s \in Nat /\ n = 2 * s + Len(groups) /\ Len(groups) \in Nat \ {0}
      /\ t \in GroupQueues /\ t \in Queues
      /\ \A j \in 0 .. s - 1 : Moves(j, w, t)
  <2>1. Staged \in Nat
    BY <1>1, PushConstants DEF ByPlace
  <2> QED
    BY <1>1, <2>1, QueueFacts DEF ByPlace
<1>3. n \in Nat /\ Proper(w, n)
  BY WritesProper DEF GroupsOK
<1>4. \A e \in 1 .. n : w[e] # Pull(t)
  BY <1>1, <1>2, OnlyStagingPulled
<1> HIDE DEF s, n
<1>5. PICK a \in 0 .. s - 1 : a + 1 = k /\ 2 * a + 2 = 2 * k /\ a = k - 1
  <2>1. k - 1 \in 0 .. s - 1 /\ (k - 1) + 1 = k /\ 2 * (k - 1) + 2 = 2 * k
    BY <1>2 DEF s
  <2> QED
    BY <2>1
<1>6. CASE 2 * k <= i
  <2>1. PICK b \in 1 .. i : b = 2 * a + 2
    BY <1>2, <1>3, <1>5, <1>6
  <2>2. w[b] = Push(t, y)
    <3>1. w[2 * a + 2] = Push(t, Item(rings[Staging], a + 1))
      BY <1>2 DEF Moves
    <3> QED
      BY <1>5, <2>1, <3>1, Zenon
  <2> QED
    BY <1>2, <1>3, <1>4, <2>2, WritesKeep DEF n
<1>7. CASE i = 2 * k - 1
  <2>1. i # n
    BY <1>2, <1>5, <1>7
  <2> QED
    BY <1>7, <2>1 DEF n
<1>8. CASE i < 2 * k - 1
  <2>1. PICK b \in 0 .. s - 1 : b <= a /\ After(w, i)[Staging] = After(w, 2 * b)[Staging]
    <3>1. i \in Nat
      BY <1>3 DEF n
    <3>2. PICK c \in Nat : i = 2 * c \/ i = 2 * c + 1
      <4>1. i \div 2 \in Nat /\ (i = 2 * (i \div 2) \/ i = 2 * (i \div 2) + 1)
        BY <3>1
      <4> QED
        BY <4>1
    <3>3. CASE i = 2 * c
      <4>1. c \in 0 .. s - 1 /\ c <= a
        BY <1>2, <1>5, <1>8, <3>3
      <4> QED
        BY <3>3, <4>1
    <3>4. CASE i = 2 * c + 1
      <4>1. c + 1 \in 0 .. s - 1 /\ c + 1 <= a /\ c \in 0 .. s - 1
            /\ c \in 0 .. s /\ 2 * s <= n /\ 2 * c + 2 <= n /\ 2 * (c + 1) = 2 * c + 2
        BY <1>2, <1>5, <1>8, <3>4
      <4>2. Moved(c, w, t)
        BY <1>2, <1>3, <4>1, MovedAll DEF s
      <4>3. After(w, 2 * c + 1)[Staging] = After(w, 2 * c + 2)[Staging]
        <5>1. Moves(c, w, t) /\ c \in 0 .. Staged - 1
          BY <1>2, <4>1 DEF s
        <5> QED
          BY <1>2, <1>3, <4>1, <4>2, <5>1, MovedStep
      <4>4. After(w, i)[Staging] = After(w, 2 * (c + 1))[Staging]
        BY <3>4, <4>1, <4>3
      <4> QED
        BY <4>1, <4>4
    <3> QED
      BY <3>2, <3>3, <3>4
  <2>2. Moved(b, w, t)
    <3>1. b \in 0 .. s /\ 2 * s <= n
      BY <1>2
    <3> QED
      BY <1>2, <1>3, <3>1, MovedAll DEF s
  <2>3. PICK j \in 1 .. s - b : b + j = k
    <3>1. k - b \in 1 .. s - b /\ b + (k - b) = k
      BY <1>2, <1>5, <2>1
    <3> QED
      BY <3>1
  <2>4. /\ live_len(After(w, i)[Staging]) = s - b
        /\ Item(After(w, i)[Staging], j) = Item(rings[Staging], k)
    <3>1. Item(After(w, 2 * b)[Staging], j) = Item(rings[Staging], b + j)
          /\ live_len(After(w, 2 * b)[Staging]) = s - b
      BY <2>2 DEF Moved, s
    <3> QED
      BY <2>1, <2>3, <3>1
  <2>5. y \in Inside(After(w, i)[Staging])
    <3> HIDE DEF Item
    <3> QED
      BY <2>3, <2>4 DEF Inside
  <2> QED
    BY <2>5
<1> QED
  BY <1>3, <1>5, <1>6, <1>7, <1>8 DEF n

(* What is left of the queues after some of the writes of produce_pcm: all  *)
(* but what is lost, and one staged message if it stops before the end.     *)
StagingKept(w, i, x) ==
    \A y \in Inside(rings[Staging]) :
        \/ y \in Inside(After(w, i)[Staging])
        \/ \E q \in GroupQueues : y \in Inside(After(w, i)[q])
        \/ y \in Lost(w, Len(w))
        \/ y = x /\ i # Len(w)

LEMMA ProduceKeeps ==
    ASSUME rings \in [Queues -> Ring(Slot)], GroupsOK(groups), NEW m \in Slot,
           NEW w, w = Writes(m), NEW i \in 0 .. Len(w)
    PROVE  /\ \A q \in GroupQueues : \A y \in Inside(rings[q]) :
                 y \in Inside(After(w, i)[q]) \/ y \in Lost(w, Len(w))
           /\ \E x : StagingKept(w, i, x)
<1> DEFINE n == Len(w)
<1>1. n \in Nat /\ Proper(w, n)
  BY WritesProper DEF GroupsOK
<1>2. \A q, p, x : Push(q, x) # Pull(p)
  <2>1. \A q, p, x : Push(q, x).op = "push" /\ Pull(p).op = "pull"
    BY WriteFields
  <2>2. "push" # "pull"
    OBVIOUS
  <2> QED
    BY <2>1, <2>2
<1>3. ASSUME NEW q \in Queues, \A e \in 1 .. n : w[e] # Pull(q), NEW y \in Inside(rings[q])
      PROVE  y \in Inside(After(w, i)[q]) \/ y \in Lost(w, n)
  BY <1>1, <1>3, WritesKeep
<1>4. CASE groups = <<>>
  <2>1. n = 1 /\ w[1] = Push(Staging, m)
    BY <1>4, WritesStaged
  <2>2. \A q \in Queues : \A e \in 1 .. n : w[e] # Pull(q)
    <3> HIDE DEF n
    <3>1. \A e \in 1 .. n : e = 1
      BY <2>1
    <3> QED
      BY <1>2, <2>1, <3>1
  <2>3. \A q \in Queues : \A y \in Inside(rings[q]) :
           y \in Inside(After(w, i)[q]) \/ y \in Lost(w, n)
    BY <1>3, <2>2
  <2>4. \A q \in GroupQueues : q \in Queues
    BY QueueFacts
  <2>5. Staging \in Queues
    BY QueueFacts
  <2>6. StagingKept(w, i, 0)
    BY <2>3, <2>5 DEF StagingKept
  <2> QED
    BY <2>3, <2>4, <2>6
<1>5. CASE groups # <<>>
  <2>1. PICK t : t = TargetOf(groups[1])
    OBVIOUS
  <2>2. ByPlace(w, m, t)
    BY <1>5, <2>1, WritesByPlace
  <2> DEFINE s == Staged
  <2>3. s \in Nat /\ t \in GroupQueues
    BY <2>2, PushConstants DEF ByPlace
  <2>4. ASSUME NEW q \in GroupQueues, NEW y \in Inside(rings[q])
        PROVE  y \in Inside(After(w, i)[q]) \/ y \in Lost(w, n)
    BY <1>3, <2>2, OnlyStagingPulled, QueueFacts
  <2>5. ASSUME NEW y \in Inside(rings[Staging])
        PROVE  \/ y \in Inside(After(w, i)[Staging])
               \/ \E q \in GroupQueues : y \in Inside(After(w, i)[q])
               \/ y \in Lost(w, n)
               \/ y = Item(rings[Staging], (i + 1) \div 2) /\ i # n
    <3>1. PICK k \in 1 .. s : y = Item(rings[Staging], k)
      BY DEF Inside, Staged
    <3>2. \/ y \in Inside(After(w, i)[Staging])
          \/ y \in Inside(After(w, i)[t])
          \/ y \in Lost(w, n)
          \/ i = 2 * k - 1 /\ i # n
      BY <1>5, <2>1, <3>1, StagedKept
    <3>3. ASSUME i = 2 * k - 1 PROVE (i + 1) \div 2 = k
      BY <2>3, <3>3
    <3> HIDE DEF s, n
    <3> QED
      BY <2>3, <3>1, <3>2, <3>3
  <2>6. StagingKept(w, i, Item(rings[Staging], (i + 1) \div 2))
    BY <2>5 DEF StagingKept
  <2> QED
    BY <2>4, <2>6
<1> QED
  BY <1>4, <1>5

(* At the end the new message is staged, or in a queue of each group. *)
LEMMA ProduceQueues ==
    ASSUME rings \in [Queues -> Ring(Slot)], GroupsOK(groups), NEW m \in Slot,
           NEW w, w = Writes(m)
    PROVE  /\ groups = <<>> => m \in Inside(After(w, Len(w))[Staging]) \cup Lost(w, Len(w))
           /\ \A k \in 1 .. Len(groups) :
                 /\ TargetOf(groups[k]) \in GroupQueues
                 /\ TargetOf(groups[k]) = <<groups[k].id, smallest_partition_index(groups[k])>>
                 /\ m \in Inside(After(w, Len(w))[TargetOf(groups[k])]) \cup Lost(w, Len(w))
<1> DEFINE n == Len(w)
<1>1. n \in Nat /\ Proper(w, n) /\ groups \in Seq(GroupType)
  BY WritesProper DEF GroupsOK
<1>2. ASSUME NEW q \in Queues, NEW i \in 1 .. n, w[i] = Push(q, m)
      PROVE  m \in Inside(After(w, i)[q]) \cup Lost(w, n)
  <2>1. w[i] # Pull(q)
    <3>1. Push(q, m).op = "push" /\ Pull(q).op = "pull"
      BY WriteFields
    <3> QED
      BY <1>2, <3>1
  <2> HIDE DEF n
  <2> QED
    BY <1>1, <1>2, <2>1, WriteKeeps
<1>3. CASE groups = <<>>
  <2>1. n = 1 /\ w[1] = Push(Staging, m)
    BY <1>3, WritesStaged
  <2>2. 1 \in 1 .. n /\ Staging \in Queues
    BY <2>1, QueueFacts
  <2>3. m \in Inside(After(w, 1)[Staging]) \cup Lost(w, n)
    BY <1>2, <2>1, <2>2
  <2>4. Len(groups) = 0
    BY <1>3
  <2> QED
    BY <2>1, <2>3, <2>4
<1>4. CASE groups # <<>>
  <2>1. PICK t : t = TargetOf(groups[1])
    OBVIOUS
  <2>2. ByPlace(w, m, t)
    BY <1>4, <2>1, WritesByPlace
  <2> DEFINE s == Staged
             N == Len(groups)
  <2>3. /\ s \in Nat /\ N \in Nat \ {0} /\ n = 2 * s + N
        /\ \A k \in 1 .. N : /\ w[2 * s + k] = Push(TargetOf(groups[k]), m)
                             /\ TargetOf(groups[k]) \in GroupQueues
    <3>1. Staged \in Nat
      BY <2>2, PushConstants DEF ByPlace
    <3> QED
      BY <2>2, <3>1 DEF ByPlace
  <2>4. ASSUME NEW k \in 1 .. N
        PROVE  TargetOf(groups[k]) = <<groups[k].id, smallest_partition_index(groups[k])>>
    <3>1. groups[k] \in GroupType
      BY <1>1
    <3> QED
      BY <3>1, SmallestFacts
  <2> HIDE DEF s, N, n
  <2>5. ASSUME NEW k \in 1 .. N
        PROVE  m \in Inside(After(w, n)[TargetOf(groups[k])]) \cup Lost(w, n)
    <3>1. PICK q \in Queues : q = TargetOf(groups[k])
      BY <2>3, QueueFacts
    <3>2. PICK e \in 1 .. n : e = 2 * s + k
      BY <2>3
    <3>3. w[e] = Push(q, m)
      BY <2>3, <3>1, <3>2
    <3>4. \A j \in 1 .. n : w[j] # Pull(q)
      BY <2>2, <2>3, <3>1, OnlyStagingPulled DEF n
    <3>5. n \in 0 .. n
      BY <1>1
    <3> QED
      BY <1>1, <3>1, <3>3, <3>4, <3>5, WritesKeep
  <2>6. groups # <<>>
    BY <1>4
  <2> QED
    BY <2>3, <2>4, <2>5, <2>6 DEF N, n
<1> QED
  BY <1>3, <1>4

(* Where AnsweredIsQueued looks for a message that was owed to the groups   *)
(* gs, and the messages it does not find, those included whose answer is    *)
(* still to come.                                                           *)
Absent(m, R, T, gs) ==
    IF gs # {}
    THEN \E g \in gs : \A k \in 1 .. MaxPartitions : m \notin Seen(R, T, <<g, k>>)
    ELSE /\ m \notin Inside(R[Staging])
         /\ \A q \in GroupQueues : m \notin Seen(R, T, q)

Told ==
    acked \cup {m \in 1 .. Produced :
                   \E p \in Producer : producer[p].state = "answering" /\ producer[p].message = m}

Counted == {m \in Told : Absent(m, rings, taken, owed[m])}

LossInv ==
    /\ interrupted \in Nat /\ overflows \in Nat
    /\ Cardinality(Counted) <= interrupted + QUEUE_CAPACITY * overflows

LEMMA CountedFinite ==
    ASSUME TypeInv
    PROVE  IsFiniteSet(Counted) /\ Cardinality(Counted) \in Nat /\ Told \subseteq 1 .. Produced
<1>1. Produced \in Nat /\ Told \subseteq 1 .. Produced
  <2>1. owed \in Seq(SUBSET Group) /\ acked \subseteq 1 .. Produced
    BY DEF TypeInv
  <2>2. Produced \in Nat
    BY <2>1 DEF Produced
  <2> QED
    BY <2>1, <2>2 DEF Told
<1>2. IsFiniteSet(1 .. Produced)
  BY <1>1, FS_Interval
<1>3. Counted \in SUBSET (1 .. Produced)
  BY <1>1 DEF Counted
<1>4. IsFiniteSet(Counted)
  BY <1>2, <1>3, FS_Subset
<1> QED
  BY <1>1, <1>4, FS_CardinalityType

(* A message that is missing after a step and was not before has left a     *)
(* queue without being taken, moved or lost.                                *)
LEMMA AbsentBefore ==
    ASSUME NEW m, NEW gs \in SUBSET Group, NEW R, NEW T, NEW S, NEW U, Absent(m, S, U, gs),
           \A q \in GroupQueues : m \in Seen(R, T, q) => m \in Seen(S, U, q),
           m \in Inside(R[Staging]) =>
              m \in Inside(S[Staging]) \/ \E q \in GroupQueues : m \in Seen(S, U, q)
    PROVE  Absent(m, R, T, gs)
<1>1. CASE gs # {}
  <2>1. PICK g \in gs : \A k \in 1 .. MaxPartitions : m \notin Seen(S, U, <<g, k>>)
    BY <1>1 DEF Absent
  <2>2. \A k \in 1 .. MaxPartitions : <<g, k>> \in GroupQueues
    BY DEF GroupQueues
  <2>3. \A k \in 1 .. MaxPartitions : m \notin Seen(R, T, <<g, k>>)
    BY <2>1, <2>2
  <2> QED
    BY <1>1, <2>3 DEF Absent
<1>2. CASE gs = {}
  BY <1>2 DEF Absent
<1> QED
  BY <1>1, <1>2

(* What a step adds to the missing messages is paid for. *)
LEMMA LossPaid ==
    ASSUME TypeInv, TypeInv', LossInv, NEW X, IsFiniteSet(X), NEW d \in Nat, NEW e \in Nat,
           interrupted' = interrupted + d, overflows' = overflows + e,
           Cardinality(X) <= d + QUEUE_CAPACITY * e,
           Counted' \subseteq Counted \cup X
    PROVE  LossInv'
<1>1. /\ IsFiniteSet(Counted) /\ Cardinality(Counted) \in Nat
      /\ IsFiniteSet(Counted') /\ Cardinality(Counted') \in Nat
  <2>1. IsFiniteSet(Counted) /\ Cardinality(Counted) \in Nat
    BY CountedFinite
  <2>2. (TypeInv => IsFiniteSet(Counted) /\ Cardinality(Counted) \in Nat)'
    BY CountedFinite, PTL
  <2> QED
    BY <2>1, <2>2
<1>2. PICK A : A = Counted
  OBVIOUS
<1>3. PICK B : B = Counted'
  OBVIOUS
<1>4. IsFiniteSet(A \cup X) /\ Cardinality(A \cup X) <= Cardinality(A) + Cardinality(X)
      /\ Cardinality(A \cup X) \in Nat /\ Cardinality(X) \in Nat
  <2>1. IsFiniteSet(A) /\ IsFiniteSet(A \cap X)
    <3>1. IsFiniteSet(A) /\ A \cap X \in SUBSET A
      BY <1>1, <1>2
    <3> QED
      BY <3>1, FS_Subset
  <2>2. IsFiniteSet(A \cup X)
        /\ Cardinality(A \cup X) = Cardinality(A) + Cardinality(X) - Cardinality(A \cap X)
    BY <2>1, FS_Union
  <2>3. /\ Cardinality(A) \in Nat /\ Cardinality(X) \in Nat
        /\ Cardinality(A \cap X) \in Nat /\ Cardinality(A \cup X) \in Nat
    BY <2>1, <2>2, FS_CardinalityType
  <2> QED
    BY <2>2, <2>3
<1>5. Cardinality(B) <= Cardinality(A \cup X) /\ Cardinality(B) \in Nat
  <2>1. B \in SUBSET (A \cup X)
    BY <1>2, <1>3
  <2> QED
    BY <1>1, <1>3, <1>4, <2>1, FS_Subset
<1>6. interrupted \in Nat /\ overflows \in Nat
      /\ Cardinality(A) <= interrupted + QUEUE_CAPACITY * overflows /\ Cardinality(A) \in Nat
  BY <1>1, <1>2 DEF LossInv
<1>7. PICK x \in Nat : x = QUEUE_CAPACITY * overflows
  BY <1>6, PushConstants
<1>8. PICK y \in Nat : y = QUEUE_CAPACITY * e
  BY PushConstants
<1>9. QUEUE_CAPACITY * (overflows + e) = x + y
  BY <1>6, <1>7, <1>8, PushConstants
<1>10. Cardinality(B) <= (interrupted + d) + (x + y)
  BY <1>4, <1>5, <1>6, <1>7, <1>8
<1>11. Cardinality(B) <= interrupted' + QUEUE_CAPACITY * overflows'
  BY <1>9, <1>10
<1>12. interrupted' \in Nat /\ overflows' \in Nat
  BY <1>6
<1> QED
  BY <1>3, <1>11, <1>12 DEF LossInv

(* A pop moves the first message from the queue to what was taken. *)
LEMMA PopKeeps ==
    ASSUME NEW r \in Ring(Slot), live_len(r) # 0, NEW s \in Seq(Slot)
    PROVE  Inside(r) \cup Range(s) \subseteq
              Inside(pop_front(r)) \cup Range(Append(s, front(r)))
<1>1. /\ front(r) = Item(r, 1)
      /\ live_len(pop_front(r)) = live_len(r) - 1
      /\ \A i \in 1 .. live_len(r) - 1 : Item(pop_front(r), i) = Item(r, i + 1)
  BY RingPop
<1>2. live_len(r) \in Nat /\ front(r) \in Slot
  BY RingLength, RingPop, PushConstants
<1>3. Range(s) \cup {front(r)} \subseteq Range(Append(s, front(r)))
  <2>1. PICK x \in Slot : x = front(r)
    BY <1>2
  <2>2. PICK u : u = Append(s, x)
    OBVIOUS
  <2>3. /\ DOMAIN s = 1 .. Len(s) /\ DOMAIN u = 1 .. Len(s) + 1 /\ Len(s) \in Nat
        /\ \A i \in 1 .. Len(s) : u[i] = s[i]
        /\ u[Len(s) + 1] = x
    BY <2>2
  <2>4. Len(s) + 1 \in 1 .. Len(s) + 1 /\ \A i \in 1 .. Len(s) : i \in 1 .. Len(s) + 1
    BY <2>3
  <2> QED
    BY <2>1, <2>2, <2>3, <2>4 DEF Range
<1>4. ASSUME NEW i \in 1 .. live_len(r)
      PROVE  Item(r, i) = front(r) \/ Item(r, i) \in Inside(pop_front(r))
  <2>1. CASE i = 1
    BY <1>1, <2>1
  <2>2. CASE i # 1
    <3>1. PICK j \in 1 .. live_len(r) - 1 : i = j + 1
      <4>1. i - 1 \in 1 .. live_len(r) - 1 /\ i = (i - 1) + 1
        BY <1>2, <2>2
      <4> QED
        BY <4>1
    <3>2. Item(r, i) = Item(pop_front(r), j)
      BY <1>1, <3>1
    <3> HIDE DEF Item
    <3> QED
      BY <1>1, <3>2 DEF Inside
  <2> QED
    BY <2>1, <2>2
<1> HIDE DEF Item
<1> QED
  BY <1>3, <1>4 DEF Inside

(* Steps that leave the queues alone. *)
LEMMA LossQuiet ==
    ASSUME TypeInv, TypeInv', LossInv, UNCHANGED <<rings, taken, owed, overflows, interrupted>>,
           Told' \subseteq Told
    PROVE  LossInv'
<1>1. Counted' \subseteq Counted \cup {}
  BY DEF Counted
<1>2. interrupted \in Nat /\ overflows \in Nat
  BY DEF LossInv
<1>3. interrupted' = interrupted + 0 /\ overflows' = overflows + 0
  BY <1>2
<1>4. 0 <= 0 + QUEUE_CAPACITY * 0
  BY PushConstants
<1> QED
  BY <1>1, <1>3, <1>4, LossPaid, FS_EmptySet

LEMMA LossPop ==
    ASSUME TypeInv, TypeInv', LossInv, NEW c \in Consumer, Pop(c)
    PROVE  LossInv'
<1> DEFINE q == task[c].queue
<1>1. /\ task[c].state = "popping" /\ ~ is_empty(rings[q])
      /\ rings' = [rings EXCEPT ![q] = pop_front(rings[q])]
      /\ taken' = [taken EXCEPT ![q] = Append(taken[q], front(rings[q]))]
      /\ UNCHANGED <<producer, owed, acked, overflows, interrupted>>
  BY DEF Pop
<1>2. q \in GroupQueues
  BY <1>1, NoTaskTyped DEF TypeInv, Active
<1>3. rings \in [Queues -> Ring(Slot)] /\ taken \in [Queues -> Seq(Slot)]
      /\ owed \in Seq(SUBSET Group) /\ Produced = Len(owed)
  BY DEF TypeInv, Produced
<1> HIDE DEF q
<1>4. q \in Queues /\ q # Staging /\ Staging \in Queues
  BY <1>2, QueueFacts
<1>5. live_len(rings[q]) # 0
  BY <1>1, <1>3, <1>4, RingLength
<1>6. PICK S : S = rings'
  OBVIOUS
<1>7. PICK U : U = taken'
  OBVIOUS
<1>8. /\ S[q] = pop_front(rings[q]) /\ U[q] = Append(taken[q], front(rings[q]))
      /\ \A p \in Queues : p # q => S[p] = rings[p] /\ U[p] = taken[p]
  BY <1>1, <1>3, <1>4, <1>6, <1>7
<1>9. rings[q] \in Ring(Slot) /\ taken[q] \in Seq(Slot)
  BY <1>3, <1>4
<1>10. Seen(rings, taken, q) \subseteq Seen(S, U, q)
  BY <1>5, <1>8, <1>9, PopKeeps DEF Seen
<1>11. \A p \in GroupQueues : Seen(rings, taken, p) \subseteq Seen(S, U, p)
  <2>1. \A p \in GroupQueues : p \in Queues
    BY QueueFacts
  <2> QED
    BY <1>8, <1>10, <2>1 DEF Seen
<1>12. Told' = Told
  BY <1>1 DEF Told, Produced
<1>13. ASSUME NEW m \in Counted' PROVE m \in Counted
  <2>1. m \in Told /\ Absent(m, S, U, owed[m])
    BY <1>1, <1>6, <1>7, <1>12 DEF Counted
  <2>2. owed[m] \in SUBSET Group
    BY <1>3, <2>1, CountedFinite
  <2>3. PICK gs \in SUBSET Group : gs = owed[m]
    BY <2>2
  <2>4. m \in Inside(rings[Staging]) => m \in Inside(S[Staging])
    BY <1>4, <1>8
  <2>5. Absent(m, rings, taken, gs)
    BY <1>11, <2>1, <2>3, <2>4, AbsentBefore
  <2> QED
    BY <2>1, <2>3, <2>5 DEF Counted
<1>14. Counted' \subseteq Counted \cup {}
  BY <1>13
<1>15. interrupted \in Nat /\ overflows \in Nat
  BY DEF LossInv
<1>16. interrupted' = interrupted + 0 /\ overflows' = overflows + 0
  BY <1>1, <1>15
<1>17. 0 <= 0 + QUEUE_CAPACITY * 0
  BY PushConstants
<1> QED
  BY <1>14, <1>16, <1>17, LossPaid, FS_EmptySet

(* produce_pcm, complete or stopped by a crash: what goes missing is lost   *)
(* with a ring, or is the staged message on its way.                        *)
MissesOnly(w, i, x) ==
    \A m \in Told :
        \/ m \in Counted
        \/ ~ Absent(m, rings', taken', owed'[m])
        \/ m \in Lost(w, Len(w))
        \/ m = x /\ i # Len(w)

LEMMA ProduceMissing ==
    ASSUME TypeInv, GroupsOK(groups), Produced < MaxMessages,
           NEW w, w = Writes(Produced + 1), NEW i \in 0 .. Len(w), rings' = After(w, i),
           NEW gs \in SUBSET Group, owed' = Append(owed, gs), taken' = taken
    PROVE  \E x : MissesOnly(w, i, x)
<1>1. rings \in [Queues -> Ring(Slot)] /\ owed \in Seq(SUBSET Group) /\ Produced = Len(owed)
  BY DEF TypeInv, Produced
<1>2. PICK top \in Slot : top = Produced + 1
  BY <1>1, PushConstants DEF Slot, Message
<1>3. PICK x :
         /\ \A q \in GroupQueues : \A y \in Inside(rings[q]) :
               y \in Inside(After(w, i)[q]) \/ y \in Lost(w, Len(w))
         /\ StagingKept(w, i, x)
  <2>1. w = Writes(top)
    BY <1>2
  <2> QED
    BY <1>1, <2>1, ProduceKeeps
<1>4. PICK S : S = rings'
  OBVIOUS
<1>5. ASSUME NEW m \in Told, m \notin Lost(w, Len(w)), ~ (m = x /\ i # Len(w)),
             Absent(m, S, taken, owed'[m])
      PROVE  m \in Counted
  <2>1. m \in 1 .. Len(owed)
    BY <1>1, CountedFinite
  <2>2. owed'[m] = owed[m] /\ owed[m] \in SUBSET Group
    BY <1>1, <2>1
  <2>3. PICK hs \in SUBSET Group : hs = owed[m]
    BY <2>2
  <2>4. \A q \in GroupQueues : m \in Seen(rings, taken, q) => m \in Seen(S, taken, q)
    BY <1>3, <1>4, <1>5 DEF Seen
  <2>5. m \in Inside(rings[Staging]) =>
           m \in Inside(S[Staging]) \/ \E q \in GroupQueues : m \in Seen(S, taken, q)
    BY <1>3, <1>4, <1>5 DEF Seen, StagingKept
  <2>6. Absent(m, rings, taken, hs)
    BY <1>5, <2>2, <2>3, <2>4, <2>5, AbsentBefore
  <2> QED
    BY <2>3, <2>6 DEF Counted
<1>6. \A m \in Told :
         \/ m \in Counted
         \/ ~ Absent(m, rings', taken', owed'[m])
         \/ m \in Lost(w, Len(w))
         \/ m = x /\ i # Len(w)
  <2> TAKE m \in Told
  <2>1. CASE m \in Lost(w, Len(w)) \/ (m = x /\ i # Len(w))
    BY <2>1
  <2>2. CASE m \notin Lost(w, Len(w)) /\ ~ (m = x /\ i # Len(w))
    <3>1. Absent(m, rings', taken', owed'[m]) => Absent(m, S, taken, owed'[m])
      BY <1>4
    <3>2. Absent(m, S, taken, owed'[m]) => m \in Counted
      BY <1>5, <2>2
    <3> QED
      BY <3>1, <3>2
  <2> QED
    BY <2>1, <2>2
<1>7. MissesOnly(w, i, x)
  BY <1>6 DEF MissesOnly
<1> QED
  BY <1>7

LEMMA LossProduce ==
    ASSUME TypeInv, TypeInv', GroupsOK(groups), LossInv, NEW p \in Producer, produce_pcm(p)
    PROVE  LossInv'
<1>1. PICK w : w = Writes(Produced + 1)
  OBVIOUS
<1>2. PICK n : n = Len(w)
  OBVIOUS
<1>3. /\ Produced < MaxMessages
      /\ rings' = After(w, n)
      /\ overflows' = overflows + Cardinality(Overflowing(Produced + 1))
      /\ owed' = Append(owed, Range(Ids(groups)))
      /\ producer' = [producer EXCEPT ![p] = [state |-> "answering", message |-> Produced + 1]]
      /\ UNCHANGED <<taken, acked, interrupted>>
  BY <1>1, <1>2 DEF produce_pcm
<1>4. /\ rings \in [Queues -> Ring(Slot)] /\ owed \in Seq(SUBSET Group) /\ Produced = Len(owed)
      /\ Produced \in Nat
  BY DEF TypeInv, Produced
<1>5. PICK top \in Slot : top = Produced + 1
  BY <1>3, <1>4, PushConstants DEF Slot, Message
<1>6. n \in 0 .. Len(w)
  BY <1>1, <1>2, <1>4, <1>5, WritesProper DEF GroupsOK
<1>7. Range(Ids(groups)) \in SUBSET Group
  BY IdsFacts
<1>8. \A m \in Told :
         \/ m \in Counted
         \/ ~ Absent(m, rings', taken', owed'[m])
         \/ m \in Lost(w, Len(w))
  <2>1. taken' = taken
    BY <1>3
  <2>2. PICK x : MissesOnly(w, n, x)
    BY <1>1, <1>3, <1>6, <1>7, <2>1, ProduceMissing
  <2> QED
    BY <1>2, <2>2 DEF MissesOnly
<1>9. Told' \subseteq Told \cup {top}
  <2>1. Produced' = top
    BY <1>3, <1>4, <1>5 DEF Produced
  <2>2. \A r \in Producer : producer'[r] = producer[r] \/ producer'[r].message = top
    BY <1>3, <1>5 DEF TypeInv
  <2>3. \A r \in Producer : producer[r].state = "answering" => producer[r].message \in 1 .. Produced
    BY DEF TypeInv
  <2> QED
    BY <1>3, <2>1, <2>2, <2>3 DEF Told
<1>10. Absent(top, rings', taken', owed'[top]) => top \in Lost(w, Len(w))
  <2>1. owed'[top] = Range(Ids(groups))
    BY <1>3, <1>4, <1>5
  <2>2. PICK S : S = rings'
    OBVIOUS
  <2>3. /\ groups = <<>> => top \in Inside(S[Staging]) \cup Lost(w, Len(w))
        /\ \A k \in 1 .. Len(groups) :
              /\ TargetOf(groups[k]) \in GroupQueues
              /\ TargetOf(groups[k]) = <<groups[k].id, smallest_partition_index(groups[k])>>
              /\ top \in Inside(S[TargetOf(groups[k])]) \cup Lost(w, Len(w))
    BY <1>1, <1>2, <1>3, <1>4, <1>5, <2>2, ProduceQueues
  <2>4. CASE groups = <<>>
    <3>1. Ids(groups) = <<>> /\ Range(Ids(groups)) = {}
      BY <2>4 DEF Ids, Range
    <3> QED
      BY <2>1, <2>2, <2>3, <2>4, <3>1 DEF Absent
  <2>5. CASE groups # <<>>
    <3>1. groups \in Seq(GroupType) /\ Len(groups) \in Nat \ {0} /\ DOMAIN groups = 1 .. Len(groups)
      BY <2>5, EmptySeq DEF GroupsOK
    <3>2. Range(Ids(groups)) = {groups[k].id : k \in 1 .. Len(groups)}
      BY <3>1 DEF Range, Ids
    <3>3. Range(Ids(groups)) # {}
      <4>1. 1 \in 1 .. Len(groups)
        BY <3>1
      <4> QED
        BY <3>2, <4>1
    <3>4. ASSUME NEW k \in 1 .. Len(groups), top \notin Lost(w, Len(w))
          PROVE  \E j \in 1 .. MaxPartitions : top \in Seen(S, taken', <<groups[k].id, j>>)
      <4>1. PICK j : j = smallest_partition_index(groups[k])
        OBVIOUS
      <4>2. <<groups[k].id, j>> \in GroupQueues /\ top \in Inside(S[<<groups[k].id, j>>])
        BY <2>3, <3>4, <4>1
      <4>3. j \in 1 .. MaxPartitions
        BY <4>2 DEF GroupQueues
      <4> QED
        BY <4>2, <4>3 DEF Seen
    <3>5. ASSUME Absent(top, S, taken', owed'[top]) PROVE top \in Lost(w, Len(w))
      <4>1. PICK g \in Range(Ids(groups)) :
               \A j \in 1 .. MaxPartitions : top \notin Seen(S, taken', <<g, j>>)
        BY <2>1, <3>3, <3>5 DEF Absent
      <4>2. PICK k \in 1 .. Len(groups) : g = groups[k].id
        BY <3>2
      <4> QED
        BY <3>4, <4>1, <4>2
    <3> QED
      BY <2>2, <3>5
  <2> QED
    BY <2>4, <2>5
<1>11. Counted' \subseteq Counted \cup Lost(w, Len(w))
  <2>1. ASSUME NEW m \in Counted' PROVE m \in Counted \cup Lost(w, Len(w))
    <3>1. m \in Told' /\ Absent(m, rings', taken', owed'[m])
      BY DEF Counted
    <3>2. CASE m = top
      BY <1>10, <3>1, <3>2
    <3>3. CASE m \in Told
      BY <1>2, <1>8, <3>1, <3>3
    <3> QED
      BY <1>9, <3>1, <3>2, <3>3
  <2> QED
    BY <2>1
<1>12. PICK e : e = Cardinality(Overflowing(top))
  OBVIOUS
<1>13. PICK X : X = Lost(w, Len(w))
  OBVIOUS
<1>14. e \in Nat /\ IsFiniteSet(X) /\ Cardinality(X) <= QUEUE_CAPACITY * e
  BY <1>1, <1>4, <1>5, <1>12, <1>13, LostSmall
<1>15. Cardinality(X) <= 0 + QUEUE_CAPACITY * e
  BY <1>14, PushConstants
<1>16. interrupted' = interrupted + 0 /\ overflows' = overflows + e
  BY <1>3, <1>5, <1>12 DEF LossInv
<1> QED
  BY <1>11, <1>13, <1>14, <1>15, <1>16, LossPaid

LEMMA LossInterrupted ==
    ASSUME TypeInv, TypeInv', GroupsOK(groups), RegistryInv, LossInv,
           NEW p \in Producer, CrashDuringProduce(p)
    PROVE  LossInv'
<1>1. PICK w : w = Writes(Produced + 1)
  OBVIOUS
<1>2. PICK i \in 0 .. Len(w) - 1 : rings' = After(w, i)
  BY <1>1 DEF CrashDuringProduce
<1>3. /\ Produced < MaxMessages
      /\ overflows' = overflows + Cardinality(Overflowing(Produced + 1))
      /\ interrupted' = interrupted + 1
      /\ owed' = Append(owed, {})
      /\ Ended
      /\ UNCHANGED <<taken, acked>>
  BY DEF CrashDuringProduce
<1>4. /\ rings \in [Queues -> Ring(Slot)] /\ owed \in Seq(SUBSET Group) /\ Produced = Len(owed)
      /\ Produced \in Nat
  BY DEF TypeInv, Produced
<1>5. PICK top \in Slot : top = Produced + 1
  BY <1>3, <1>4, PushConstants DEF Slot, Message
<1>6. i \in 0 .. Len(w)
  <2>1. Len(w) \in Nat
    BY <1>1, <1>4, <1>5, WritesProper DEF GroupsOK
  <2> QED
    BY <2>1
<1>7. PICK x : MissesOnly(w, i, x)
  <2>1. {} \in SUBSET Group
    OBVIOUS
  <2>2. taken' = taken
    BY <1>3
  <2> QED
    BY <1>1, <1>2, <1>3, <1>6, <2>1, <2>2, ProduceMissing
<1>8. Told' \subseteq Told
  <2>1. \A r \in Producer : producer'[r].state # "answering"
    BY <1>3, EndedFacts
  <2> QED
    BY <1>3, <2>1 DEF Told
<1>9. PICK L : L = Lost(w, Len(w))
  OBVIOUS
<1>10. Counted' \subseteq Counted \cup (L \cup {x})
  <2>1. ASSUME NEW m \in Counted' PROVE m \in Counted \cup (L \cup {x})
    <3>1. m \in Told /\ Absent(m, rings', taken', owed'[m])
      BY <1>8 DEF Counted
    <3> QED
      BY <1>7, <1>9, <3>1 DEF MissesOnly
  <2> QED
    BY <2>1
<1>11. PICK e : e = Cardinality(Overflowing(top))
  OBVIOUS
<1>12. e \in Nat /\ IsFiniteSet(L) /\ Cardinality(L) <= QUEUE_CAPACITY * e
  BY <1>1, <1>4, <1>5, <1>9, <1>11, LostSmall
<1>13. IsFiniteSet(L \cup {x}) /\ Cardinality(L \cup {x}) <= 1 + QUEUE_CAPACITY * e
  <2>1. /\ IsFiniteSet(L \cup {x}) /\ Cardinality(L) \in Nat
        /\ Cardinality(L \cup {x}) = IF x \in L THEN Cardinality(L) ELSE Cardinality(L) + 1
    BY <1>12, FS_AddElement, FS_CardinalityType
  <2>2. PICK y \in Nat : y = QUEUE_CAPACITY * e
    BY <1>12, PushConstants
  <2> QED
    BY <1>12, <2>1, <2>2
<1>14. interrupted' = interrupted + 1 /\ overflows' = overflows + e
  BY <1>3, <1>5, <1>11
<1> QED
  BY <1>10, <1>12, <1>13, <1>14, LossPaid

LEMMA LossNext == BaseInv /\ BaseInv' /\ LossInv /\ [Next]_vars => LossInv'
<1> SUFFICES ASSUME BaseInv, BaseInv', LossInv, [Next]_vars PROVE LossInv'
  OBVIOUS
<1>1. TypeInv /\ TypeInv' /\ RegistryInv /\ GroupsOK(groups)
  BY DEF BaseInv, RegistryInv
<1>2. ASSUME UNCHANGED <<rings, taken, owed, overflows, interrupted>>, Told' \subseteq Told
      PROVE  LossInv'
  BY <1>1, <1>2, LossQuiet
<1>3. ASSUME NEW p \in Producer, produce_pcm(p) PROVE LossInv'
  BY <1>1, <1>3, LossProduce
<1>4. ASSUME NEW p \in Producer, CrashDuringProduce(p) PROVE LossInv'
  BY <1>1, <1>4, LossInterrupted
<1>5. ASSUME NEW c \in Consumer, Pop(c) PROVE LossInv'
  BY <1>1, <1>5, LossPop
<1>6. ASSUME NEW p \in Producer, register_producer(p) \/ Answer(p) PROVE LossInv'
  <2>1. UNCHANGED <<rings, taken, owed, overflows, interrupted>>
    BY <1>6 DEF register_producer, Answer, histories
  <2>2. CASE register_producer(p)
    <3>1. acked' = acked /\ Produced' = Produced
      BY <2>2 DEF register_producer, histories, Produced
    <3>2. \A r \in Producer : producer'[r] = producer[r] \/ producer'[r].state # "answering"
      BY <1>1, <2>2 DEF register_producer, At, TypeInv
    <3> QED
      BY <1>2, <2>1, <3>1, <3>2 DEF Told
  <2>3. CASE Answer(p)
    <3>1. acked' = acked \cup {producer[p].message} /\ producer[p].state = "answering"
          /\ Produced' = Produced
      BY <2>1, <2>3 DEF Answer, Produced
    <3>2. \A r \in Producer : producer'[r] = producer[r] \/ producer'[r].state # "answering"
      BY <1>1, <2>3 DEF Answer, At, TypeInv
    <3>3. producer[p].message \in 1 .. Produced
      BY <1>1, <3>1 DEF TypeInv
    <3> QED
      BY <1>2, <2>1, <3>1, <3>2, <3>3 DEF Told
  <2> QED
    BY <1>6, <2>2, <2>3
<1>7. ASSUME UNCHANGED <<rings, taken, owed, overflows, interrupted, producer, acked>>
      PROVE  LossInv'
  <2>1. Told' = Told
    BY <1>7 DEF Told, Produced
  <2> QED
    BY <1>2, <1>7, <2>1
<1>8. ASSUME NEW c \in Consumer,
             dial_back_to_consumer(c) \/ ReadReady(c) \/ Write(c) \/ Die(c)
      PROVE  LossInv'
  <2>1. UNCHANGED <<rings, taken, owed, overflows, interrupted, producer, acked>>
    BY <1>8 DEF dial_back_to_consumer, ReadReady, Write, Die, histories
  <2> QED
    BY <1>7, <2>1
<1>9. ASSUME NEW c, NEW g, register_consumer(c, g) PROVE LossInv'
  <2>1. UNCHANGED <<rings, taken, owed, overflows, interrupted, producer, acked>>
    BY <1>9 DEF register_consumer, histories
  <2> QED
    BY <1>7, <2>1
<1>10. ASSUME NEW g, RegisterFails(g) PROVE LossInv'
  <2>1. UNCHANGED <<rings, taken, owed, overflows, interrupted, producer, acked>>
    BY <1>10 DEF RegisterFails, histories
  <2> QED
    BY <1>7, <2>1
<1>11. CASE Restart \/ UNCHANGED vars
  <2>1. UNCHANGED <<rings, taken, owed, overflows, interrupted, producer, acked>>
    BY <1>11 DEF Restart, vars, histories
  <2> QED
    BY <1>7, <2>1
<1>12. CASE Crash
  <2>1. UNCHANGED <<rings, taken, owed, overflows, interrupted, acked>> /\ Ended
    BY <1>12 DEF Crash, histories
  <2>2. \A r \in Producer : producer'[r].state # "answering"
    BY <1>1, <2>1, EndedFacts
  <2>3. Told' \subseteq Told
    BY <2>1, <2>2 DEF Told
  <2> QED
    BY <1>2, <2>1, <2>3
<1> QED
  BY <1>3, <1>4, <1>5, <1>6, <1>8, <1>9, <1>10, <1>11, <1>12, Zenon DEF Next, ConsumerStep

(* AnsweredIsQueued, for any groups, consumers and capacity: a message      *)
(* whose producer was answered is staged, in a queue of every group there   *)
(* was, or taken from one, except one staged message per crash inside       *)
(* produce_pcm and the slots of each ring that an append found full         *)
(* (mmap_queue.rs append).                                                  *)
THEOREM AnsweredIsQueuedCorrect == Spec => []AnsweredIsQueued
<1>1. Init => LossInv
  <2> SUFFICES ASSUME Init PROVE LossInv
    OBVIOUS
  <2>1. acked = {} /\ \A p \in Producer : producer[p].state # "answering"
    BY DEF Init, At
  <2>2. Counted = {}
    BY <2>1 DEF Counted, Told
  <2>3. interrupted = 0 /\ overflows = 0
    BY DEF Init
  <2>4. Cardinality({}) = 0
    BY FS_EmptySet
  <2>5. 0 <= 0 + QUEUE_CAPACITY * 0
    BY PushConstants
  <2> QED
    BY <2>2, <2>3, <2>4, <2>5 DEF LossInv
<1>2. BaseInv /\ LossInv => AnsweredIsQueued
  <2> SUFFICES ASSUME TypeInv, LossInv PROVE AnsweredIsQueued
    BY DEF BaseInv
  <2>1. ASSUME NEW q \in Queues PROVE Range(Contents(rings[q])) = Inside(rings[q])
    <3>1. PICK r \in Ring(Slot) : r = rings[q]
      BY DEF TypeInv
    <3>2. DOMAIN Contents(r) = 1 .. live_len(r)
          /\ \A i \in 1 .. live_len(r) : Contents(r)[i] = Item(r, i)
      BY DEF Contents, Item
    <3> HIDE DEF Item
    <3> QED
      BY <3>1, <3>2 DEF Range, Inside
  <2>2. ASSUME NEW m, NEW g \in Group, ~ Kept(m, g), NEW k \in 1 .. MaxPartitions
        PROVE  m \notin Seen(rings, taken, <<g, k>>)
    <3>1. <<g, k>> \in Queues
      BY QueueFacts DEF GroupQueues
    <3> QED
      BY <2>1, <2>2, <3>1 DEF Kept, Seen
  <2>3. ASSUME NEW m \in Missing PROVE m \in Counted
    <3>1. m \in acked /\ m \in Told /\ owed[m] \in SUBSET Group
      BY DEF Missing, Told, TypeInv, Produced
    <3>2. CASE owed[m] # {}
      <4>1. PICK g \in owed[m] : ~ Kept(m, g)
        BY <3>2 DEF Missing
      <4>2. \A k \in 1 .. MaxPartitions : m \notin Seen(rings, taken, <<g, k>>)
        BY <2>2, <3>1, <4>1
      <4> QED
        BY <3>1, <3>2, <4>1, <4>2 DEF Counted, Absent
    <3>3. CASE owed[m] = {}
      <4>1. m \notin Inside(rings[Staging])
        BY <2>1, <3>3, QueueFacts DEF Missing
      <4>2. \A g \in Group : ~ Kept(m, g)
        BY <3>3 DEF Missing
      <4>3. ASSUME NEW q \in GroupQueues PROVE m \notin Seen(rings, taken, q)
        <5>1. PICK g \in Group, k \in 1 .. MaxPartitions : q = <<g, k>>
          BY DEF GroupQueues
        <5> QED
          BY <2>2, <4>2, <5>1
      <4> QED
        BY <3>1, <3>3, <4>1, <4>3 DEF Counted, Absent
    <3> QED
      BY <3>2, <3>3
  <2>4. IsFiniteSet(Counted) /\ Cardinality(Counted) \in Nat
    BY CountedFinite
  <2>5. Missing \in SUBSET Counted
    BY <2>3
  <2>6. Cardinality(Missing) <= Cardinality(Counted) /\ Cardinality(Missing) \in Nat
    BY <2>4, <2>5, FS_Subset, FS_CardinalityType
  <2>7. interrupted + QUEUE_CAPACITY * overflows \in Nat
    BY PushConstants DEF LossInv
  <2> QED
    BY <2>4, <2>6, <2>7 DEF LossInv, AnsweredIsQueued
<1> QED
  BY BaseInit, BaseNext, LossNext, <1>1, <1>2, PTL DEF Spec
=============================================================================
