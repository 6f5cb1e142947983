------------------------ MODULE PartitionStoreProofs ------------------------
(***************************************************************************)
(* Proofs about PartitionStore.tla, for any producers, retention and       *)
(* bounds.                                                                 *)
(***************************************************************************)
EXTENDS PartitionStore, OrderFacts, FiniteSetTheorems, TLAPS

-----------------------------------------------------------------------------
(* The log that n records of the file amount to: the last MaxRecords of     *)
(* them, numbered by their place in the file.                               *)
FirstKept(n) == IF n > MaxRecords THEN n - MaxRecords ELSE 0

Window(data, n) ==
    [base    |-> FirstKept(n),
     next    |-> n,
     records |-> [i \in 1 .. n - FirstKept(n) |->
                     [offset  |-> FirstKept(n) + i - 1,
                      message |-> data[FirstKept(n) + i].message]]]

(* What append does to a log whose records are consecutive. *)
Contiguous(l) ==
    /\ l.base + Len(l.records) = l.next
    /\ Len(l.records) <= MaxRecords
    /\ \A i \in 1 .. Len(l.records) : l.records[i].offset = l.base + i - 1

Log == [base : Nat, next : Nat, records : Seq(Record)]

(* The records that append drops. *)
Dropped(l) == IF Len(l.records) + 1 > MaxRecords THEN 1 ELSE 0

LEMMA AppendFacts ==
    ASSUME NEW l \in Log, Contiguous(l), NEW message \in Message
    PROVE  /\ append(l, message).next = l.next + 1
           /\ append(l, message).base = l.base + Dropped(l)
           /\ append(l, message).records \in Seq(Record)
           /\ Len(append(l, message).records) = Len(l.records) + 1 - Dropped(l)
           /\ \A i \in 1 .. Len(l.records) - Dropped(l) :
                 append(l, message).records[i] = l.records[i + Dropped(l)]
           /\ append(l, message).records[Len(l.records) + 1 - Dropped(l)] =
                 [offset |-> l.next, message |-> message]
           /\ append(l, message) = [base    |-> append(l, message).base,
                                    next    |-> append(l, message).next,
                                    records |-> append(l, message).records]
           /\ Len(l.records) \in 0 .. MaxRecords
           /\ Dropped(l) \in 0 .. 1
           /\ 1 <= Len(l.records) + 1 - Dropped(l)
<1> DEFINE a      == append(l, message)
           n      == Len(l.records)
           k      == Dropped(l)
           new    == [offset |-> l.next, message |-> message]
           all    == Append(l.records, new)
           excess == IF Len(all) > MaxRecords THEN Len(all) - MaxRecords ELSE 0
           kept   == SubSeq(all, excess + 1, Len(all))
<1>0. /\ MaxRecords \in Nat \ {0}
      /\ l.base \in Nat /\ l.next \in Nat /\ l.records \in Seq(Record)
      /\ new \in Record
  BY StoreAssumption DEF Log, Record
<1>1. a = [base |-> kept[1].offset, next |-> l.next + 1, records |-> kept]
  BY DEF append
<1>2. n \in Nat /\ n <= MaxRecords
  BY <1>0 DEF Contiguous
<1>3. /\ all \in Seq(Record) /\ Len(all) = n + 1
      /\ \A i \in 1 .. n : all[i] = l.records[i]
      /\ all[n + 1] = new
  <2> HIDE DEF new
  <2> QED
    BY <1>0, <1>2
<1>4. excess = k /\ k \in 0 .. 1 /\ 1 <= n + 1 - k
  BY <1>0, <1>2, <1>3 DEF Dropped
<1> HIDE DEF all, excess, new, n, k
<1>5. /\ kept \in Seq(Record)
      /\ Len(kept) = n + 1 - k
      /\ \A i \in 1 .. n + 1 - k : kept[i] = all[i + k]
  BY <1>0, <1>2, <1>3, <1>4
<1> HIDE DEF kept
<1>6. \A i \in 1 .. n - k : kept[i] = l.records[i + k]
  BY <1>2, <1>3, <1>4, <1>5
<1>7. kept[n + 1 - k] = new
  BY <1>2, <1>3, <1>4, <1>5
<1>8. kept[1].offset = l.base + k
  <2>1. CASE 1 <= n - k
    <3>1. kept[1] = l.records[1 + k] /\ 1 + k \in 1 .. n
      BY <1>2, <1>4, <1>6, <2>1
    <3> QED
      BY <1>0, <1>2, <1>4, <3>1 DEF Contiguous, n
  <2>2. CASE ~ (1 <= n - k)
    <3>1. n + 1 - k = 1 /\ n = k
      BY <1>2, <1>4, <2>2
    <3>2. kept[1] = new
      BY <1>7, <3>1
    <3>3. l.next = l.base + k
      BY <3>1 DEF Contiguous, n
    <3> QED
      BY <3>2, <3>3 DEF new
  <2> QED
    BY <2>1, <2>2
<1> HIDE DEF a
<1>9. /\ a.next = l.next + 1 /\ a.base = l.base + k /\ a.records = kept
      /\ a = [base |-> a.base, next |-> a.next, records |-> a.records]
  BY <1>1, <1>8
<1> QED
  BY <1>0, <1>2, <1>4, <1>5, <1>6, <1>7, <1>9 DEF new, a, n, k

LEMMA AppendContiguous ==
    ASSUME NEW l \in Log, Contiguous(l), NEW message \in Message
    PROVE  /\ append(l, message) \in Log
           /\ Contiguous(append(l, message))
           /\ append(l, message).next = l.next + 1
<1> DEFINE a == append(l, message)
           n == Len(l.records)
           k == Dropped(l)
<1>0. MaxRecords \in Nat \ {0}
  BY StoreAssumption
<1>1. l.base \in Nat /\ l.next \in Nat /\ l.records \in Seq(Record)
  BY DEF Log
<1>2. [offset |-> l.next, message |-> message] \in Record
  BY <1>1 DEF Record
<1>3. /\ a.next = l.next + 1
      /\ a.base = l.base + k
      /\ a.records \in Seq(Record)
      /\ Len(a.records) = n + 1 - k
      /\ \A i \in 1 .. n - k : a.records[i] = l.records[i + k]
      /\ a.records[n + 1 - k] = [offset |-> l.next, message |-> message]
      /\ a = [base |-> a.base, next |-> a.next, records |-> a.records]
  BY AppendFacts
<1>4. n \in Nat /\ n <= MaxRecords /\ l.base + n = l.next
  BY <1>1 DEF Contiguous
<1>5. k \in 0 .. 1 /\ n + 1 - k <= MaxRecords /\ n + 1 - k \in Nat
  BY <1>0, <1>4 DEF Dropped
<1>6. \A i \in 1 .. n : l.records[i].offset = l.base + i - 1
  BY DEF Contiguous
<1> HIDE DEF a, n, k
<1>sizes. a.next = l.next + 1 /\ a.base = l.base + k /\ Len(a.records) = n + 1 - k
  BY <1>3
<1>7. ASSUME NEW i \in 1 .. Len(a.records)
      PROVE  a.records[i].offset = a.base + i - 1
  <2>1. CASE i <= n - k
    <3>1. i \in 1 .. n - k /\ i + k \in 1 .. n
      BY <1>4, <1>5, <1>sizes, <2>1
    <3>2. a.records[i] = l.records[i + k]
      BY <1>3, <3>1
    <3>3. l.records[i + k].offset = l.base + (i + k) - 1
      BY <1>6, <3>1
    <3>4. l.base + (i + k) - 1 = a.base + i - 1
      BY <1>1, <1>5, <1>sizes
    <3> QED
      BY <3>2, <3>3, <3>4
  <2>2. CASE i = n + 1 - k
    <3>1. a.records[i].offset = l.next
      BY <1>3, <2>2
    <3>2. l.next = a.base + i - 1
      BY <1>1, <1>4, <1>5, <1>sizes, <2>2
    <3> QED
      BY <3>1, <3>2
  <2> QED
    BY <1>4, <1>5, <1>sizes, <2>1, <2>2
<1>8. Contiguous(a)
  <2>1. a.base + Len(a.records) = a.next /\ Len(a.records) <= MaxRecords
    BY <1>1, <1>4, <1>5, <1>sizes
  <2> QED
    BY <1>7, <2>1 DEF Contiguous
<1>9. a \in Log
  BY <1>1, <1>3, <1>5 DEF Log
<1> QED
  BY <1>3, <1>8, <1>9 DEF a

LEMMA WindowFacts ==
    ASSUME NEW data \in Seq(Record), NEW n \in 0 .. Len(data)
    PROVE  /\ Window(data, n) \in Log
           /\ Contiguous(Window(data, n))
           /\ FirstKept(n) \in 0 .. n
           /\ Len(Window(data, n).records) = n - FirstKept(n)
           /\ \A i \in 1 .. n - FirstKept(n) :
                 Window(data, n).records[i] =
                    [offset  |-> FirstKept(n) + i - 1,
                     message |-> data[FirstKept(n) + i].message]
<1> DEFINE f == FirstKept(n)
           w == Window(data, n)
<1>0. MaxRecords \in Nat \ {0} /\ n \in Nat
  BY StoreAssumption
<1>1. f \in 0 .. n /\ n - f <= MaxRecords
  BY <1>0 DEF FirstKept
<1>2. /\ w.base = f /\ w.next = n
      /\ w.records = [i \in 1 .. n - f |->
                        [offset |-> f + i - 1, message |-> data[f + i].message]]
      /\ w = [base |-> w.base, next |-> w.next, records |-> w.records]
  BY DEF Window
<1> HIDE DEF f, w
<1>3. ASSUME NEW i \in 1 .. n - f
      PROVE  [offset |-> f + i - 1, message |-> data[f + i].message] \in Record
  <2>1. f + i \in 1 .. Len(data)
    BY <1>0, <1>1
  <2>2. data[f + i] \in Record
    BY <2>1
  <2>3. data[f + i].message \in Message
    BY <2>2 DEF Record
  <2>4. f + i - 1 \in Nat
    BY <1>0, <1>1
  <2> QED
    BY <2>3, <2>4 DEF Record
<1>4. w.records \in Seq(Record) /\ Len(w.records) = n - f
  <2>1. n - f \in Nat
    BY <1>0, <1>1
  <2>2. w.records \in [1 .. n - f -> Record]
    BY <1>2, <1>3
  <2> QED
    BY <2>1, <2>2
<1>5. w \in Log
  <2>1. w.base \in Nat /\ w.next \in Nat
    BY <1>0, <1>1, <1>2
  <2> QED
    BY <1>2, <1>4, <2>1 DEF Log
<1>6. \A i \in 1 .. n - f :
         w.records[i] = [offset |-> f + i - 1, message |-> data[f + i].message]
  BY <1>2
<1>7. Contiguous(w)
  BY <1>0, <1>1, <1>2, <1>4, <1>6 DEF Contiguous
<1> QED
  BY <1>1, <1>4, <1>5, <1>6, <1>7 DEF f, w

LEMMA WindowGrows ==
    ASSUME NEW data \in Seq(Record), NEW n \in 0 .. Len(data) - 1
    PROVE  append(Window(data, n), data[n + 1].message) = Window(data, n + 1)
<1> DEFINE w == Window(data, n)
           f == FirstKept(n)
           m == data[n + 1].message
<1>0. MaxRecords \in Nat \ {0} /\ n \in Nat /\ n \in 0 .. Len(data)
  BY StoreAssumption
<1>1. /\ w \in Log /\ Contiguous(w) /\ f \in 0 .. n
      /\ Len(w.records) = n - f
      /\ \A i \in 1 .. n - f :
            w.records[i] = [offset |-> f + i - 1, message |-> data[f + i].message]
  BY <1>0, WindowFacts
<1>2. w.next = n /\ w.base = f
  BY DEF Window
<1>3. m \in Message
  <2>1. n + 1 \in 1 .. Len(data)
    BY <1>0
  <2>2. data[n + 1] \in Record
    BY <2>1
  <2> QED
    BY <1>0, <2>2 DEF Record
<1> HIDE DEF w, m
<1> DEFINE a == append(w, m)
           k == Dropped(w)
<1>5. /\ a.next = n + 1
      /\ a.base = f + k
      /\ a.records \in Seq(Record)
      /\ Len(a.records) = n - f + 1 - k
      /\ \A i \in 1 .. n - f - k : a.records[i] = w.records[i + k]
      /\ a.records[n - f + 1 - k] = [offset |-> n, message |-> m]
      /\ a = [base |-> a.base, next |-> a.next, records |-> a.records]
  <2> HIDE DEF f
  <2> QED
    BY <1>1, <1>2, <1>3, AppendFacts
<1>6. k \in 0 .. 1 /\ FirstKept(n + 1) = f + k
  BY <1>0, <1>1 DEF FirstKept, Dropped
<1> HIDE DEF f, a, k
<1>7. ASSUME NEW i \in 1 .. n - f + 1 - k
      PROVE  a.records[i] = [offset |-> f + k + i - 1, message |-> data[f + k + i].message]
  <2>1. CASE i <= n - f - k
    <3>1. a.records[i] = w.records[i + k] /\ i + k \in 1 .. n - f
      BY <1>0, <1>1, <1>5, <1>6, <2>1
    <3>2. w.records[i + k] = [offset |-> f + (i + k) - 1, message |-> data[f + (i + k)].message]
      BY <1>1, <3>1
    <3>3. f + (i + k) - 1 = f + k + i - 1 /\ f + (i + k) = f + k + i
      BY <1>0, <1>1, <1>6
    <3> QED
      BY <3>1, <3>2, <3>3
  <2>2. CASE i = n - f + 1 - k
    <3>0. f \in Nat /\ n \in Nat /\ k \in 0 .. 1
      BY <1>0, <1>1, <1>6
    <3>1. f + k + i - 1 = n /\ f + k + i = n + 1
      BY <2>2, <3>0
    <3>2. a.records[i] = [offset |-> n, message |-> m]
      BY <1>5, <2>2
    <3> QED
      BY <3>1, <3>2 DEF m
  <2> QED
    BY <1>0, <1>1, <1>6, <2>1, <2>2
<1>8. a.records = [i \in 1 .. (n + 1) - (f + k) |->
                     [offset |-> f + k + i - 1, message |-> data[f + k + i].message]]
  <2>1. (n + 1) - (f + k) = n - f + 1 - k
    BY <1>0, <1>1, <1>6
  <2>2. a.records = [i \in 1 .. n - f + 1 - k |-> a.records[i]]
    BY <1>5
  <2> QED
    BY <1>7, <2>1, <2>2
<1> QED
  BY <1>5, <1>6, <1>8 DEF Window, w, m, a

LEMMA WindowPrefix ==
    ASSUME NEW data \in Seq(Record), NEW record \in Record
    PROVE  Window(Append(data, record), Len(data)) = Window(data, Len(data))
<1> DEFINE n == Len(data)
           f == FirstKept(n)
<1>1. MaxRecords \in Nat \ {0} /\ n \in Nat
  BY StoreAssumption
<1>2. f \in 0 .. n
  BY <1>1 DEF FirstKept
<1>3. \A i \in 1 .. n - f : Append(data, record)[f + i] = data[f + i]
  BY <1>1, <1>2
<1> HIDE DEF f
<1>4. [i \in 1 .. n - f |-> [offset |-> f + i - 1, message |-> Append(data, record)[f + i].message]]
      = [i \in 1 .. n - f |-> [offset |-> f + i - 1, message |-> data[f + i].message]]
  BY <1>3
<1> QED
  BY <1>4 DEF Window, f

LEMMA WindowEmpty == Window(<<>>, 0) = NewLog
<1>1. MaxRecords \in Nat \ {0}
  BY StoreAssumption
<1>2. FirstKept(0) = 0
  BY <1>1 DEF FirstKept
<1>3. [i \in 1 .. 0 |-> [offset |-> 0 + i - 1, message |-> <<>>[0 + i].message]] = <<>>
  OBVIOUS
<1> QED
  BY <1>2, <1>3 DEF Window, NewLog

(* load_partition_log, which appends the file's payloads one by one, ends   *)
(* with the window on the whole file.                                       *)
LEMMA Loaded ==
    ASSUME NEW data \in Seq(Record)
    PROVE  load_partition_log(data) = Window(data, Len(data))
<1> DEFINE D == 0 .. Len(data)
           Step(f) == [n \in D |-> IF n = 0 THEN NewLog ELSE append(f[n - 1], data[n].message)]
           W == [n \in D |-> Window(data, n)]
           F == CHOOSE f : f = Step(f)
<1>0. Len(data) \in Nat /\ Len(data) \in D
  OBVIOUS
<1>1. load_partition_log(data) = F[Len(data)]
  BY DEF load_partition_log
<1>2. Window(data, 0) = NewLog
  <2>1. FirstKept(0) = 0
    BY StoreAssumption DEF FirstKept
  <2>2. [i \in 1 .. 0 |-> [offset |-> 0 + i - 1, message |-> data[0 + i].message]] = <<>>
    OBVIOUS
  <2> QED
    BY <2>1, <2>2 DEF Window, NewLog
<1>3. ASSUME NEW n \in D, n # 0
      PROVE  Window(data, n) = append(Window(data, n - 1), data[n].message)
  <2>1. n - 1 \in 0 .. Len(data) - 1 /\ n - 1 + 1 = n
    BY <1>0, <1>3
  <2> QED
    BY <2>1, WindowGrows
<1>4. W = Step(W)
  <2>1. \A n \in D : n # 0 => n - 1 \in D
    BY <1>0
  <2>2. ASSUME NEW n \in D
        PROVE  W[n] = IF n = 0 THEN NewLog ELSE append(W[n - 1], data[n].message)
    BY <1>2, <1>3, <2>1
  <2> QED
    BY <2>2
<1>5. F = Step(F)
  <2> HIDE DEF Step, W
  <2> QED
    BY <1>4
<1> HIDE DEF F
<1>6. /\ F[0] = NewLog
      /\ \A n \in D : n # 0 => F[n] = append(F[n - 1], data[n].message)
  <2>1. \A n \in D : F[n] = IF n = 0 THEN NewLog ELSE append(F[n - 1], data[n].message)
    BY <1>5
  <2> QED
    BY <1>0, <2>1
<1>7. SUFFICES ASSUME F[Len(data)] # Window(data, Len(data)) PROVE FALSE
  BY <1>1
<1> DEFINE B == {n \in D : F[n] # Window(data, n)}
<1>8. PICK n \in B : \A m \in B : n <= m
  <2>1. B \in SUBSET Nat /\ B # {}
    BY <1>0, <1>7
  <2> HIDE DEF B
  <2> QED
    BY <2>1, NatMin
<1>9. n # 0
  BY <1>2, <1>6
<1>10. n \in D /\ n - 1 \in D /\ n - 1 \notin B
  <2>1. n \in D /\ n - 1 \in D /\ ~ (n <= n - 1)
    BY <1>0, <1>9
  <2> QED
    BY <1>8, <2>1
<1>11. F[n - 1] = Window(data, n - 1)
  BY <1>10
<1> QED
  BY <1>3, <1>6, <1>9, <1>10, <1>11

-----------------------------------------------------------------------------
(* The inductive invariant.  What holds of the state whatever fails: *)
TypeInv ==
    /\ up \in BOOLEAN
    /\ known \in BOOLEAN
    /\ log \in Log
    /\ Contiguous(log)
    /\ idem \in [Producer -> Entry]
    /\ disk \in Disk
    /\ answers \subseteq [producer : Producer, sequence : Sequence, offset : Nat]
    /\ position \in Nat
    /\ seen \subseteq Record
    /\ crashes \in Nat
    /\ failures \in Nat
    /\ ~ up => position = 0

(* What holds as long as no write failed.  Memory and files agree; *)
FilesInv ==
    /\ disk.topics # "whole" => disk.data = <<>>
    /\ up => /\ known <=> disk.topics = "whole"
             /\ log = Window(disk.data, Len(disk.data))
             /\ idem = disk.idem

(* the log file holds what the entries, the answers and the consumers know  *)
(* of it;                                                                   *)
Holds(data, offset, p, s) ==
    /\ offset < Len(data)
    /\ data[offset + 1].message = [producer |-> p, sequence |-> s]

EntriesHold(files) ==
    \A p \in Producer : files.idem[p] # None =>
        Holds(files.data, files.idem[p].offset, p, files.idem[p].sequence)

AnswersHold(files, A) ==
    /\ \A a \in A :
          /\ Holds(files.data, a.offset, a.producer, a.sequence)
          /\ a.sequence <= files.idem[a.producer].sequence
          /\ a.sequence = files.idem[a.producer].sequence =>
                a.offset = files.idem[a.producer].offset
    /\ \A a, b \in A :
          a.producer = b.producer /\ a.sequence = b.sequence => a.offset = b.offset

AnswerInv == AnswersHold(disk, answers)

SeenHolds(files, S) ==
    \A record \in S : /\ record.offset < Len(files.data)
                      /\ files.data[record.offset + 1].message = record.message

SeenInv ==
    /\ SeenHolds(disk, seen)
    /\ up => position <= log.next

(* the last record of a producer is the one of its entry or the next one,   *)
(* which a crash kept from having an entry; and a message that is stored    *)
(* twice was once without an entry.                                         *)
OfProducer(data, p, n) == {j \in 1 .. n : data[j].message.producer = p}

Messages(data) == {data[i].message : i \in 1 .. Len(data)}

NextMessage(files, p) == [producer |-> p, sequence |-> files.idem[p].sequence + 1]

Unentered(files) == {p \in Producer : NextMessage(files, p) \in Messages(files.data)}

LastStored(files) ==
    \A p \in Producer :
        LET own == OfProducer(files.data, p, Len(files.data))
            s   == files.idem[p].sequence
        IN  \/ own = {} /\ s = -1
            \/ \E j \in own :
                  /\ \A k \in own : k <= j
                  /\ \/ files.data[j].message.sequence = s
                     \/ files.data[j].message.sequence = s + 1

Follows(data, i) ==
    LET message == data[i].message
        earlier == OfProducer(data, message.producer, i - 1)
    IN  \/ earlier = {} /\ message.sequence = 0
        \/ \E j \in earlier :
              /\ \A k \in earlier : k <= j
              /\ \/ message = data[j].message
                 \/ message.sequence = data[j].message.sequence + 1

Ordered(files) == \A i \in 1 .. Len(files.data) : Follows(files.data, i)

Bounded(files) ==
    \A m \in Messages(files.data) : m.sequence <= files.idem[m.producer].sequence + 1

CopiesCounted(files, n) ==
    /\ IsFiniteSet(Messages(files.data))
    /\ Len(files.data) + Cardinality(Unentered(files)) <=
          n + Cardinality(Messages(files.data))

FileInv(files, n) ==
    /\ EntriesHold(files)
    /\ LastStored(files)
    /\ Ordered(files)
    /\ Bounded(files)
    /\ CopiesCounted(files, n)

SoundInv ==
    DiskSound => FilesInv /\ AnswerInv /\ SeenInv /\ FileInv(disk, crashes)

-----------------------------------------------------------------------------
(* The writes of produce_idempotent, field by field. *)
LEMMA DiskFields ==
    ASSUME NEW d
    PROVE  d \in Disk <=>
           /\ d = [topics |-> d.topics, data |-> d.data, torn |-> d.torn,
                   idem |-> d.idem, tornIdem |-> d.tornIdem]
           /\ d.topics \in {"none", "torn", "whole"}
           /\ d.data \in Seq(Record)
           /\ d.torn \in BOOLEAN
           /\ d.idem \in [Producer -> Entry]
           /\ d.tornIdem \in SUBSET Producer
BY DEF Disk

LEMMA NewFacts ==
    ASSUME TypeInv, NEW p \in Producer, NEW s \in Sequence
    PROVE  /\ NewRecord(p, s) \in Record
           /\ NewRecord(p, s).message = [producer |-> p, sequence |-> s]
           /\ NewEntry(s) \in Entry
           /\ NewEntry(s).sequence = s /\ NewEntry(s).offset = log.next
           /\ NewEntry(s) # None
<1>1. log.next \in Nat /\ s \in Nat
  BY StoreAssumption DEF TypeInv, Log, Sequence
<1>2. [producer |-> p, sequence |-> s] \in Message
  BY DEF Message
<1>3. NewRecord(p, s) \in Record /\ NewRecord(p, s).message = [producer |-> p, sequence |-> s]
  BY <1>1, <1>2 DEF NewRecord, Record
<1>4. NewEntry(s) \in Entry /\ NewEntry(s).sequence = s /\ NewEntry(s).offset = log.next
  BY <1>1 DEF NewEntry, Entry
<1>5. None.sequence = -1
  BY DEF None
<1>6. NewEntry(s) # None
  BY <1>1, <1>4, <1>5
<1> QED
  BY <1>3, <1>4, <1>6

LEMMA WithTopicFacts ==
    ASSUME TypeInv, NEW d \in Disk
    PROVE  /\ WithTopic(d) \in Disk
           /\ WithTopic(d).data = d.data
           /\ WithTopic(d).idem = d.idem
           /\ WithTopic(d).topics = IF known THEN d.topics ELSE "whole"
<1>1. CASE known
  BY <1>1 DEF WithTopic
<1>2. CASE ~ known
  BY <1>2 DEF WithTopic, Disk
<1>3. known \in BOOLEAN
  BY DEF TypeInv
<1> QED
  BY <1>1, <1>2, <1>3

LEMMA WithRecordFacts ==
    ASSUME TypeInv, NEW p \in Producer, NEW s \in Sequence, NEW d \in Disk
    PROVE  /\ WithRecord(d, p, s) \in Disk
           /\ WithRecord(d, p, s).data = Append(d.data, NewRecord(p, s))
           /\ WithRecord(d, p, s).idem = d.idem
           /\ WithRecord(d, p, s).topics = d.topics
<1>1. NewRecord(p, s) \in Record /\ d.data \in Seq(Record)
  BY NewFacts DEF Disk
<1>2. Append(d.data, NewRecord(p, s)) \in Seq(Record)
  BY <1>1
<1>3. PICK new : new = Append(d.data, NewRecord(p, s))
  OBVIOUS
<1>4. WithRecord(d, p, s) = [d EXCEPT !.data = new]
  BY <1>3 DEF WithRecord
<1> QED
  BY <1>2, <1>3, <1>4 DEF Disk

LEMMA WithEntryFacts ==
    ASSUME TypeInv, NEW p \in Producer, NEW s \in Sequence, NEW d \in Disk
    PROVE  /\ WithEntry(d, p, s) \in Disk
           /\ WithEntry(d, p, s).data = d.data
           /\ WithEntry(d, p, s).idem = [d.idem EXCEPT ![p] = NewEntry(s)]
           /\ WithEntry(d, p, s).topics = d.topics
<1>1. NewEntry(s) \in Entry /\ d.idem \in [Producer -> Entry] /\ d.tornIdem \in SUBSET Producer
  BY NewFacts DEF Disk
<1>2. PICK e, t : e = [d.idem EXCEPT ![p] = NewEntry(s)] /\ t = d.tornIdem \ {p}
  OBVIOUS
<1>3. e \in [Producer -> Entry] /\ t \in SUBSET Producer
  BY <1>1, <1>2
<1>4. WithEntry(d, p, s) = [topics |-> d.topics, data |-> d.data, torn |-> d.torn,
                            idem |-> e, tornIdem |-> t]
  <2>1. PICK x : x = NewEntry(s)
    OBVIOUS
  <2>2. WithEntry(d, p, s) = [d EXCEPT !.idem[p] = x, !.tornIdem = d.tornIdem \ {p}]
    BY <2>1 DEF WithEntry, Disk
  <2>3. WithEntry(d, p, s) = [d EXCEPT !.idem = [d.idem EXCEPT ![p] = x], !.tornIdem = t]
    BY <1>2, <2>2 DEF Disk
  <2>4. WithEntry(d, p, s) = [d EXCEPT !.idem = e, !.tornIdem = t]
    BY <1>2, <2>1, <2>3
  <2> QED
    BY <2>4 DEF Disk
<1> QED
  BY <1>2, <1>3, <1>4 DEF Disk

(* Flags that a write cut short leaves behind change nothing else. *)
LEMMA TornFacts ==
    ASSUME NEW d \in Disk, NEW p \in Producer
    PROVE  /\ [d EXCEPT !.torn = TRUE] \in Disk
           /\ [d EXCEPT !.torn = TRUE].data = d.data
           /\ [d EXCEPT !.torn = TRUE].idem = d.idem
           /\ [d EXCEPT !.torn = TRUE].topics = d.topics
           /\ [d EXCEPT !.tornIdem = @ \cup {p}] \in Disk
           /\ [d EXCEPT !.tornIdem = @ \cup {p}].data = d.data
           /\ [d EXCEPT !.tornIdem = @ \cup {p}].idem = d.idem
           /\ [d EXCEPT !.tornIdem = @ \cup {p}].topics = d.topics
           /\ [d EXCEPT !.topics = "torn"] \in Disk
           /\ [d EXCEPT !.topics = "torn"].data = d.data
           /\ [d EXCEPT !.topics = "torn"].idem = d.idem
<1>1. /\ [d EXCEPT !.torn = TRUE] \in Disk
      /\ [d EXCEPT !.torn = TRUE].data = d.data
      /\ [d EXCEPT !.torn = TRUE].idem = d.idem
      /\ [d EXCEPT !.torn = TRUE].topics = d.topics
  BY DEF Disk
<1>2. /\ [d EXCEPT !.tornIdem = @ \cup {p}] \in Disk
      /\ [d EXCEPT !.tornIdem = @ \cup {p}].data = d.data
      /\ [d EXCEPT !.tornIdem = @ \cup {p}].idem = d.idem
      /\ [d EXCEPT !.tornIdem = @ \cup {p}].topics = d.topics
  BY DEF Disk
<1>3. /\ [d EXCEPT !.topics = "torn"] \in Disk
      /\ [d EXCEPT !.topics = "torn"].data = d.data
      /\ [d EXCEPT !.topics = "torn"].idem = d.idem
  BY DEF Disk
<1> QED
  BY <1>1, <1>2, <1>3

(* What the files may be after produce_idempotent ran, or ran in part: the  *)
(* record and the entry missing, the entry missing, or all there.           *)
TopicListed == IF known THEN disk.topics ELSE "whole"

Unwritten(files) ==
    /\ files.data = disk.data
    /\ files.idem = disk.idem
    /\ known => files.topics = disk.topics

RecordOnly(files, p, s) ==
    /\ files.data = Append(disk.data, NewRecord(p, s))
    /\ files.idem = disk.idem
    /\ files.topics = TopicListed

Written(files, p, s) ==
    /\ files.data = Append(disk.data, NewRecord(p, s))
    /\ files.idem = [disk.idem EXCEPT ![p] = NewEntry(s)]
    /\ files.topics = TopicListed

LEMMA StoredFacts ==
    ASSUME TypeInv, NEW p \in Producer, NEW s \in Sequence
    PROVE  Stored(p, s) \in Disk /\ Written(Stored(p, s), p, s)
<1>1. disk \in Disk
  BY DEF TypeInv
<1>2. PICK d : d = WithTopic(disk)
  OBVIOUS
<1>3. d \in Disk /\ d.data = disk.data /\ d.idem = disk.idem /\ d.topics = TopicListed
  BY <1>1, <1>2, WithTopicFacts DEF TopicListed
<1>4. PICK e : e = WithRecord(d, p, s)
  OBVIOUS
<1>5. /\ e \in Disk /\ e.data = Append(d.data, NewRecord(p, s))
      /\ e.idem = d.idem /\ e.topics = d.topics
  BY <1>3, <1>4, WithRecordFacts
<1>6. Stored(p, s) = WithEntry(e, p, s)
  BY <1>2, <1>4 DEF Stored
<1>7. /\ WithEntry(e, p, s) \in Disk /\ WithEntry(e, p, s).data = e.data
      /\ WithEntry(e, p, s).idem = [e.idem EXCEPT ![p] = NewEntry(s)]
      /\ WithEntry(e, p, s).topics = e.topics
  BY <1>5, WithEntryFacts
<1> QED
  BY <1>3, <1>5, <1>6, <1>7 DEF Written

LEMMA InterruptedFacts ==
    ASSUME TypeInv, NEW p \in Producer, NEW s \in Sequence,
           NEW files \in Interrupted(p, s)
    PROVE  /\ files \in Disk
           /\ Unwritten(files) \/ RecordOnly(files, p, s) \/ Written(files, p, s)
<1>1. disk \in Disk /\ known \in BOOLEAN
  BY DEF TypeInv
<1>2. PICK d : d = WithTopic(disk)
  OBVIOUS
<1>3. d \in Disk /\ d.data = disk.data /\ d.idem = disk.idem /\ d.topics = TopicListed
  BY <1>1, <1>2, WithTopicFacts DEF TopicListed
<1>4. PICK e : e = WithRecord(d, p, s)
  OBVIOUS
<1>5. /\ e \in Disk /\ e.data = Append(d.data, NewRecord(p, s))
      /\ e.idem = d.idem /\ e.topics = d.topics
  BY <1>3, <1>4, WithRecordFacts
<1>6. \/ files = disk
      \/ ~ known /\ files = [disk EXCEPT !.topics = "torn"]
      \/ files = d
      \/ files = [d EXCEPT !.torn = TRUE]
      \/ files = e
      \/ files = [e EXCEPT !.tornIdem = @ \cup {p}]
      \/ files = Stored(p, s)
  BY <1>1, <1>2, <1>4 DEF Interrupted
<1>7. CASE files = disk
  BY <1>1, <1>7 DEF Unwritten
<1>8. CASE ~ known /\ files = [disk EXCEPT !.topics = "torn"]
  BY <1>1, <1>8, TornFacts DEF Unwritten
<1>9. CASE files = d
  BY <1>3, <1>9 DEF Unwritten, TopicListed
<1>10. CASE files = [d EXCEPT !.torn = TRUE]
  BY <1>3, <1>10, TornFacts DEF Unwritten, TopicListed
<1>11. CASE files = e
  BY <1>3, <1>5, <1>11 DEF RecordOnly
<1>12. CASE files = [e EXCEPT !.tornIdem = @ \cup {p}]
  BY <1>3, <1>5, <1>12, TornFacts DEF RecordOnly
<1>13. CASE files = Stored(p, s)
  BY <1>13, StoredFacts
<1> QED
  BY <1>6, <1>7, <1>8, <1>9, <1>10, <1>11, <1>12, <1>13

-----------------------------------------------------------------------------
(* IdempotencyState::resolve: the entry decides which sequence is next, and *)
(* a missing entry counts as -1.                                            *)
LEMMA EntryFacts ==
    ASSUME NEW e \in Entry
    PROVE  /\ e.sequence \in Int /\ e.sequence >= -1 /\ e.offset \in Int
           /\ e # None => e.sequence \in Sequence /\ e.sequence \in Nat /\ e.offset \in Nat
           /\ e = None => e.sequence = -1
<1>1. None.sequence = -1 /\ None.offset = -1
  BY DEF None
<1>2. Sequence \subseteq Nat
  BY StoreAssumption DEF Sequence
<1>3. CASE e = None
  BY <1>1, <1>3
<1>4. CASE e # None
  <2>1. e \in [sequence : Sequence, offset : Nat]
    BY <1>4 DEF Entry
  <2>2. e.sequence \in Sequence /\ e.offset \in Nat
    BY <2>1
  <2>3. e.sequence \in Nat
    BY <1>2, <2>2
  <2>4. e.sequence \in Int /\ e.sequence >= -1 /\ e.offset \in Int
    BY <2>2, <2>3
  <2> QED
    BY <1>4, <2>2, <2>3, <2>4
<1> QED
  BY <1>3, <1>4

LEMMA ResolveFacts ==
    ASSUME TypeInv, NEW p \in Producer, NEW s \in Sequence
    PROVE  /\ resolve(p, s) = "append" => s = idem[p].sequence + 1
           /\ resolve(p, s) = "return" => idem[p] # None /\ s = idem[p].sequence
<1>1. idem[p] \in Entry
  BY DEF TypeInv
<1>2. idem[p].sequence \in Int /\ (idem[p] = None => idem[p].sequence = -1) /\ s \in Int
  BY <1>1, EntryFacts, StoreAssumption DEF Sequence
<1>3. CASE idem[p] = None
  BY <1>2, <1>3 DEF resolve
<1>4. CASE idem[p] # None
  <2>1. resolve(p, s) = CASE s = idem[p].sequence     -> "return"
                          [] s = idem[p].sequence + 1 -> "append"
                          [] OTHER                    -> "error"
    BY <1>4 DEF resolve
  <2>2. CASE s = idem[p].sequence
    BY <1>2, <1>4, <2>1, <2>2
  <2>3. CASE s = idem[p].sequence + 1
    BY <1>2, <1>4, <2>1, <2>3
  <2>4. CASE s # idem[p].sequence /\ s # idem[p].sequence + 1
    BY <2>1, <2>4
  <2> QED
    BY <2>2, <2>3, <2>4
<1> QED
  BY <1>3, <1>4

(* fetch: the records of the batch are some of those from the position, or  *)
(* from base_offset, on, without a gap.                                     *)
LEMMA FetchFacts ==
    ASSUME TypeInv, fetch_log
    PROVE  \E start, end \in Nat :
              /\ start + 1 <= end /\ end <= Len(log.records)
              /\ log.base + start = IF position > log.base THEN position ELSE log.base
              /\ seen' = seen \cup {log.records[i] : i \in start + 1 .. end}
              /\ position' = log.base + end
<1> DEFINE n     == Len(log.records)
           start == (IF position > log.base THEN position ELSE log.base) - log.base
<1>1. /\ log.base \in Nat /\ log.records \in Seq(Record) /\ n \in Nat /\ position \in Nat
      /\ \A i \in 1 .. n : log.records[i].offset = log.base + i - 1
  BY DEF TypeInv, Log, Contiguous
<1>2. PICK batch \in Batches(log, position) :
         /\ batch # <<>>
         /\ seen' = seen \cup Range(batch)
         /\ position' = batch[Len(batch)].offset + 1
  BY DEF fetch_log
<1>3. start \in Nat /\ log.base + start = IF position > log.base THEN position ELSE log.base
  BY <1>1
<1>4. PICK end \in start + 1 .. n : batch = SubSeq(log.records, start + 1, end)
  BY <1>2 DEF Batches
<1> HIDE DEF start, n
<1>5. end \in Nat /\ start + 1 <= end /\ end <= n
  BY <1>1, <1>3, <1>4
<1>6. /\ DOMAIN batch = 1 .. end - start
      /\ Len(batch) = end - start
      /\ \A i \in 1 .. end - start : batch[i] = log.records[start + i]
  <2>1. PICK r : r = log.records
    OBVIOUS
  <2>2. r \in Seq(Record) /\ batch = SubSeq(r, start + 1, end) /\ end <= Len(r)
    BY <1>1, <1>4, <1>5, <2>1 DEF n
  <2>3. /\ batch \in Seq(Record)
        /\ Len(batch) = end - start
        /\ \A i \in 1 .. end - start : batch[i] = r[start + i]
    BY <1>3, <1>5, <2>2
  <2> QED
    BY <2>1, <2>3
<1>7. Range(batch) = {log.records[i] : i \in start + 1 .. end}
  <2>1. Range(batch) = {batch[i] : i \in 1 .. end - start}
    BY <1>6 DEF Range
  <2>2. ASSUME NEW i \in 1 .. end - start
        PROVE  batch[i] \in {log.records[j] : j \in start + 1 .. end}
    BY <1>3, <1>5, <1>6
  <2>3. ASSUME NEW j \in start + 1 .. end
        PROVE  \E i \in 1 .. end - start : batch[i] = log.records[j]
    <3>1. j - start \in 1 .. end - start /\ start + (j - start) = j
      BY <1>3, <1>5
    <3> QED
      BY <1>6, <3>1
  <2> QED
    BY <2>1, <2>2, <2>3
<1>8. position' = log.base + end
  <2>1. batch[Len(batch)] = log.records[end]
    <3>1. end - start \in 1 .. end - start /\ start + (end - start) = end
      BY <1>3, <1>5
    <3> QED
      BY <1>6, <3>1
  <2>2. log.records[end].offset = log.base + end - 1
    BY <1>1, <1>3, <1>5 DEF n
  <2>3. log.base + end - 1 + 1 = log.base + end
    BY <1>1, <1>5
  <2> QED
    BY <1>2, <2>1, <2>2, <2>3
<1> QED
  BY <1>2, <1>3, <1>5, <1>7, <1>8 DEF n

(* load_logs: the log a restart ends with. *)
LEMMA RestartFacts ==
    ASSUME TypeInv
    PROVE  /\ load_logs \in Log /\ Contiguous(load_logs)
           /\ load_logs = IF disk.topics = "whole"
                          THEN Window(disk.data, Len(disk.data)) ELSE Window(<<>>, 0)
<1>1. disk.data \in Seq(Record) /\ Len(disk.data) \in 0 .. Len(disk.data)
  BY DEF TypeInv, Disk
<1>2. load_partition_log(disk.data) = Window(disk.data, Len(disk.data))
  BY <1>1, Loaded
<1>3. Window(disk.data, Len(disk.data)) \in Log /\ Contiguous(Window(disk.data, Len(disk.data)))
  BY <1>1, WindowFacts
<1>4. <<>> \in Seq(Record) /\ Len(<<>>) = 0 /\ 0 \in 0 .. 0
  OBVIOUS
<1>5. Window(<<>>, 0) \in Log /\ Contiguous(Window(<<>>, 0))
  BY <1>4, WindowFacts
<1> QED
  BY <1>2, <1>3, <1>5, WindowEmpty DEF load_logs

LEMMA NewLogFacts == NewLog \in Log /\ Contiguous(NewLog)
<1>1. <<>> \in Seq(Record) /\ Len(<<>>) = 0 /\ 0 \in 0 .. 0
  OBVIOUS
<1> QED
  BY <1>1, WindowFacts, WindowEmpty

-----------------------------------------------------------------------------
(* Every step keeps the type and the log contiguous. *)
LEMMA TypeInit == Init => TypeInv
<1> SUFFICES ASSUME Init PROVE TypeInv
  OBVIOUS
<1>1. log \in Log /\ Contiguous(log)
  BY NewLogFacts DEF Init
<1>2. None \in Entry
  BY DEF Entry
<1>3. idem \in [Producer -> Entry]
  BY <1>2 DEF Init
<1>4. disk \in Disk
  <2>1. PICK e : e = [p \in Producer |-> None]
    OBVIOUS
  <2>2. e \in [Producer -> Entry] /\ <<>> \in Seq(Record)
    BY <1>2, <2>1
  <2>3. disk = [topics |-> "none", data |-> <<>>, torn |-> FALSE, idem |-> e, tornIdem |-> {}]
    BY <2>1 DEF Init
  <2> QED
    BY <2>2, <2>3 DEF Disk
<1> QED
  BY <1>1, <1>3, <1>4 DEF Init, TypeInv

LEMMA AppendedFacts ==
    ASSUME TypeInv, NEW p \in Producer, NEW s \in Sequence
    PROVE  /\ append(log, [producer |-> p, sequence |-> s]) \in Log
           /\ Contiguous(append(log, [producer |-> p, sequence |-> s]))
           /\ append(log, [producer |-> p, sequence |-> s]).next = log.next + 1
<1>1. [producer |-> p, sequence |-> s] \in Message
  BY DEF Message
<1> QED
  BY <1>1, AppendContiguous DEF TypeInv

LEMMA DiedType ==
    ASSUME TypeInv, NEW files \in Disk, Died(files)
    PROVE  TypeInv'
<1>1. /\ up' = FALSE /\ disk' = files /\ known' = FALSE /\ log' = NewLog
      /\ idem' = [p \in Producer |-> None] /\ position' = 0 /\ crashes' = crashes + 1
      /\ UNCHANGED <<answers, seen, failures>>
  BY DEF Died
<1>2. idem' \in [Producer -> Entry]
  BY <1>1 DEF Entry
<1>3. crashes' \in Nat
  BY <1>1 DEF TypeInv
<1> QED
  BY <1>1, <1>2, <1>3, NewLogFacts DEF TypeInv

LEMMA TypeStep == TypeInv /\ [Next]_vars => TypeInv'
<1> SUFFICES ASSUME TypeInv, [Next]_vars PROVE TypeInv'
  OBVIOUS
<1> USE DEF TypeInv
<1>1. ASSUME NEW p \in Producer, NEW s \in Sequence, produce_idempotent(p, s)
      PROVE  TypeInv'
  <2>1. /\ up /\ known' = TRUE /\ log' = append(log, [producer |-> p, sequence |-> s])
        /\ idem' = [idem EXCEPT ![p] = NewEntry(s)]
        /\ disk' = Stored(p, s)
        /\ answers' = answers \cup {[producer |-> p, sequence |-> s, offset |-> log.next]}
        /\ UNCHANGED <<up, position, seen, crashes, failures>>
    BY <1>1 DEF produce_idempotent
  <2>2. log' \in Log /\ Contiguous(log')
    BY <2>1, AppendedFacts
  <2>3. disk' \in Disk
    BY <2>1, StoredFacts
  <2>4. idem' \in [Producer -> Entry]
    BY <2>1, NewFacts
  <2>5. answers' \subseteq [producer : Producer, sequence : Sequence, offset : Nat]
    <3>1. log.next \in Nat
      BY DEF Log
    <3> QED
      BY <2>1, <3>1
  <2> QED
    BY <2>1, <2>2, <2>3, <2>4, <2>5
<1>2. ASSUME NEW p \in Producer, NEW s \in Sequence, ReturnOffset(p, s)
      PROVE  TypeInv'
  <2>1. idem[p] \in Entry /\ idem[p] # None
    BY <1>2, ResolveFacts DEF ReturnOffset
  <2>2. idem[p].offset \in Nat
    BY <2>1, EntryFacts
  <2>3. answers' \subseteq [producer : Producer, sequence : Sequence, offset : Nat]
    BY <1>2, <2>2 DEF ReturnOffset
  <2>4. UNCHANGED <<up, known, log, idem, disk, position, seen, crashes, failures>>
    BY <1>2 DEF ReturnOffset
  <2> QED
    BY <2>3, <2>4
<1>3. ASSUME NEW p \in Producer, NEW s \in Sequence, ProduceFails(p, s)
      PROVE  TypeInv'
  <2>1. /\ known' = TRUE /\ failures' = failures + 1
        /\ UNCHANGED <<up, answers, position, seen, crashes>>
    BY <1>3 DEF ProduceFails
  <2>2. log' = log \/ log' = append(log, [producer |-> p, sequence |-> s])
    BY <1>3 DEF ProduceFails
  <2>3. log' \in Log /\ Contiguous(log')
    BY <2>2, AppendedFacts
  <2>4. idem' \in {idem, [idem EXCEPT ![p] = NewEntry(s)]}
    BY <1>3 DEF ProduceFails
  <2>5. idem' \in [Producer -> Entry]
    BY <2>4, NewFacts
  <2>6. disk' \in Disk
    <3>1. PICK d : d = WithTopic(disk)
      OBVIOUS
    <3>2. PICK e : e = WithRecord(d, p, s)
      OBVIOUS
    <3>3. d \in Disk
      BY <3>1, WithTopicFacts
    <3>4. e \in Disk
      BY <3>2, <3>3, WithRecordFacts
    <3>5. disk' \in {disk, [disk EXCEPT !.topics = "torn"], d, [d EXCEPT !.torn = TRUE],
                     e, [e EXCEPT !.tornIdem = @ \cup {p}]}
      BY <1>3, <3>1, <3>2 DEF ProduceFails
    <3>6. /\ [disk EXCEPT !.topics = "torn"] \in Disk /\ [d EXCEPT !.torn = TRUE] \in Disk
          /\ [e EXCEPT !.tornIdem = @ \cup {p}] \in Disk
      BY <3>3, <3>4, TornFacts DEF TypeInv
    <3>7. disk \in Disk
      BY DEF TypeInv
    <3> QED
      BY <3>3, <3>4, <3>5, <3>6, <3>7
  <2>7. failures' \in Nat
    BY <2>1
  <2> QED
    BY <2>1, <2>3, <2>5, <2>6, <2>7
<1>4. ASSUME NEW p \in Producer, NEW s \in Sequence, CrashDuringProduce(p, s)
      PROVE  TypeInv'
  <2>1. PICK files \in Interrupted(p, s) : Died(files)
    BY <1>4 DEF CrashDuringProduce
  <2>2. files \in Disk
    BY <2>1, InterruptedFacts
  <2> QED
    BY <2>1, <2>2, DiedType
<1>5. ASSUME fetch_log
      PROVE  TypeInv'
  <2>1. PICK start, end \in Nat :
           /\ start + 1 <= end /\ end <= Len(log.records)
           /\ seen' = seen \cup {log.records[i] : i \in start + 1 .. end}
           /\ position' = log.base + end
    BY <1>5, FetchFacts
  <2>2. log.base \in Nat /\ log.records \in Seq(Record)
    BY DEF Log
  <2>3. \A i \in start + 1 .. end : log.records[i] \in Record
    BY <2>1, <2>2
  <2>4. up /\ UNCHANGED <<up, known, log, idem, disk, answers, crashes, failures>>
    BY <1>5 DEF fetch_log
  <2>5. position' \in Nat /\ seen' \subseteq Record
    BY <2>1, <2>2, <2>3
  <2> QED
    BY <2>4, <2>5
<1>6. ASSUME Crash
      PROVE  TypeInv'
  BY <1>6, DiedType DEF Crash
<1>7. ASSUME Restart
      PROVE  TypeInv'
  <2>1. /\ up' = TRUE /\ known' = (disk.topics = "whole") /\ log' = load_logs
        /\ idem' = disk.idem
        /\ UNCHANGED <<disk, answers, position, seen, crashes, failures>>
    BY <1>7 DEF Restart
  <2>2. log' \in Log /\ Contiguous(log')
    BY <2>1, RestartFacts
  <2>3. idem' \in [Producer -> Entry]
    BY <2>1 DEF Disk
  <2> QED
    BY <2>1, <2>2, <2>3
<1>8. CASE UNCHANGED vars
  BY <1>8 DEF vars
<1> QED
  BY <1>1, <1>2, <1>3, <1>4, <1>5, <1>6, <1>7, <1>8 DEF Next

(* What the invariant is made of, for every behaviour. *)
THEOREM TypeInvCorrect == Spec => []TypeInv
BY TypeInit, TypeStep, PTL DEF Spec

(* The state keeps its type: the offsets that retention computes from the   *)
(* records it keeps are natural numbers, and a reload yields a log.         *)
THEOREM TypeCorrect == Spec => []TypeOK
<1>1. TypeInv => TypeOK
  BY DEF TypeInv, TypeOK, Log
<1> QED
  BY <1>1, TypeInvCorrect, PTL

(* LogIsContiguous: after any appends, evictions, crashes, failed writes    *)
(* and reloads, the records kept are the last ones at consecutive offsets.  *)
THEOREM LogIsContiguousCorrect == Spec => []LogIsContiguous
<1>1. TypeInv => LogIsContiguous
  BY DEF TypeInv, Contiguous, LogIsContiguous
<1> QED
  BY <1>1, TypeInvCorrect, PTL

(* FetchSkipsOnlyEvicted: no fetch moves a consumer past a record it was    *)
(* not given, unless retention had dropped the record.                      *)
THEOREM FetchSkipsOnlyEvictedCorrect == Spec => FetchSkipsOnlyEvicted
<1> DEFINE Skips == \A offset \in position .. position' - 1 :
                       \/ offset < log.base
                       \/ \E record \in seen' : record.offset = offset
<1>1. ASSUME TypeInv, [Next]_vars PROVE Skips
  <2>1. CASE fetch_log
    <3>1. PICK start, end \in Nat :
             /\ start + 1 <= end /\ end <= Len(log.records)
             /\ log.base + start = IF position > log.base THEN position ELSE log.base
             /\ seen' = seen \cup {log.records[i] : i \in start + 1 .. end}
             /\ position' = log.base + end
      BY <1>1, <2>1, FetchFacts
    <3>2. /\ log.base \in Nat /\ position \in Nat /\ Len(log.records) \in Nat
          /\ \A i \in 1 .. Len(log.records) : log.records[i].offset = log.base + i - 1
      BY <1>1 DEF TypeInv, Log, Contiguous
    <3>3. ASSUME NEW offset \in position .. position' - 1, ~ (offset < log.base)
          PROVE  \E record \in seen' : record.offset = offset
      <4>0. /\ offset \in Int /\ position <= offset /\ offset <= log.base + end - 1
            /\ log.base <= offset
        <5>1. position' = log.base + end
          BY <3>1
        <5> QED
          BY <3>2, <3>3, <5>1
      <4>a. log.base + start <= offset
        BY <3>1, <3>2, <4>0
      <4>1. PICK i \in Int : i = offset - log.base + 1
        BY <3>2, <4>0
      <4>2. i \in start + 1 .. end /\ i \in 1 .. Len(log.records) /\ log.base + i - 1 = offset
        <5>0. log.base \in Nat /\ start \in Nat /\ end \in Nat
          BY <3>1, <3>2
        <5>1. start + 1 <= i /\ i <= end /\ 1 <= i /\ log.base + i - 1 = offset
          BY <4>0, <4>a, <4>1, <5>0
        <5>2. end <= Len(log.records)
          BY <3>1
        <5> QED
          BY <3>2, <5>1, <5>2
      <4>3. log.records[i] \in seen' /\ log.records[i].offset = offset
        BY <3>1, <3>2, <4>2
      <4> QED
        BY <4>3
    <3> QED
      BY <3>3
  <2>2. CASE position' \in {position, 0}
    <3>1. position \in Nat
      BY <1>1 DEF TypeInv
    <3>2. \A offset \in position .. position' - 1 : FALSE
      <4>1. CASE position' = position
        BY <3>1, <4>1
      <4>2. CASE position' = 0
        BY <3>1, <4>2
      <4> QED
        BY <2>2, <4>1, <4>2
    <3> QED
      BY <3>2
  <2>3. fetch_log \/ position' \in {position, 0}
    BY <1>1 DEF Next, vars, produce_idempotent, ReturnOffset, ProduceFails,
                CrashDuringProduce, Crash, Died, Restart
  <2> QED
    BY <2>1, <2>2, <2>3
<1>2. TypeInv /\ [Next]_vars => [Skips]_vars
  BY <1>1
<1> QED
  BY <1>2, TypeInvCorrect, PTL DEF Spec, FetchSkipsOnlyEvicted

-----------------------------------------------------------------------------
(* One more record in the file: what it does to the parts of FileInv. *)
LEMMA DataFacts ==
    ASSUME NEW data \in Seq(Record), NEW r \in Record
    PROVE  /\ Append(data, r) \in Seq(Record)
           /\ Len(data) \in Nat
           /\ Len(Append(data, r)) = Len(data) + 1
           /\ \A i \in 1 .. Len(data) : Append(data, r)[i] = data[i] /\ data[i] \in Record
           /\ Append(data, r)[Len(data) + 1] = r
           /\ Messages(Append(data, r)) = Messages(data) \cup {r.message}
<1>1. /\ Append(data, r) \in Seq(Record)
      /\ Len(data) \in Nat
      /\ Len(Append(data, r)) = Len(data) + 1
      /\ \A i \in 1 .. Len(data) : Append(data, r)[i] = data[i] /\ data[i] \in Record
      /\ Append(data, r)[Len(data) + 1] = r
  OBVIOUS
<1> DEFINE new == Append(data, r)
           n   == Len(data)
<1> HIDE DEF new, n
<1>2. /\ n \in Nat /\ Len(new) = n + 1
      /\ (\A i \in 1 .. n : new[i] = data[i]) /\ new[n + 1] = r
  BY <1>1 DEF new, n
<1>3. 1 .. n + 1 = (1 .. n) \cup {n + 1}
  BY <1>2
<1>4. {new[i].message : i \in 1 .. n + 1} = {data[i].message : i \in 1 .. n} \cup {r.message}
  BY <1>2, <1>3
<1>5. Messages(new) = Messages(data) \cup {r.message}
  BY <1>2, <1>4 DEF Messages, n
<1> QED
  BY <1>1, <1>5 DEF new

LEMMA OfProducerGrows ==
    ASSUME NEW data \in Seq(Record), NEW r \in Record, NEW q
    PROVE  /\ \A i \in 0 .. Len(data) :
                 OfProducer(Append(data, r), q, i) = OfProducer(data, q, i)
           /\ OfProducer(Append(data, r), q, Len(data) + 1) =
                 OfProducer(data, q, Len(data)) \cup
                    (IF r.message.producer = q THEN {Len(data) + 1} ELSE {})
<1> DEFINE new == Append(data, r)
           n   == Len(data)
<1>1. /\ n \in Nat
      /\ (\A i \in 1 .. n : new[i] = data[i]) /\ new[n + 1] = r
  BY DataFacts
<1> HIDE DEF new, n
<1>2. ASSUME NEW i \in 0 .. n
      PROVE  OfProducer(new, q, i) = OfProducer(data, q, i)
  <2>1. \A j \in 1 .. i : new[j] = data[j]
    BY <1>1
  <2> QED
    BY <2>1 DEF OfProducer
<1>3. 1 .. n + 1 = (1 .. n) \cup {n + 1}
  BY <1>1
<1>4. OfProducer(new, q, n + 1) =
         {j \in 1 .. n : new[j].message.producer = q} \cup
            (IF r.message.producer = q THEN {n + 1} ELSE {})
  BY <1>1, <1>3 DEF OfProducer
<1>5. {j \in 1 .. n : new[j].message.producer = q} = OfProducer(data, q, n)
  BY <1>1 DEF OfProducer
<1> QED
  BY <1>2, <1>4, <1>5 DEF new, n

(* The record is the next one of p; the entry follows or it does not. *)
Grows(d, e, p, r) ==
    /\ e.data = Append(d.data, r)
    /\ r.message = NextMessage(d, p)
    /\ e.idem \in [Producer -> Entry]
    /\ \A q \in Producer \ {p} : e.idem[q] = d.idem[q]

Enters(d, e, p) == e.idem[p] = [sequence |-> d.idem[p].sequence + 1, offset |-> Len(d.data)]

LEMMA GrownSequences ==
    ASSUME NEW d \in Disk, NEW e \in Disk, NEW p \in Producer, NEW r \in Record,
           Grows(d, e, p, r), e.idem[p] = d.idem[p] \/ Enters(d, e, p)
    PROVE  /\ d.data \in Seq(Record) /\ d.idem \in [Producer -> Entry]
           /\ \A q \in Producer : d.idem[q].sequence \in Int /\ e.idem[q].sequence \in Int
           /\ \A q \in Producer : d.idem[q].sequence <= e.idem[q].sequence
           /\ r.message.producer = p /\ r.message.sequence = d.idem[p].sequence + 1
           /\ r.message.sequence \in Nat
           /\ \A q \in Producer \ {p} : NextMessage(e, q) = NextMessage(d, q)
<1>1. d.data \in Seq(Record) /\ d.idem \in [Producer -> Entry] /\ e.idem \in [Producer -> Entry]
  BY DEF Disk
<1>2. \A q \in Producer : d.idem[q].sequence \in Int /\ e.idem[q].sequence \in Int
  BY <1>1, EntryFacts
<1>3. r.message.producer = p /\ r.message.sequence = d.idem[p].sequence + 1
  BY DEF Grows, NextMessage
<1>4. r.message.sequence \in Nat
  BY StoreAssumption DEF Record, Message, Sequence
<1>5. \A q \in Producer \ {p} : e.idem[q] = d.idem[q]
  BY DEF Grows
<1>6. e.idem[p].sequence \in {d.idem[p].sequence, d.idem[p].sequence + 1}
  BY DEF Enters
<1>7. d.idem[p].sequence <= e.idem[p].sequence
  BY <1>2, <1>6
<1>8. \A q \in Producer : d.idem[q].sequence <= e.idem[q].sequence
  BY <1>2, <1>5, <1>7
<1> QED
  BY <1>1, <1>2, <1>3, <1>4, <1>5, <1>8 DEF NextMessage

LEMMA HoldsGrows ==
    ASSUME NEW data \in Seq(Record), NEW r \in Record, NEW offset \in Nat, NEW p, NEW s,
           Holds(data, offset, p, s)
    PROVE  Holds(Append(data, r), offset, p, s)
<1>1. Len(data) \in Nat /\ offset < Len(data)
  BY DEF Holds
<1>2. offset + 1 \in 1 .. Len(data) /\ offset < Len(data) + 1
  BY <1>1
<1>3. Len(Append(data, r)) = Len(data) + 1 /\ Append(data, r)[offset + 1] = data[offset + 1]
  BY <1>2, DataFacts
<1> QED
  BY <1>2, <1>3 DEF Holds

LEMMA EntriesGrow ==
    ASSUME NEW d \in Disk, NEW e \in Disk, NEW p \in Producer, NEW r \in Record,
           Grows(d, e, p, r), e.idem[p] = d.idem[p] \/ Enters(d, e, p), EntriesHold(d)
    PROVE  EntriesHold(e)
<1> SUFFICES ASSUME NEW q \in Producer, e.idem[q] # None
             PROVE  Holds(e.data, e.idem[q].offset, q, e.idem[q].sequence)
  BY DEF EntriesHold
<1>0. d.data \in Seq(Record) /\ d.idem \in [Producer -> Entry] /\ e.data = Append(d.data, r)
  BY DEF Disk, Grows
<1>1. CASE e.idem[q] = d.idem[q]
  <2>1. Holds(d.data, d.idem[q].offset, q, d.idem[q].sequence)
    BY <1>1 DEF EntriesHold
  <2>2. d.idem[q].offset \in Nat
    BY <1>0, <1>1, EntryFacts
  <2>3. Holds(e.data, d.idem[q].offset, q, d.idem[q].sequence)
    BY <1>0, <2>1, <2>2, HoldsGrows
  <2> QED
    BY <1>1, <2>3
<1>2. CASE e.idem[q] # d.idem[q]
  <2>1. q = p /\ Enters(d, e, p)
    BY <1>2 DEF Grows
  <2>2. /\ Len(d.data) \in Nat /\ Len(e.data) = Len(d.data) + 1
        /\ e.data[Len(d.data) + 1] = r
    BY <1>0, DataFacts
  <2>3. r.message = [producer |-> p, sequence |-> d.idem[p].sequence + 1]
    BY DEF Grows, NextMessage
  <2>4. e.idem[q].offset = Len(d.data) /\ e.idem[q].sequence = d.idem[p].sequence + 1
    BY <2>1 DEF Enters
  <2>5. Len(d.data) < Len(e.data)
    BY <2>2
  <2> QED
    BY <2>1, <2>2, <2>3, <2>4, <2>5 DEF Holds
<1> QED
  BY <1>1, <1>2

LEMMA BoundGrows ==
    ASSUME NEW d \in Disk, NEW e \in Disk, NEW p \in Producer, NEW r \in Record,
           Grows(d, e, p, r), e.idem[p] = d.idem[p] \/ Enters(d, e, p), Bounded(d)
    PROVE  Bounded(e)
<1> SUFFICES ASSUME NEW m \in Messages(e.data)
             PROVE  m.sequence <= e.idem[m.producer].sequence + 1
  BY DEF Bounded
<1>0. /\ d.data \in Seq(Record)
      /\ \A q \in Producer : d.idem[q].sequence \in Int /\ e.idem[q].sequence \in Int
      /\ \A q \in Producer : d.idem[q].sequence <= e.idem[q].sequence
      /\ r.message.producer = p /\ r.message.sequence = d.idem[p].sequence + 1
  BY GrownSequences
<1>1. m \in Messages(d.data) \/ m = r.message
  BY <1>0, DataFacts DEF Grows
<1>2. CASE m \in Messages(d.data)
  <2>1. m \in Message
    <3>1. PICK i \in 1 .. Len(d.data) : m = d.data[i].message
      BY <1>2 DEF Messages
    <3>2. d.data[i] \in Record
      BY <1>0
    <3> QED
      BY <3>1, <3>2 DEF Record
  <2>2. m.producer \in Producer /\ m.sequence \in Int
    BY <2>1, StoreAssumption DEF Message, Sequence
  <2>3. m.sequence <= d.idem[m.producer].sequence + 1
    BY <1>2 DEF Bounded
  <2> QED
    BY <1>0, <2>2, <2>3
<1>3. CASE m = r.message
  BY <1>0, <1>3
<1> QED
  BY <1>1, <1>2, <1>3

LEMMA OrderGrows ==
    ASSUME NEW d \in Disk, NEW e \in Disk, NEW p \in Producer, NEW r \in Record,
           Grows(d, e, p, r), Ordered(d), LastStored(d),
           e.idem[p] = d.idem[p] \/ Enters(d, e, p)
    PROVE  Ordered(e)
<1> SUFFICES ASSUME NEW i \in 1 .. Len(e.data) PROVE Follows(e.data, i)
  BY DEF Ordered
<1> DEFINE n == Len(d.data)
<1>0. /\ d.data \in Seq(Record) /\ e.data = Append(d.data, r)
      /\ r.message.producer = p /\ r.message.sequence = d.idem[p].sequence + 1
      /\ d.idem[p].sequence \in Int
  BY GrownSequences DEF Grows
<1>1. /\ n \in Nat /\ Len(e.data) = n + 1 /\ e.data[n + 1] = r
      /\ \A j \in 1 .. n : e.data[j] = d.data[j] /\ d.data[j] \in Record
  BY <1>0, DataFacts
<1>2. \A q : \A j \in 0 .. n : OfProducer(e.data, q, j) = OfProducer(d.data, q, j)
  BY <1>0, OfProducerGrows
<1> HIDE DEF n
<1>3. CASE i <= n
  <2>1. i - 1 \in 0 .. n /\ i \in 1 .. n /\ \A j \in 1 .. i - 1 : j \in 1 .. n
    BY <1>1, <1>3
  <2>2. Follows(d.data, i)
    BY <2>1 DEF Ordered, n
  <2>3. e.data[i] = d.data[i]
    BY <1>1, <2>1
  <2>4. OfProducer(e.data, e.data[i].message.producer, i - 1)
        = OfProducer(d.data, d.data[i].message.producer, i - 1)
    BY <1>2, <2>1, <2>3
  <2>5. \A j \in OfProducer(d.data, d.data[i].message.producer, i - 1) : e.data[j] = d.data[j]
    BY <1>1, <2>1 DEF OfProducer
  <2> QED
    BY <2>2, <2>3, <2>4, <2>5 DEF Follows
<1>4. CASE i = n + 1
  <2>1. e.data[i] = r /\ i - 1 = n /\ n \in 0 .. n
    BY <1>1, <1>4
  <2>2. PICK own : own = OfProducer(d.data, p, n)
    OBVIOUS
  <2>3. OfProducer(e.data, r.message.producer, i - 1) = own
    BY <1>0, <1>2, <2>1, <2>2
  <2>4. \/ own = {} /\ d.idem[p].sequence = -1
        \/ \E j \in own :
              /\ \A k \in own : k <= j
              /\ \/ d.data[j].message.sequence = d.idem[p].sequence
                 \/ d.data[j].message.sequence = d.idem[p].sequence + 1
    BY <2>2 DEF LastStored, n
  <2>5. CASE own = {} /\ d.idem[p].sequence = -1
    <3>1. r.message.sequence = 0
      BY <1>0, <2>5
    <3> QED
      BY <2>1, <2>3, <2>5, <3>1 DEF Follows
  <2>6. ASSUME NEW j \in own, \A k \in own : k <= j,
               \/ d.data[j].message.sequence = d.idem[p].sequence
               \/ d.data[j].message.sequence = d.idem[p].sequence + 1
        PROVE  Follows(e.data, i)
    <3>1. j \in 1 .. n /\ d.data[j].message.producer = p
      BY <2>2 DEF OfProducer
    <3>2. e.data[j] = d.data[j] /\ d.data[j] \in Record
      BY <1>1, <3>1
    <3>3. d.data[j].message \in Message /\ r.message \in Message
      BY <3>2 DEF Record
    <3>4. \/ r.message.sequence = d.data[j].message.sequence + 1
          \/ r.message.sequence = d.data[j].message.sequence
      BY <1>0, <2>6
    <3>5. r.message.sequence = d.data[j].message.sequence => r.message = d.data[j].message
      BY <1>0, <3>1, <3>3 DEF Message
    <3>6. r.message = e.data[j].message \/ r.message.sequence = e.data[j].message.sequence + 1
      BY <3>2, <3>4, <3>5
    <3> QED
      BY <2>1, <2>3, <2>6, <3>6 DEF Follows
  <2> QED
    BY <2>4, <2>5, <2>6
<1> QED
  BY <1>1, <1>3, <1>4

LEMMA LastGrows ==
    ASSUME NEW d \in Disk, NEW e \in Disk, NEW p \in Producer, NEW r \in Record,
           Grows(d, e, p, r), LastStored(d),
           e.idem[p] = d.idem[p] \/ Enters(d, e, p)
    PROVE  LastStored(e)
<1> DEFINE n == Len(d.data)
           Last(own, data, s) ==
              \/ own = {} /\ s = -1
              \/ \E j \in own :
                    /\ \A k \in own : k <= j
                    /\ \/ data[j].message.sequence = s
                       \/ data[j].message.sequence = s + 1
<1>0. /\ d.data \in Seq(Record) /\ e.data = Append(d.data, r)
      /\ r.message.producer = p /\ r.message.sequence = d.idem[p].sequence + 1
      /\ d.idem[p].sequence \in Int
  BY GrownSequences DEF Grows
<1>1. /\ n \in Nat /\ Len(e.data) = n + 1 /\ e.data[n + 1] = r
      /\ \A j \in 1 .. n : e.data[j] = d.data[j]
  BY <1>0, DataFacts
<1>2. \A q : OfProducer(e.data, q, n + 1) =
                OfProducer(d.data, q, n) \cup (IF p = q THEN {n + 1} ELSE {})
  <2> SUFFICES ASSUME NEW q
               PROVE  OfProducer(e.data, q, n + 1) =
                         OfProducer(d.data, q, n) \cup (IF p = q THEN {n + 1} ELSE {})
    OBVIOUS
  <2>0. PICK data \in Seq(Record) : data = d.data
    BY <1>0
  <2>a. OfProducer(Append(data, r), q, Len(data) + 1) =
           OfProducer(data, q, Len(data)) \cup
              (IF r.message.producer = q THEN {Len(data) + 1} ELSE {})
    BY OfProducerGrows
  <2>1. OfProducer(Append(d.data, r), q, n + 1) =
           OfProducer(d.data, q, n) \cup (IF r.message.producer = q THEN {n + 1} ELSE {})
    BY <2>0, <2>a
  <2> QED
    BY <1>0, <2>1
<1>3. SUFFICES ASSUME NEW q \in Producer
               PROVE  Last(OfProducer(e.data, q, n + 1), e.data, e.idem[q].sequence)
  BY <1>1 DEF LastStored
<1>4. Last(OfProducer(d.data, q, n), d.data, d.idem[q].sequence)
  BY DEF LastStored
<1> HIDE DEF n
<1>5. CASE q # p
  <2>1. OfProducer(e.data, q, n + 1) = OfProducer(d.data, q, n) /\ e.idem[q] = d.idem[q]
    BY <1>2, <1>5 DEF Grows
  <2>2. \A j \in OfProducer(d.data, q, n) : e.data[j] = d.data[j]
    BY <1>1 DEF OfProducer
  <2> QED
    BY <1>4, <2>1, <2>2
<1>6. CASE q = p
  <2>1. n + 1 \in OfProducer(e.data, q, n + 1)
    BY <1>2, <1>6
  <2>2. \A k \in OfProducer(e.data, q, n + 1) : k <= n + 1
    BY <1>1 DEF OfProducer
  <2>3. \/ e.data[n + 1].message.sequence = e.idem[p].sequence
        \/ e.data[n + 1].message.sequence = e.idem[p].sequence + 1
    BY <1>0, <1>1 DEF Enters
  <2> QED
    BY <1>6, <2>1, <2>2, <2>3
<1> QED
  BY <1>5, <1>6

LEMMA CopiesGrow ==
    ASSUME NEW d \in Disk, NEW e \in Disk, NEW p \in Producer, NEW r \in Record,
           Grows(d, e, p, r), Bounded(d), NEW n \in Nat, NEW m \in Nat, CopiesCounted(d, n),
           \/ e.idem[p] = d.idem[p] /\ m = n + 1
           \/ Enters(d, e, p) /\ n <= m
    PROVE  CopiesCounted(e, m)
<1> DEFINE M == Messages(d.data)
           U == Unentered(d)
           new == r.message
<1>0. /\ d.data \in Seq(Record) /\ e.data = Append(d.data, r)
      /\ new.producer = p /\ new.sequence = d.idem[p].sequence + 1
      /\ d.idem[p].sequence \in Int
      /\ \A q \in Producer \ {p} : NextMessage(e, q) = NextMessage(d, q)
  BY GrownSequences DEF Grows
<1>1. /\ Len(d.data) \in Nat /\ Len(e.data) = Len(d.data) + 1
      /\ Messages(e.data) = M \cup {new}
  BY <1>0, DataFacts
<1>2. /\ IsFiniteSet(M) /\ Cardinality(M) \in Nat
      /\ IsFiniteSet(M \cup {new})
      /\ Cardinality(M \cup {new}) = IF new \in M THEN Cardinality(M) ELSE Cardinality(M) + 1
  BY FS_AddElement, FS_CardinalityType DEF CopiesCounted
<1>3. IsFiniteSet(U) /\ Cardinality(U) \in Nat
  <2>1. U \in SUBSET Producer
    BY DEF Unentered
  <2> QED
    BY <2>1, StoreAssumption, FS_Subset, FS_CardinalityType
<1>4. Len(d.data) + Cardinality(U) <= n + Cardinality(M)
  BY DEF CopiesCounted
<1>5. new = NextMessage(d, p) /\ (p \in U <=> new \in M)
  BY DEF Grows, Unentered
<1>6. \A q \in Producer \ {p} : q \in Unentered(e) <=> q \in U
  <2> SUFFICES ASSUME NEW q \in Producer \ {p}
               PROVE  NextMessage(d, q) \in M \cup {new} <=> NextMessage(d, q) \in M
    BY <1>0, <1>1 DEF Unentered
  <2>1. NextMessage(d, q) # new
    BY <1>0 DEF NextMessage
  <2> QED
    BY <2>1
<1>7. U \subseteq Producer /\ Unentered(e) \subseteq Producer
  BY DEF Unentered
<1> HIDE DEF M, U, new
<1>8. CASE e.idem[p] = d.idem[p] /\ m = n + 1
  <2>1. NextMessage(e, p) = new
    BY <1>5, <1>8 DEF NextMessage
  <2>2. p \in Unentered(e)
    BY <1>1, <2>1 DEF Unentered
  <2>3. Unentered(e) = U \cup {p}
    BY <1>6, <1>7, <2>2
  <2>4. Cardinality(U \cup {p}) = IF p \in U THEN Cardinality(U) ELSE Cardinality(U) + 1
    BY <1>3, FS_AddElement
  <2>5. Len(d.data) + 1 + Cardinality(U \cup {p}) <= m + Cardinality(M \cup {new})
    <3>1. CASE p \in U
      <4>1. Cardinality(U \cup {p}) = Cardinality(U)
            /\ Cardinality(M \cup {new}) = Cardinality(M)
        BY <1>2, <1>5, <2>4, <3>1
      <4> QED
        BY <1>1, <1>2, <1>3, <1>4, <1>8, <4>1
    <3>2. CASE p \notin U
      <4>1. Cardinality(U \cup {p}) = Cardinality(U) + 1
            /\ Cardinality(M \cup {new}) = Cardinality(M) + 1
        BY <1>2, <1>5, <2>4, <3>2
      <4> QED
        BY <1>1, <1>2, <1>3, <1>4, <1>8, <4>1
    <3> QED
      BY <3>1, <3>2
  <2> QED
    BY <1>1, <1>2, <2>3, <2>5 DEF CopiesCounted
<1>9. CASE Enters(d, e, p) /\ n <= m
  <2>1. p \notin Unentered(e)
    <3>1. SUFFICES ASSUME NextMessage(e, p) \in M \cup {new} PROVE FALSE
      BY <1>1 DEF Unentered
    <3>2. NextMessage(e, p).producer = p /\ NextMessage(e, p).sequence = d.idem[p].sequence + 1 + 1
      BY <1>9 DEF NextMessage, Enters
    <3>3. NextMessage(e, p) \in M
      BY <1>0, <3>1, <3>2
    <3>4. NextMessage(e, p).sequence <= d.idem[p].sequence + 1
      BY <3>2, <3>3 DEF Bounded, M
    <3> QED
      BY <1>0, <3>2, <3>4
  <2>2. Unentered(e) = U \ {p}
    BY <1>6, <1>7, <2>1
  <2>3. Cardinality(U \ {p}) = IF p \in U THEN Cardinality(U) - 1 ELSE Cardinality(U)
    BY <1>3, FS_RemoveElement
  <2>4. Len(d.data) + 1 + Cardinality(U \ {p}) <= m + Cardinality(M \cup {new})
    BY <1>1, <1>2, <1>3, <1>4, <1>5, <1>9, <2>3
  <2> QED
    BY <1>1, <1>2, <2>2, <2>4 DEF CopiesCounted
<1> QED
  BY <1>8, <1>9

LEMMA FileGrows ==
    ASSUME NEW d \in Disk, NEW e \in Disk, NEW p \in Producer, NEW r \in Record,
           Grows(d, e, p, r), NEW n \in Nat, NEW m \in Nat, FileInv(d, n),
           \/ e.idem[p] = d.idem[p] /\ m = n + 1
           \/ Enters(d, e, p) /\ n <= m
    PROVE  FileInv(e, m)
<1>1. e.idem[p] = d.idem[p] \/ Enters(d, e, p)
  OBVIOUS
<1>2. EntriesHold(d) /\ LastStored(d) /\ Ordered(d) /\ Bounded(d) /\ CopiesCounted(d, n)
  BY DEF FileInv
<1>3. EntriesHold(e)
  BY <1>1, <1>2, EntriesGrow
<1>4. LastStored(e)
  BY <1>1, <1>2, LastGrows
<1>5. Ordered(e)
  BY <1>1, <1>2, OrderGrows
<1>6. Bounded(e)
  BY <1>1, <1>2, BoundGrows
<1>7. CopiesCounted(e, m)
  BY <1>2, CopiesGrow
<1> QED
  BY <1>3, <1>4, <1>5, <1>6, <1>7 DEF FileInv

(* Files with the same log and entries are as good. *)
LEMMA FileSame ==
    ASSUME NEW d \in Disk, NEW e \in Disk, e.data = d.data, e.idem = d.idem,
           NEW n \in Nat, NEW m \in Nat, n <= m, FileInv(d, n)
    PROVE  FileInv(e, m)
<1>1. EntriesHold(e) /\ LastStored(e) /\ Ordered(e) /\ Bounded(e)
  BY DEF FileInv, EntriesHold, LastStored, Ordered, Bounded
<1>2. Unentered(e) = Unentered(d)
  BY DEF Unentered, NextMessage
<1>3. d.data \in Seq(Record)
  BY DEF Disk
<1>4. Unentered(d) \in SUBSET Producer
  BY DEF Unentered
<1>5. IsFiniteSet(Unentered(d))
  BY <1>4, FS_Subset, StoreAssumption
<1>6. /\ Len(d.data) \in Nat /\ Cardinality(Unentered(d)) \in Nat
      /\ Cardinality(Messages(d.data)) \in Nat
  BY <1>3, <1>5, FS_CardinalityType DEF FileInv, CopiesCounted
<1>7. CopiesCounted(e, m)
  BY <1>2, <1>6 DEF FileInv, CopiesCounted
<1> QED
  BY <1>1, <1>7 DEF FileInv

(* What was answered and what was read survives the growth of the file. *)
LEMMA AnswersGrow ==
    ASSUME NEW d \in Disk, NEW e \in Disk, NEW p \in Producer, NEW r \in Record,
           Grows(d, e, p, r), e.idem[p] = d.idem[p] \/ Enters(d, e, p),
           NEW A \in SUBSET [producer : Producer, sequence : Sequence, offset : Nat],
           AnswersHold(d, A)
    PROVE  /\ AnswersHold(e, A)
           /\ \A a \in A : a.producer = p => a.sequence < d.idem[p].sequence + 1
<1>0. /\ d.data \in Seq(Record) /\ e.data = Append(d.data, r)
      /\ \A q \in Producer : d.idem[q].sequence \in Int /\ e.idem[q].sequence \in Int
      /\ \A q \in Producer : d.idem[q].sequence <= e.idem[q].sequence
      /\ \A q \in Producer \ {p} : e.idem[q] = d.idem[q]
  BY GrownSequences DEF Grows
<1>1. ASSUME NEW a \in A
      PROVE  /\ a.producer \in Producer /\ a.sequence \in Int /\ a.offset \in Nat
             /\ Holds(d.data, a.offset, a.producer, a.sequence)
             /\ a.sequence <= d.idem[a.producer].sequence
             /\ a.sequence = d.idem[a.producer].sequence =>
                   a.offset = d.idem[a.producer].offset
  BY StoreAssumption DEF AnswersHold, Sequence
<1>2. ASSUME NEW a \in A
      PROVE  /\ Holds(e.data, a.offset, a.producer, a.sequence)
             /\ a.sequence <= e.idem[a.producer].sequence
             /\ a.sequence = e.idem[a.producer].sequence =>
                   a.offset = e.idem[a.producer].offset
  <2>1. Holds(e.data, a.offset, a.producer, a.sequence)
    BY <1>0, <1>1, HoldsGrows
  <2>2. a.sequence <= e.idem[a.producer].sequence
    BY <1>0, <1>1
  <2>3. CASE e.idem[a.producer] = d.idem[a.producer]
    BY <1>1, <2>1, <2>2, <2>3
  <2>4. CASE e.idem[a.producer] # d.idem[a.producer]
    <3>1. a.producer = p /\ Enters(d, e, p)
      BY <1>0, <1>1, <2>4
    <3>2. e.idem[a.producer].sequence = d.idem[a.producer].sequence + 1
      BY <3>1 DEF Enters
    <3>3. a.sequence # e.idem[a.producer].sequence
      BY <1>0, <1>1, <3>2
    <3> QED
      BY <2>1, <2>2, <3>3
  <2> QED
    BY <2>3, <2>4
<1>3. \A a, b \in A : a.producer = b.producer /\ a.sequence = b.sequence => a.offset = b.offset
  BY DEF AnswersHold
<1>4. AnswersHold(e, A)
  BY <1>2, <1>3 DEF AnswersHold
<1>5. \A a \in A : a.producer = p => a.sequence < d.idem[p].sequence + 1
  BY <1>0, <1>1
<1> QED
  BY <1>4, <1>5

LEMMA SeenGrows ==
    ASSUME NEW d \in Disk, NEW e \in Disk, NEW r \in Record, e.data = Append(d.data, r),
           NEW S \in SUBSET Record, SeenHolds(d, S)
    PROVE  SeenHolds(e, S)
<1> SUFFICES ASSUME NEW x \in S
             PROVE  x.offset < Len(e.data) /\ e.data[x.offset + 1].message = x.message
  BY DEF SeenHolds
<1>1. d.data \in Seq(Record) /\ Len(d.data) \in Nat /\ x.offset \in Nat
  BY DEF Disk, Record
<1>2. x.offset < Len(d.data) /\ d.data[x.offset + 1].message = x.message
  BY DEF SeenHolds
<1>3. x.offset + 1 \in 1 .. Len(d.data)
  BY <1>1, <1>2
<1>4. Len(e.data) = Len(d.data) + 1 /\ e.data[x.offset + 1] = d.data[x.offset + 1]
  BY <1>1, <1>3, DataFacts
<1> QED
  BY <1>1, <1>2, <1>4

(* produce_idempotent on a broker whose memory is what its files hold. *)
LEMMA ProduceGrows ==
    ASSUME TypeInv, FilesInv, up, NEW p \in Producer, NEW s \in Sequence,
           resolve(p, s) = "append", NEW files \in Disk,
           RecordOnly(files, p, s) \/ Written(files, p, s)
    PROVE  /\ NewRecord(p, s) \in Record
           /\ Grows(disk, files, p, NewRecord(p, s))
           /\ RecordOnly(files, p, s) => files.idem[p] = disk.idem[p]
           /\ Written(files, p, s) => Enters(disk, files, p)
           /\ files.topics = "whole"
           /\ log.next = Len(disk.data)
           /\ s = disk.idem[p].sequence + 1
<1>1. /\ disk \in Disk /\ disk.idem \in [Producer -> Entry] /\ files.idem \in [Producer -> Entry]
      /\ known \in BOOLEAN
  BY DEF TypeInv, Disk
<1>2. s = disk.idem[p].sequence + 1
  BY ResolveFacts DEF FilesInv
<1>3. log.next = Len(disk.data)
  BY DEF FilesInv, Window
<1>4. NewRecord(p, s) \in Record /\ NewRecord(p, s).message = NextMessage(disk, p)
  BY <1>2, NewFacts DEF NextMessage
<1>5. files.data = Append(disk.data, NewRecord(p, s)) /\ files.topics = TopicListed
  BY DEF RecordOnly, Written
<1>6. files.topics = "whole"
  BY <1>1, <1>5 DEF TopicListed, FilesInv
<1>7. \A q \in Producer \ {p} : files.idem[q] = disk.idem[q]
  BY <1>1 DEF RecordOnly, Written
<1>8. Written(files, p, s) => Enters(disk, files, p)
  BY <1>1, <1>2, <1>3 DEF Written, Enters, NewEntry
<1>9. RecordOnly(files, p, s) => files.idem[p] = disk.idem[p]
  BY DEF RecordOnly
<1> QED
  BY <1>1, <1>2, <1>3, <1>4, <1>5, <1>6, <1>7, <1>8, <1>9 DEF Grows

-----------------------------------------------------------------------------
(* As long as no write failed: every step keeps SoundInv. *)
LEMMA SoundInit == Init => SoundInv
<1> SUFFICES ASSUME Init PROVE SoundInv
  OBVIOUS
<1>1. /\ disk.topics = "none" /\ disk.data = <<>> /\ Len(disk.data) = 0
      /\ \A p \in Producer : disk.idem[p] = None
      /\ log = NewLog /\ idem = disk.idem /\ known = FALSE
  BY DEF Init
<1>2. FilesInv
  BY <1>1, WindowEmpty DEF FilesInv
<1>3. AnswersHold(disk, answers) /\ SeenHolds(disk, seen)
  BY DEF Init, AnswersHold, SeenHolds
<1>4. position <= log.next
  BY DEF Init, NewLog
<1>5. Messages(disk.data) = {}
  BY <1>1 DEF Messages
<1>6. \A p \in Producer : OfProducer(disk.data, p, 0) = {}
  BY DEF OfProducer
<1>7. None.sequence = -1
  BY DEF None
<1>8. EntriesHold(disk) /\ LastStored(disk) /\ Ordered(disk) /\ Bounded(disk)
  BY <1>1, <1>5, <1>6, <1>7 DEF EntriesHold, LastStored, Ordered, Bounded
<1>9. Unentered(disk) = {}
  BY <1>5 DEF Unentered
<1>10. CopiesCounted(disk, crashes)
  <2>1. crashes = 0
    BY DEF Init
  <2>2. IsFiniteSet({}) /\ Cardinality({}) = 0
    BY FS_EmptySet
  <2>3. /\ IsFiniteSet(Messages(disk.data)) /\ Cardinality(Messages(disk.data)) = 0
        /\ Cardinality(Unentered(disk)) = 0
    BY <1>5, <1>9, <2>2
  <2>4. Len(disk.data) = 0
    BY <1>1
  <2> QED
    BY <2>1, <2>3, <2>4 DEF CopiesCounted
<1> QED
  BY <1>2, <1>3, <1>4, <1>8, <1>10 DEF SoundInv, SeenInv, AnswerInv, FileInv

LEMMA SoundStep == TypeInv /\ TypeInv' /\ SoundInv /\ [Next]_vars => SoundInv'
<1> SUFFICES ASSUME TypeInv, TypeInv', SoundInv, [Next]_vars, failures' = 0
             PROVE  /\ FilesInv' /\ AnswersHold(disk', answers')
                    /\ SeenHolds(disk', seen') /\ (up' => position' <= log'.next)
                    /\ FileInv(disk', crashes')
  BY DEF SoundInv, DiskSound, AnswerInv, SeenInv
<1> DEFINE Goal == /\ FilesInv' /\ AnswersHold(disk', answers')
                   /\ SeenHolds(disk', seen') /\ (up' => position' <= log'.next)
                   /\ FileInv(disk', crashes')
<1>0. /\ disk \in Disk /\ disk' \in Disk /\ disk.data \in Seq(Record) /\ Len(disk.data) \in Nat
      /\ disk.idem \in [Producer -> Entry]
      /\ crashes \in Nat /\ crashes' \in Nat /\ position \in Nat /\ log.next \in Nat
      /\ failures \in Nat /\ up \in BOOLEAN /\ known \in BOOLEAN
      /\ answers \in SUBSET [producer : Producer, sequence : Sequence, offset : Nat]
      /\ seen \in SUBSET Record
  BY DEF TypeInv, Disk, Log
(* A failed write is never forgotten. *)
<1>1. failures = 0 /\ \A p \in Producer, s \in Sequence : ~ ProduceFails(p, s)
  <2>1. \A p \in Producer, s \in Sequence : ~ ProduceFails(p, s)
    BY <1>0 DEF ProduceFails
  <2>2. ASSUME NEW p \in Producer, NEW s \in Sequence,
               produce_idempotent(p, s) \/ ReturnOffset(p, s) \/ CrashDuringProduce(p, s)
        PROVE  failures' = failures
    BY <2>2 DEF produce_idempotent, ReturnOffset, CrashDuringProduce, Died
  <2>3. fetch_log \/ Crash \/ Restart \/ UNCHANGED vars => failures' = failures
    BY DEF fetch_log, Crash, Died, Restart, vars
  <2>4. failures' = failures
    BY <2>1, <2>2, <2>3 DEF Next
  <2> QED
    BY <2>1, <2>4
<1>2. /\ FilesInv /\ AnswersHold(disk, answers)
      /\ SeenHolds(disk, seen) /\ (up => position <= log.next)
      /\ FileInv(disk, crashes)
  BY <1>1 DEF SoundInv, DiskSound, AnswerInv, SeenInv
<1>3. ASSUME NEW p \in Producer, NEW s \in Sequence, produce_idempotent(p, s)
      PROVE  Goal
  <2> DEFINE r == NewRecord(p, s)
             L == Len(disk.data)
             a == [producer |-> p, sequence |-> s, offset |-> log.next]
             message == [producer |-> p, sequence |-> s]
  <2>1. /\ up /\ up' = up /\ known' = TRUE /\ log' = append(log, message)
        /\ idem' = [idem EXCEPT ![p] = NewEntry(s)]
        /\ disk' = Stored(p, s) /\ resolve(p, s) = "append"
        /\ answers' = answers \cup {a}
        /\ position' = position /\ seen' = seen /\ crashes' = crashes
    BY <1>3 DEF produce_idempotent
  <2>2. Written(disk', p, s)
    BY <2>1, StoredFacts
  <2>3. /\ r \in Record /\ Grows(disk, disk', p, r) /\ Enters(disk, disk', p)
        /\ disk'.topics = "whole" /\ log.next = L /\ s = disk.idem[p].sequence + 1
    BY <1>0, <1>2, <2>1, <2>2, ProduceGrows
  <2>4. /\ disk'.data = Append(disk.data, r)
        /\ disk'.idem = [disk.idem EXCEPT ![p] = NewEntry(s)]
    BY <2>2 DEF Written
  <2>5. FileInv(disk', crashes')
    <3>1. crashes <= crashes'
      BY <1>0, <2>1
    <3> HIDE DEF r
    <3> QED
      BY <1>0, <1>2, <2>3, <3>1, FileGrows
  <2>6. r.message = message
    BY NewFacts
  <2>7. FilesInv'
    <3> HIDE DEF r, L
    <3>1. /\ disk'.data \in Seq(Record) /\ Len(disk'.data) = L + 1 /\ disk'.data[L + 1] = r
          /\ L \in Nat
      BY <1>0, <2>3, <2>4, DataFacts DEF L
    <3>2. log = Window(disk.data, L)
      BY <1>2, <2>1 DEF FilesInv, L
    <3>3. Window(disk.data, L) = Window(disk'.data, L)
      BY <1>0, <2>3, <2>4, WindowPrefix DEF L
    <3>4. L \in 0 .. Len(disk'.data) - 1
      BY <3>1
    <3>5. log' = Window(disk'.data, L + 1)
      BY <2>1, <2>6, <3>1, <3>2, <3>3, <3>4, WindowGrows
    <3>6. idem' = disk'.idem
      BY <1>2, <2>1, <2>4 DEF FilesInv
    <3> QED
      BY <2>1, <2>3, <3>1, <3>5, <3>6 DEF FilesInv
  <2>8. AnswersHold(disk', answers')
    <3>1. /\ AnswersHold(disk', answers)
          /\ \A b \in answers : b.producer = p => b.sequence < disk.idem[p].sequence + 1
      <4> HIDE DEF r
      <4> QED
        BY <1>0, <1>2, <2>3, AnswersGrow
    <3>2. /\ L \in Nat /\ Len(disk'.data) = L + 1 /\ disk'.data[L + 1] = r
      BY <1>0, <2>3, <2>4, DataFacts
    <3>3. /\ a.producer = p /\ a.sequence = s /\ a.offset = L
      BY <2>3
    <3>4. Holds(disk'.data, a.offset, a.producer, a.sequence)
      <4> HIDE DEF a, r, L
      <4> QED
        BY <2>6, <3>2, <3>3 DEF Holds
    <3>5. disk'.idem[p].sequence = s /\ disk'.idem[p].offset = L
      BY <2>3 DEF Enters
    <3>6. s \in Int /\ s <= s
      BY StoreAssumption DEF Sequence
    <3>7. \A b \in answers : ~ (b.producer = a.producer /\ b.sequence = a.sequence)
      <4>1. \A b \in answers : b.sequence \in Int
        BY <1>0, StoreAssumption DEF Sequence
      <4> HIDE DEF a
      <4> QED
        BY <2>3, <3>1, <3>3, <3>6, <4>1
    <3> HIDE DEF a, L
    <3> QED
      BY <2>1, <3>1, <3>3, <3>4, <3>5, <3>6, <3>7 DEF AnswersHold
  <2>9. SeenHolds(disk', seen')
    <3> HIDE DEF r
    <3> QED
      BY <1>0, <1>2, <2>1, <2>3, <2>4, SeenGrows
  <2>10. position' <= log'.next
    <3>1. log'.next = log.next + 1
      BY <2>1, AppendedFacts
    <3> QED
      BY <1>0, <1>2, <2>1, <3>1
  <2> QED
    BY <2>5, <2>7, <2>8, <2>9, <2>10
<1>4. ASSUME NEW p \in Producer, NEW s \in Sequence, ReturnOffset(p, s)
      PROVE  Goal
  <2> DEFINE a == [producer |-> p, sequence |-> s, offset |-> idem[p].offset]
  <2>1. /\ up /\ resolve(p, s) = "return" /\ answers' = answers \cup {a}
        /\ UNCHANGED <<up, known, log, idem, disk, position, seen, crashes, failures>>
    BY <1>4 DEF ReturnOffset
  <2>2. idem[p] # None /\ s = idem[p].sequence /\ idem = disk.idem
    BY <1>2, <2>1, ResolveFacts DEF FilesInv
  <2>3. Holds(disk.data, a.offset, a.producer, a.sequence)
    BY <1>2, <2>2 DEF FileInv, EntriesHold
  <2>4. s \in Int /\ s <= s
    BY StoreAssumption DEF Sequence
  <2>5. a.producer = p /\ a.sequence = disk.idem[p].sequence /\ a.offset = disk.idem[p].offset
    BY <2>2
  <2>6. a.sequence <= disk.idem[a.producer].sequence
    BY <2>2, <2>4
  <2> HIDE DEF a
  <2>7. \A b \in answers : b.producer = a.producer /\ b.sequence = a.sequence => a.offset = b.offset
    BY <1>2, <2>5 DEF AnswersHold
  <2>8. AnswersHold(disk, answers \cup {a})
    BY <1>2, <2>3, <2>5, <2>6, <2>7 DEF AnswersHold
  <2>9. FilesInv'
    BY <1>2, <2>1 DEF FilesInv
  <2> QED
    BY <1>2, <2>1, <2>8, <2>9
<1>5. ASSUME NEW files \in Disk, Died(files), up, files.topics # "whole" => files.data = <<>>,
             AnswersHold(files, answers), SeenHolds(files, seen), FileInv(files, crashes + 1)
      PROVE  Goal
  <2>1. /\ up' = FALSE /\ disk' = files /\ crashes' = crashes + 1
        /\ answers' = answers /\ seen' = seen
    BY <1>5 DEF Died
  <2>2. FilesInv'
    BY <1>5, <2>1 DEF FilesInv
  <2> QED
    BY <1>5, <2>1, <2>2
(* The process dies with the log and the entries as they were. *)
<1>6. ASSUME NEW files \in Disk, Died(files), up, files.data = disk.data, files.idem = disk.idem,
             files.topics # "whole" => disk.data = <<>>
      PROVE  Goal
  <2>1. FileInv(files, crashes + 1)
    <3>1. crashes + 1 \in Nat /\ crashes <= crashes + 1
      BY <1>0
    <3> QED
      BY <1>0, <1>2, <1>6, <3>1, FileSame
  <2>2. AnswersHold(files, answers) /\ SeenHolds(files, seen)
    BY <1>2, <1>6 DEF AnswersHold, SeenHolds
  <2> QED
    BY <1>5, <1>6, <2>1, <2>2
<1>7. ASSUME NEW p \in Producer, NEW s \in Sequence, CrashDuringProduce(p, s)
      PROVE  Goal
  <2>1. PICK files \in Interrupted(p, s) : Died(files)
    BY <1>7 DEF CrashDuringProduce
  <2>2. resolve(p, s) = "append" /\ up
    BY <1>7, <2>1 DEF CrashDuringProduce, Died
  <2>3. /\ files \in Disk
        /\ Unwritten(files) \/ RecordOnly(files, p, s) \/ Written(files, p, s)
    BY <2>1, InterruptedFacts
  <2>4. CASE Unwritten(files)
    <3>1. files.topics # "whole" => disk.data = <<>>
      BY <1>0, <1>2, <2>2, <2>4 DEF Unwritten, FilesInv
    <3> QED
      BY <1>6, <2>1, <2>2, <2>3, <2>4, <3>1 DEF Unwritten
  <2>5. CASE RecordOnly(files, p, s) \/ Written(files, p, s)
    <3> DEFINE r == NewRecord(p, s)
    <3>1. /\ r \in Record /\ Grows(disk, files, p, r)
          /\ files.idem[p] = disk.idem[p] \/ Enters(disk, files, p)
          /\ files.topics = "whole" /\ files.data = Append(disk.data, r)
      BY <1>0, <1>2, <2>2, <2>3, <2>5, ProduceGrows DEF Grows
    <3> HIDE DEF r
    <3>2. crashes + 1 \in Nat /\ crashes <= crashes + 1
      BY <1>0
    <3>3. FileInv(files, crashes + 1)
      BY <1>0, <1>2, <2>3, <3>1, <3>2, FileGrows
    <3>4. AnswersHold(files, answers)
      BY <1>0, <1>2, <2>3, <3>1, AnswersGrow
    <3>5. SeenHolds(files, seen)
      BY <1>0, <1>2, <2>3, <3>1, SeenGrows
    <3> QED
      BY <1>5, <2>1, <2>2, <2>3, <3>1, <3>3, <3>4, <3>5
  <2> QED
    BY <2>3, <2>4, <2>5
<1>8. ASSUME fetch_log
      PROVE  Goal
  <2>1. PICK start, end \in Nat :
           /\ start + 1 <= end /\ end <= Len(log.records)
           /\ seen' = seen \cup {log.records[i] : i \in start + 1 .. end}
           /\ position' = log.base + end
    BY <1>8, FetchFacts
  <2>2. up /\ UNCHANGED <<up, known, log, idem, disk, answers, crashes, failures>>
    BY <1>8 DEF fetch_log
  <2> DEFINE L == Len(disk.data)
             f == FirstKept(L)
  <2>3. log = Window(disk.data, L) /\ L \in 0 .. L
    BY <1>0, <1>2, <2>2 DEF FilesInv
  <2>4. /\ f \in 0 .. L /\ Len(log.records) = L - f
        /\ \A i \in 1 .. L - f :
              log.records[i] = [offset |-> f + i - 1, message |-> disk.data[f + i].message]
    BY <1>0, <2>3, WindowFacts
  <2>5. log.base = f /\ log.next = L
    BY <2>3 DEF Window
  <2> HIDE DEF f, L
  <2>6. ASSUME NEW i \in start + 1 .. end
        PROVE  /\ log.records[i].offset < L
               /\ disk.data[log.records[i].offset + 1].message = log.records[i].message
    <3>1. i \in 1 .. L - f
      BY <1>0, <2>1, <2>4 DEF L
    <3>a. log.records[i] = [offset |-> f + i - 1, message |-> disk.data[f + i].message]
      BY <2>4, <3>1
    <3>2. log.records[i].offset = f + i - 1 /\ log.records[i].message = disk.data[f + i].message
      BY <3>a
    <3>3. f + i - 1 < L /\ f + i - 1 + 1 = f + i
      BY <1>0, <2>4, <3>1 DEF L
    <3> QED
      BY <3>2, <3>3
  <2>7. SeenHolds(disk, seen')
    BY <1>2, <2>1, <2>6 DEF SeenHolds, L
  <2>8. position' <= log'.next
    BY <1>0, <2>1, <2>2, <2>4, <2>5 DEF L
  <2>9. FilesInv'
    BY <1>2, <2>2 DEF FilesInv
  <2> QED
    BY <1>2, <2>2, <2>7, <2>8, <2>9
<1>9. ASSUME Crash
      PROVE  Goal
  BY <1>0, <1>2, <1>6, <1>9 DEF Crash, Died, FilesInv
<1>10. ASSUME Restart
       PROVE  Goal
  <2>1. /\ ~ up /\ known' = (disk.topics = "whole") /\ log' = load_logs
        /\ idem' = disk.idem /\ position' = position
        /\ UNCHANGED <<disk, answers, seen, crashes>>
    BY <1>10 DEF Restart
  <2>2. log' = Window(disk.data, Len(disk.data))
    <3>1. Len(<<>>) = 0
      OBVIOUS
    <3> QED
      BY <1>2, <2>1, <3>1, RestartFacts DEF FilesInv
  <2>3. FilesInv'
    BY <1>2, <2>1, <2>2 DEF FilesInv
  <2>4. position' <= log'.next
    BY <2>1 DEF TypeInv, Log
  <2> QED
    BY <1>2, <2>1, <2>3, <2>4
<1>11. CASE UNCHANGED vars
  <2>1. UNCHANGED <<up, known, log, idem, disk, answers, position, seen, crashes, failures>>
    BY <1>11 DEF vars
  <2>2. FilesInv'
    BY <1>2, <2>1 DEF FilesInv
  <2> QED
    BY <1>2, <2>1, <2>2
<1> QED
  BY <1>1, <1>3, <1>4, <1>7, <1>8, <1>9, <1>10, <1>11 DEF Next

(* The strengthened invariant holds of every behaviour of the store. *)
THEOREM SoundCorrect == Spec => [](TypeInv /\ SoundInv)
BY TypeInit, TypeStep, SoundInit, SoundStep, PTL DEF Spec

(* MemoryIsReloadable: while no write failed, the log and the entries in    *)
(* memory are what load_partition_log and the idempotency files give back,  *)
(* for any retention, file length and history of crashes.                   *)
THEOREM MemoryIsReloadableCorrect == Spec => []MemoryIsReloadable
<1>1. TypeInv /\ SoundInv => MemoryIsReloadable
  <2> SUFFICES ASSUME TypeInv, SoundInv, DiskSound, up
               PROVE  log = load_logs /\ idem = disk.idem
    BY DEF MemoryIsReloadable
  <2>1. FilesInv
    BY DEF SoundInv
  <2>2. Len(<<>>) = 0
    OBVIOUS
  <2> QED
    BY <2>1, <2>2, RestartFacts DEF FilesInv
<1> QED
  BY <1>1, SoundCorrect, PTL

(* AnswersAreFinal: while no write failed, the file holds every answered    *)
(* message at the offset of the answer, and retries are answered alike,     *)
(* also across crashes inside later operations.                             *)
THEOREM AnswersAreFinalCorrect == Spec => []AnswersAreFinal
<1>1. TypeInv /\ SoundInv => AnswersAreFinal
  <2> SUFFICES ASSUME TypeInv, SoundInv, DiskSound, NEW a \in answers
               PROVE  /\ a.offset \in 0 .. Len(disk.data) - 1
                      /\ MessageAt(a.offset) = [producer |-> a.producer, sequence |-> a.sequence]
                      /\ \A b \in answers :
                            a.producer = b.producer /\ a.sequence = b.sequence =>
                               a.offset = b.offset
    BY DEF AnswersAreFinal
  <2>1. AnswersHold(disk, answers)
    BY DEF SoundInv, AnswerInv
  <2>2. Holds(disk.data, a.offset, a.producer, a.sequence)
    BY <2>1 DEF AnswersHold
  <2>3. a.offset \in Nat /\ Len(disk.data) \in Nat
    BY DEF TypeInv, Disk
  <2>4. a.offset \in 0 .. Len(disk.data) - 1
    BY <2>2, <2>3 DEF Holds
  <2>5. MessageAt(a.offset) = [producer |-> a.producer, sequence |-> a.sequence]
    BY <2>2 DEF Holds, MessageAt
  <2> QED
    BY <2>1, <2>4, <2>5 DEF AnswersHold
<1> QED
  BY <1>1, SoundCorrect, PTL

(* ReadsAreStable: while no write failed, no crash takes back what a        *)
(* consumer was given.                                                      *)
THEOREM ReadsAreStableCorrect == Spec => []ReadsAreStable
<1>1. SoundInv => ReadsAreStable
  BY DEF SoundInv, SeenInv, SeenHolds, ReadsAreStable, MessageAt
<1> QED
  BY <1>1, SoundCorrect, PTL

(* SequencesInOrder: while no write failed, every producer's messages are   *)
(* stored in sequence without a hole, and every second copy of a message    *)
(* takes a crash of its own, for any number of producers and messages.      *)
THEOREM SequencesInOrderCorrect == Spec => []SequencesInOrder
<1>1. TypeInv /\ SoundInv => SequencesInOrder
  <2> SUFFICES ASSUME TypeInv, SoundInv, DiskSound PROVE SequencesInOrder
    BY DEF SequencesInOrder
  <2>1. Ordered(disk) /\ CopiesCounted(disk, crashes)
    BY DEF SoundInv, FileInv
  <2>2. /\ disk.data \in Seq(Record) /\ Len(disk.data) \in Nat /\ crashes \in Nat
        /\ DOMAIN disk.data = 1 .. Len(disk.data)
    BY DEF TypeInv, Disk
  <2>3. {r.message : r \in Range(disk.data)} = Messages(disk.data)
    BY <2>2 DEF Range, Messages
  <2>4. Cardinality(Messages(disk.data)) \in Nat
    BY <2>1, FS_CardinalityType DEF CopiesCounted
  <2>5. Cardinality(Unentered(disk)) \in Nat
    <3>1. Unentered(disk) \in SUBSET Producer
      BY DEF Unentered
    <3> QED
      BY <3>1, StoreAssumption, FS_Subset, FS_CardinalityType
  <2>6. Len(disk.data) - Cardinality(Messages(disk.data)) <= crashes
    BY <2>1, <2>2, <2>4, <2>5 DEF CopiesCounted
  <2>7. \A i \in 1 .. Len(disk.data) : Follows(disk.data, i)
    BY <2>1 DEF Ordered
  <2> QED
    BY <2>3, <2>6, <2>7 DEF SequencesInOrder, Follows, OfProducer
<1> QED
  BY <1>1, SoundCorrect, PTL
=============================================================================
