-------------------------- MODULE ReplicationProofs --------------------------
(***************************************************************************)
(* Proofs about Replication.tla, for any number of brokers, requests,      *)
(* elections and crashes, where the topic was created on every broker.     *)
(*                                                                         *)
(* The induction rests on two facts. A started request v owns the position *)
(* handler[v].offset: every log that holds v, every REPLICATE that carries *)
(* it and every answer that reports it agree on that offset (RecordInv).   *)
(* And the broker that appended v still holds it there (OriginInv), since  *)
(* logs only grow and a restart reads back exactly what was in memory      *)
(* (StorageInv).                                                           *)
(***************************************************************************)
EXTENDS Replication, FiniteSetTheorems, TLAPS

Begun(v) == handler[v].status # "new"

StorageInv ==
    /\ registered = Broker
    /\ file = log

LogsMatch ==
    \A b \in Broker : \A i \in 1 .. Len(log[b]) :
        Begun(log[b][i]) /\ handler[log[b][i]].offset = i - 1

CallsMatch ==
    \A m \in calls : Begun(m.record) /\ handler[m.record].offset = m.offset

AnswersMatch ==
    \A a \in answers :
        /\ Begun(a.record)
        /\ handler[a.record].offset = a.offset
        /\ handler[a.record].at = a.at

RecordInv == LogsMatch /\ CallsMatch /\ AnswersMatch

OriginInv ==
    \A v \in Request : Begun(v) => Holds(log[handler[v].at], handler[v].offset, v)

(* Beliefs are real elections; before the first failover only the leader of *)
(* the cluster file has appended anything.                                  *)
LeaderInv ==
    /\ Current >= 1
    /\ elected[1] = SeedLeader
    /\ \A b \in Broker :
          /\ belief[b].epoch \in 1 .. Current
          /\ belief[b].leader = elected[belief[b].epoch]
    /\ Current = 1 => \A v \in Request : Begun(v) => handler[v].at = SeedLeader

ReplicaInv == TypeOK /\ StorageInv /\ RecordInv /\ OriginInv /\ LeaderInv

-----------------------------------------------------------------------------
(* The replicas of the list are brokers, each listed once. *)
LEMMA ListIsReplica ==
    /\ Len(ReplicaList) \in Nat
    /\ \A i \in 1 .. Len(ReplicaList) : ReplicaList[i] \in Broker
    /\ \A i, j \in 1 .. Len(ReplicaList) : i # j => ReplicaList[i] # ReplicaList[j]
BY ReplicationAssumption

(* Every variable keeps its type in every step of the handlers, followers   *)
(* and the control plane.                                                   *)
THEOREM TypeCorrect == Spec => []TypeOK
<1>0. Replica \subseteq Broker /\ Controller \in Broker /\ SeedLeader \in Broker
      /\ CreatedOn \subseteq Broker /\ <<SeedLeader>> \in Seq(Replica)
  BY LeadershipAssumption, ReplicationAssumption
<1>1. Init => TypeOK
  BY <1>0 DEF Init, LInit, TypeOK, Assignment, Handler, Status, Fresh, Call, Answer
<1>2. TypeOK /\ [Next]_vars => TypeOK'
  <2> SUFFICES ASSUME TypeOK, [Next]_vars PROVE TypeOK'
    OBVIOUS
  <2>1. ASSUME NEW b \in Broker, NEW v \in Request, append_log(b, v) PROVE TypeOK'
    <3>1. Append(log[b], v) \in Seq(Request) /\ Append(file[b], v) \in Seq(Request)
      BY DEF TypeOK
    <3>2. Len(log[b]) \in Nat
      BY DEF TypeOK
    <3>3. handler' \in [Request -> Handler]
      BY <2>1, <3>2 DEF append_log, TypeOK, Handler, Status
    <3> QED
      BY <2>1, <3>1, <3>3 DEF append_log, AppendRecord, TypeOK, leadershipVars
  <2>2. ASSUME NEW v \in Request, NEW ok \in BOOLEAN, Advance(v, ok)
        PROVE handler' \in [Request -> Handler]
    <3> DEFINE h == handler[v]
    <3>1. h \in Handler /\ h.pos + 1 \in Nat \ {0} /\ h.acks + 1 \in Nat /\ h.acks \in Nat
      BY DEF TypeOK, Handler
    <3>2. [h EXCEPT !.status = "loop", !.pos = @ + 1,
                    !.acks = IF ok THEN @ + 1 ELSE @] \in Handler
      <4>1. CASE ok
        BY <3>1, <4>1 DEF Handler, Status
      <4>2. CASE ~ ok
        BY <3>1, <4>2 DEF Handler, Status
      <4> QED
        BY <4>1, <4>2
    <3> QED
      BY <2>2, <3>2 DEF Advance, TypeOK
  <2>10. ASSUME NEW v \in Request, NEW s \in Status
         PROVE [handler EXCEPT ![v].status = s] \in [Request -> Handler]
    <3>1. handler[v] \in Handler
      BY DEF TypeOK
    <3>2. [handler[v] EXCEPT !.status = s] \in Handler
      BY <3>1 DEF Handler
    <3> QED
      BY <3>2 DEF TypeOK
  <2>3. ASSUME NEW v \in Request, HandlerStep(v) PROVE TypeOK'
    <3>1. CASE CountSelf(v)
      BY <2>2, <3>1 DEF CountSelf, TypeOK, leadershipVars, replicaVars
    <3>2. CASE send_replicate(v)
      <4>1. Target(v) \in Broker
        BY <3>2, ListIsReplica DEF send_replicate, InLoop, Target, TypeOK, Handler
      <4>2. handler[v].offset \in Nat
        BY DEF TypeOK, Handler
      <4>3. calls' \in SUBSET Call
        BY <3>2, <4>1, <4>2 DEF send_replicate, TypeOK, Call
      <4>4. handler' \in [Request -> Handler]
        BY <2>10, <3>2 DEF send_replicate, Status
      <4> QED
        BY <3>2, <4>3, <4>4 DEF send_replicate, TypeOK, leadershipVars, replicaVars
    <3>3. CASE ConnectFails(v)
      BY <2>2, <3>3 DEF ConnectFails, TypeOK, leadershipVars, replicaVars
    <3>4. CASE ResponseTimeout(v)
      BY <2>2, <3>4 DEF ResponseTimeout, TypeOK, leadershipVars, replicaVars
    <3>5. CASE Respond(v)
      <4>0. handler[v].at \in Broker /\ handler[v].offset \in Nat /\ handler[v].acks \in Nat
        BY DEF TypeOK, Handler
      <4>1. answers' \in SUBSET Answer
        BY <3>5, <4>0 DEF Respond, TypeOK, Answer
      <4>2. handler' \in [Request -> Handler]
        BY <2>10, <3>5 DEF Respond, Status
      <4> QED
        BY <3>5, <4>1, <4>2 DEF Respond, TypeOK, leadershipVars, replicaVars
    <3> QED
      BY <2>3, <3>1, <3>2, <3>3, <3>4, <3>5 DEF HandlerStep
  <2>4. ASSUME NEW m \in calls, apply_replica(m) PROVE TypeOK'
    <3>1. m.to \in Broker /\ m.record \in Request /\ Accepts(m) \in BOOLEAN
      BY DEF TypeOK, Call, Accepts
    <3>2. handler' \in [Request -> Handler]
      BY <2>2, <2>4, <3>1 DEF apply_replica, TypeOK
    <3>3. Append(log[m.to], m.record) \in Seq(Request)
          /\ Append(file[m.to], m.record) \in Seq(Request)
      BY <3>1 DEF TypeOK
    <3>4. log' \in [Broker -> Seq(Request)] /\ file' \in [Broker -> Seq(Request)]
      BY <2>4, <3>1, <3>3 DEF apply_replica, AppendRecord, TypeOK
    <3>5. calls' \in SUBSET Call
      BY <2>4 DEF apply_replica, TypeOK
    <3> QED
      BY <2>4, <3>2, <3>4, <3>5 DEF apply_replica, TypeOK, leadershipVars
  <2>5. ASSUME NEW b \in Broker, Crash(b) PROVE TypeOK'
    <3>1. handler' \in [Request -> Handler]
      <4>1. \A v \in Request : handler[v] \in Handler
        BY DEF TypeOK
      <4>2. \A v \in Request : [handler[v] EXCEPT !.status = "lost"] \in Handler
        BY <4>1 DEF Handler, Status
      <4> QED
        BY <2>5, <4>1, <4>2 DEF Crash
    <3>2. calls' \in SUBSET Call
      BY <2>5 DEF Crash, TypeOK
    <3> QED
      BY <2>5, <3>1, <3>2 DEF Crash, TypeOK, leadershipVars, replicaVars
  <2>6. ASSUME NEW b \in Broker, Restart(b) PROVE TypeOK'
    <3>1. <<>> \in Seq(Request) /\ file[b] \in Seq(Request)
      BY DEF TypeOK
    <3> QED
      BY <2>6, <3>1 DEF Restart, TypeOK, leadershipVars
  <2>7. ASSUME NEW b \in Broker, LearnLeader(b) PROVE TypeOK'
    <3>1. PICK e \in belief[b].epoch .. Current : belief' = [belief EXCEPT ![b] = Election(e)]
      BY <2>7 DEF LearnLeader, Learn
    <3>2. belief' \in [Broker -> Assignment]
      <4>1. e \in 1 .. Len(elected)
        BY <3>1 DEF TypeOK, Assignment, Current
      <4>2. Election(e) \in Assignment
        <5>1. elected[e] \in Replica /\ e \in Nat \ {0}
          BY <4>1 DEF TypeOK
        <5> QED
          BY <1>0, <5>1 DEF Election, Assignment
      <4> QED
        BY <3>1, <4>2 DEF TypeOK
    <3> QED
      BY <2>7, <3>2 DEF LearnLeader, Learn, TypeOK, replicaVars
  <2>8. ASSUME NEW r \in Replica, ElectLeader(r) PROVE TypeOK'
    <3>1. elected' \in Seq(Replica)
      BY <2>8 DEF ElectLeader, Elect, TypeOK
    <3>2. [leader |-> r, epoch |-> Current + 1] \in Assignment
      BY <1>0 DEF TypeOK, Current, Assignment
    <3>3. belief' \in [Broker -> Assignment]
      BY <2>8, <3>2 DEF ElectLeader, Elect, TypeOK
    <3> QED
      BY <2>8, <3>1, <3>3 DEF ElectLeader, TypeOK, replicaVars
  <2>9. CASE UNCHANGED vars
    BY <2>9 DEF vars, TypeOK, leadershipVars, replicaVars
  <2> QED
    BY <2>1, <2>3, <2>4, <2>5, <2>6, <2>7, <2>8, <2>9 DEF Next
<1> QED
  BY <1>1, <1>2, PTL DEF Spec
-----------------------------------------------------------------------------
(* Steps that only move handlers on, and steps that append one record. *)
Kept(v) ==
    /\ Begun(v)' <=> Begun(v)
    /\ handler'[v].offset = handler[v].offset
    /\ handler'[v].at = handler[v].at

RequestsKept == \A v \in Request : Kept(v)

Grows(b, v) ==
    /\ log' = [log EXCEPT ![b] = Append(@, v)]
    /\ Begun(v)'
    /\ handler'[v].offset = Len(log[b])

CallsKept ==
    \A m \in calls' :
        \/ m \in calls
        \/ Begun(m.record) /\ handler[m.record].offset = m.offset

AnswersKept ==
    \A a \in answers' :
        \/ a \in answers
        \/ /\ Begun(a.record)
           /\ handler[a.record].offset = a.offset
           /\ handler[a.record].at = a.at

LEMMA QuietStep ==
    ASSUME TypeOK, TypeOK', RecordInv, OriginInv, RequestsKept, log' = log,
           CallsKept, AnswersKept
    PROVE  RecordInv' /\ OriginInv'
<1>1. LogsMatch'
  <2> SUFFICES ASSUME NEW b \in Broker, NEW i \in 1 .. Len(log'[b])
               PROVE  handler'[log'[b][i]].status # "new" /\ handler'[log'[b][i]].offset = i - 1
    BY DEF LogsMatch, Begun
  <2>1. log'[b] = log[b] /\ log[b][i] \in Request /\ i \in 1 .. Len(log[b])
    BY DEF TypeOK
  <2>2. Begun(log[b][i]) /\ handler[log[b][i]].offset = i - 1
    BY <2>1 DEF RecordInv, LogsMatch
  <2> QED
    BY <2>1, <2>2 DEF RequestsKept, Kept, Begun
<1>2. CallsMatch'
  <2> SUFFICES ASSUME NEW m \in calls'
               PROVE  Begun(m.record)' /\ handler'[m.record].offset = m.offset
    BY DEF CallsMatch
  <2>1. m.record \in Request
    BY DEF TypeOK, Call
  <2>2. Begun(m.record) /\ handler[m.record].offset = m.offset
    BY DEF RecordInv, CallsMatch, CallsKept
  <2> QED
    BY <2>1, <2>2 DEF RequestsKept, Kept
<1>3. AnswersMatch'
  <2> SUFFICES ASSUME NEW a \in answers'
               PROVE  /\ Begun(a.record)'
                      /\ handler'[a.record].offset = a.offset
                      /\ handler'[a.record].at = a.at
    BY DEF AnswersMatch
  <2>1. a.record \in Request
    BY DEF TypeOK, Answer
  <2>2. Begun(a.record) /\ handler[a.record].offset = a.offset
        /\ handler[a.record].at = a.at
    BY DEF RecordInv, AnswersMatch, AnswersKept
  <2> QED
    BY <2>1, <2>2 DEF RequestsKept, Kept
<1>4. OriginInv'
  BY DEF OriginInv, RequestsKept, Kept, Holds
<1> QED
  BY <1>1, <1>2, <1>3, <1>4 DEF RecordInv

(* What a log held it still holds after a record was appended to some log. *)
LEMMA GrowingKeeps ==
    ASSUME TypeOK, NEW b \in Broker, NEW v \in Request,
           log' = [log EXCEPT ![b] = Append(@, v)],
           NEW c \in Broker, NEW offset \in Nat, NEW w, Holds(log[c], offset, w)
    PROVE  Holds(log'[c], offset, w)
<1>1. CASE c = b
  BY <1>1 DEF TypeOK, Holds
<1>2. CASE c # b
  BY <1>2 DEF TypeOK, Holds
<1> QED
  BY <1>1, <1>2

LEMMA GrowStep ==
    ASSUME TypeOK, TypeOK', RecordInv, OriginInv,
           NEW b \in Broker, NEW v \in Request, Grows(b, v),
           \A w \in Request : Kept(w) \/ (w = v /\ ~ Begun(v) /\ handler'[v].at = b),
           calls' \subseteq calls, answers' = answers
    PROVE  RecordInv' /\ OriginInv'
<1>1. ASSUME NEW w \in Request, Begun(w) PROVE Kept(w) /\ Begun(w)'
  BY <1>1 DEF Kept
<1>2. LogsMatch'
  <2> SUFFICES ASSUME NEW c \in Broker, NEW i \in 1 .. Len(log'[c])
               PROVE  handler'[log'[c][i]].status # "new" /\ handler'[log'[c][i]].offset = i - 1
    BY DEF LogsMatch, Begun
  <2>1. CASE i \in 1 .. Len(log[c])
    <3>1. log'[c][i] = log[c][i] /\ log[c][i] \in Request
      BY <2>1 DEF Grows, TypeOK
    <3>2. Begun(log[c][i]) /\ handler[log[c][i]].offset = i - 1
      BY <2>1 DEF RecordInv, LogsMatch
    <3> QED
      BY <1>1, <3>1, <3>2 DEF Kept, Begun
  <2>2. CASE i \notin 1 .. Len(log[c])
    <3>1. c = b /\ i = Len(log[b]) + 1 /\ log'[c][i] = v
      <4>1. c = b
        BY <2>2 DEF Grows, TypeOK
      <4>2. log'[b] = Append(log[b], v) /\ log[b] \in Seq(Request)
        BY DEF Grows, TypeOK
      <4>3. Len(log'[b]) = Len(log[b]) + 1 /\ Len(log[b]) \in Nat
        BY <4>2
      <4>4. i = Len(log[b]) + 1
        BY <2>2, <4>1, <4>3
      <4> QED
        BY <4>1, <4>2, <4>4
    <3> QED
      BY <3>1 DEF Grows, TypeOK, Begun
  <2> QED
    BY <2>1, <2>2
<1>3. CallsMatch'
  <2> SUFFICES ASSUME NEW m \in calls'
               PROVE  Begun(m.record)' /\ handler'[m.record].offset = m.offset
    BY DEF CallsMatch
  <2>1. m.record \in Request /\ Begun(m.record) /\ handler[m.record].offset = m.offset
    BY DEF TypeOK, Call, RecordInv, CallsMatch
  <2> QED
    BY <1>1, <2>1 DEF Kept
<1>4. AnswersMatch'
  <2> SUFFICES ASSUME NEW a \in answers
               PROVE  /\ Begun(a.record)'
                      /\ handler'[a.record].offset = a.offset
                      /\ handler'[a.record].at = a.at
    BY DEF AnswersMatch
  <2>1. a.record \in Request /\ Begun(a.record) /\ handler[a.record].offset = a.offset
        /\ handler[a.record].at = a.at
    BY DEF TypeOK, Answer, RecordInv, AnswersMatch
  <2> QED
    BY <1>1, <2>1 DEF Kept
<1>5. OriginInv'
  <2> SUFFICES ASSUME NEW w \in Request, Begun(w)'
               PROVE  Holds(log'[handler'[w].at], handler'[w].offset, w)
    BY DEF OriginInv
  <2>1. CASE Begun(w)
    <3>1. Holds(log[handler[w].at], handler[w].offset, w)
      BY <2>1 DEF OriginInv
    <3>2. handler[w].at \in Broker /\ handler[w].offset \in Nat
      BY DEF TypeOK, Handler
    <3>3. Holds(log'[handler[w].at], handler[w].offset, w)
      BY <3>1, <3>2, GrowingKeeps DEF Grows
    <3> QED
      BY <1>1, <2>1, <3>3 DEF Kept
  <2>2. CASE ~ Begun(w)
    <3>1. w = v /\ handler'[v].at = b
      BY <2>2 DEF Kept
    <3> QED
      BY <3>1 DEF Grows, Holds, TypeOK
  <2> QED
    BY <2>1, <2>2
<1> QED
  BY <1>2, <1>3, <1>4, <1>5 DEF RecordInv
-----------------------------------------------------------------------------
LEMMA InitInv ==
    ASSUME CreatedOn = Broker, Init
    PROVE  StorageInv /\ RecordInv /\ OriginInv /\ LeaderInv
<1>1. StorageInv
  BY DEF Init, StorageInv
<1>2. RecordInv
  BY DEF Init, RecordInv, LogsMatch, CallsMatch, AnswersMatch
<1>3. OriginInv
  BY DEF Init, OriginInv, Begun, Fresh
<1>4. LeaderInv
  BY DEF Init, LInit, LeaderInv, Current, Begun, Fresh
<1> QED
  BY <1>1, <1>2, <1>3, <1>4

(* A step that elects no one and learns nothing keeps LeaderInv if every    *)
(* request it starts is started by a broker that believes to lead.          *)
LEMMA LeaderStep ==
    ASSUME TypeOK, LeaderInv, UNCHANGED leadershipVars,
           \A v \in Request : Kept(v) \/ belief[handler'[v].at].leader = handler'[v].at,
           TypeOK'
    PROVE  LeaderInv'
<1>1. ASSUME Current = 1, NEW v \in Request, Begun(v)' PROVE handler'[v].at = SeedLeader
  <2>1. CASE Kept(v)
    BY <1>1, <2>1 DEF LeaderInv, Kept
  <2>2. CASE belief[handler'[v].at].leader = handler'[v].at
    <3>1. handler'[v].at \in Broker
      BY DEF TypeOK, Handler
    <3>2. belief[handler'[v].at].epoch = 1
      BY <1>1, <3>1 DEF LeaderInv
    <3> QED
      BY <2>2, <3>1, <3>2 DEF LeaderInv
  <2> QED
    BY <2>1, <2>2
<1> QED
  BY <1>1 DEF LeaderInv, leadershipVars, Current

LEMMA AdvanceKeeps ==
    ASSUME TypeOK, NEW v \in Request, NEW ok, Advance(v, ok), Begun(v)
    PROVE  RequestsKept
BY DEF TypeOK, Handler, Advance, Begun, RequestsKept, Kept

LEMMA HandlerStepInv ==
    ASSUME TypeOK, TypeOK', RecordInv, OriginInv, LeaderInv,
           NEW v \in Request, HandlerStep(v)
    PROVE  RecordInv' /\ OriginInv' /\ LeaderInv'
<1>1. RequestsKept
  <2>1. CASE CountSelf(v) \/ ConnectFails(v) \/ ResponseTimeout(v)
    BY <2>1, AdvanceKeeps DEF CountSelf, ConnectFails, ResponseTimeout, InLoop, Begun
  <2>2. CASE send_replicate(v)
    BY <2>2 DEF TypeOK, Handler, send_replicate, InLoop, Begun, RequestsKept, Kept
  <2>3. CASE Respond(v)
    BY <2>3 DEF TypeOK, Handler, Respond, InLoop, Begun, RequestsKept, Kept
  <2> QED
    BY <2>1, <2>2, <2>3 DEF HandlerStep
<1>2. log' = log /\ UNCHANGED leadershipVars
  BY DEF HandlerStep, CountSelf, ConnectFails, ResponseTimeout, send_replicate, Respond,
         replicaVars
<1>3. CallsKept
  <2>1. CASE calls' = calls
    BY <2>1 DEF CallsKept
  <2>2. CASE send_replicate(v)
    BY <2>2 DEF CallsKept, send_replicate, InLoop, Begun
  <2> QED
    BY <2>1, <2>2 DEF HandlerStep, CountSelf, ConnectFails, ResponseTimeout, Respond
<1>4. AnswersKept
  <2>1. CASE answers' = answers
    BY <2>1 DEF AnswersKept
  <2>2. CASE Respond(v)
    BY <2>2 DEF AnswersKept, Respond, Begun
  <2> QED
    BY <2>1, <2>2 DEF HandlerStep, CountSelf, ConnectFails, ResponseTimeout, send_replicate
<1>5. LeaderInv'
  BY <1>1, <1>2, LeaderStep DEF RequestsKept
<1> QED
  BY <1>1, <1>2, <1>3, <1>4, <1>5, QuietStep

LEMMA AppendInv ==
    ASSUME TypeOK, TypeOK', RecordInv, OriginInv, LeaderInv,
           NEW b \in Broker, NEW v \in Request, append_log(b, v)
    PROVE  RecordInv' /\ OriginInv' /\ LeaderInv'
<1>1. handler'[v].at = b /\ handler'[v].offset = Len(log[b])
      /\ handler'[v].status = "loop" /\ ~ Begun(v)
  BY DEF append_log, TypeOK, Begun
<1>2. \A w \in Request : w # v => Kept(w)
  BY DEF append_log, TypeOK, Kept, Begun
<1>3. Grows(b, v)
  BY <1>1 DEF Grows, append_log, AppendRecord, Begun
<1>4. RecordInv' /\ OriginInv'
  BY <1>1, <1>2, <1>3, GrowStep DEF append_log
<1>5. LeaderInv'
  BY <1>1, <1>2, LeaderStep DEF append_log
<1> QED
  BY <1>4, <1>5

LEMMA ReplicaStepInv ==
    ASSUME TypeOK, TypeOK', RecordInv, OriginInv, LeaderInv,
           NEW m \in calls, apply_replica(m)
    PROVE  RecordInv' /\ OriginInv' /\ LeaderInv'
<1>1. m.to \in Broker /\ m.record \in Request /\ Begun(m.record)
      /\ handler[m.record].offset = m.offset
  BY DEF TypeOK, Call, RecordInv, CallsMatch
<1>2. RequestsKept
  <2>1. CASE UNCHANGED handler
    BY <2>1 DEF RequestsKept, Kept, Begun
  <2>2. CASE Advance(m.record, Accepts(m))
    BY <1>1, <2>2, AdvanceKeeps
  <2> QED
    BY <2>1, <2>2 DEF apply_replica
<1>3. LeaderInv'
  BY <1>2, LeaderStep DEF apply_replica, RequestsKept
<1>4. calls' \subseteq calls /\ answers' = answers
  BY DEF apply_replica
<1>5. CASE IsNext(m)
  <2>1. Grows(m.to, m.record)
    BY <1>1, <1>2, <1>5 DEF apply_replica, AppendRecord, IsNext, Grows, RequestsKept, Kept
  <2> QED
    <3>1. \A w \in Request : Kept(w)
      BY <1>2 DEF RequestsKept
    <3> QED
      BY <1>1, <1>3, <1>4, <2>1, <3>1, GrowStep
<1>6. CASE ~ IsNext(m)
  <2>1. log' = log
    BY <1>6 DEF apply_replica
  <2>2. CallsKept /\ AnswersKept
    BY <1>4 DEF CallsKept, AnswersKept
  <2> QED
    BY <1>2, <1>3, <2>1, <2>2, QuietStep
<1> QED
  BY <1>5, <1>6

LEMMA ControlStepInv ==
    ASSUME TypeOK, TypeOK', RecordInv, OriginInv, LeaderInv,
           \/ \E b \in Broker : LearnLeader(b)
           \/ \E r \in Replica : ElectLeader(r)
    PROVE  RecordInv' /\ OriginInv' /\ LeaderInv'
<1>1. UNCHANGED <<handler, calls, answers>> /\ log' = log
  BY DEF LearnLeader, ElectLeader, replicaVars
<1>2. RequestsKept /\ CallsKept /\ AnswersKept
  BY <1>1 DEF RequestsKept, Kept, Begun, CallsKept, AnswersKept
<1>3. RecordInv' /\ OriginInv'
  BY <1>1, <1>2, QuietStep
<1>4. ASSUME NEW b \in Broker, LearnLeader(b) PROVE LeaderInv'
  <2>1. PICK e \in belief[b].epoch .. Current : belief' = [belief EXCEPT ![b] = Election(e)]
    BY <1>4 DEF LearnLeader, Learn
  <2>2. e \in 1 .. Current
    BY <2>1 DEF LeaderInv, Current, TypeOK
  <2>3. elected' = elected /\ handler' = handler
    BY <1>4 DEF LearnLeader, Learn
  <2>4. \A c \in Broker : belief'[c].epoch \in 1 .. Current
                         /\ belief'[c].leader = elected[belief'[c].epoch]
    BY <2>1, <2>2 DEF LeaderInv, TypeOK, Election
  <2> QED
    BY <2>3, <2>4 DEF LeaderInv, Current, Begun
<1>5. ASSUME NEW r \in Replica, ElectLeader(r) PROVE LeaderInv'
  <2>1. Current' = Current + 1 /\ Current \in Nat
    BY <1>5 DEF ElectLeader, Elect, TypeOK, Current
  <2>2. \A e \in 1 .. Current : elected'[e] = elected[e]
    BY <1>5 DEF ElectLeader, Elect, TypeOK, Current
  <2>3. elected'[Current + 1] = r
    BY <1>5 DEF ElectLeader, Elect, TypeOK, Current
  <2>4. \A c \in Broker : belief'[c].epoch \in 1 .. Current + 1
                         /\ belief'[c].leader = elected'[belief'[c].epoch]
    <3> SUFFICES ASSUME NEW c \in Broker
                 PROVE  belief'[c].epoch \in 1 .. Current + 1
                        /\ belief'[c].leader = elected'[belief'[c].epoch]
      OBVIOUS
    <3>1. CASE c = Controller
      <4>1. belief'[c] = [leader |-> r, epoch |-> Current + 1]
        BY <1>5, <3>1 DEF ElectLeader, Elect, TypeOK
      <4> QED
        BY <2>1, <2>3, <4>1
    <3>2. CASE c # Controller
      <4>1. belief'[c] = belief[c]
        BY <1>5, <3>2 DEF ElectLeader, Elect, TypeOK
      <4>2. belief[c].epoch \in 1 .. Current /\ belief[c].leader = elected[belief[c].epoch]
        BY DEF LeaderInv
      <4> QED
        BY <2>1, <2>2, <4>1, <4>2
    <3> QED
      BY <3>1, <3>2
  <2> QED
    BY <2>1, <2>2, <2>4 DEF LeaderInv
<1> QED
  BY <1>3, <1>4, <1>5

LEMMA NextInv ==
    ASSUME TypeOK, TypeOK', StorageInv, RecordInv, OriginInv, LeaderInv, [Next]_vars
    PROVE  StorageInv' /\ RecordInv' /\ OriginInv' /\ LeaderInv'
<1>1. ASSUME NEW b \in Broker, NEW v \in Request, append_log(b, v)
      PROVE  StorageInv' /\ RecordInv' /\ OriginInv' /\ LeaderInv'
  <2>1. StorageInv'
    BY <1>1 DEF append_log, AppendRecord, StorageInv
  <2> QED
    BY <1>1, <2>1, AppendInv
<1>2. ASSUME NEW v \in Request, HandlerStep(v)
      PROVE  StorageInv' /\ RecordInv' /\ OriginInv' /\ LeaderInv'
  <2>1. StorageInv'
    BY <1>2 DEF HandlerStep, CountSelf, ConnectFails, ResponseTimeout, send_replicate,
                Respond, replicaVars, StorageInv
  <2> QED
    BY <1>2, <2>1, HandlerStepInv
<1>3. ASSUME NEW m \in calls, apply_replica(m)
      PROVE  StorageInv' /\ RecordInv' /\ OriginInv' /\ LeaderInv'
  <2>1. StorageInv'
    BY <1>3 DEF apply_replica, AppendRecord, StorageInv
  <2> QED
    BY <1>3, <2>1, ReplicaStepInv
<1>4. ASSUME NEW b \in Broker, Crash(b)
      PROVE  StorageInv' /\ RecordInv' /\ OriginInv' /\ LeaderInv'
  <2>1. StorageInv' /\ UNCHANGED <<log, leadershipVars>>
    BY <1>4 DEF Crash, replicaVars, StorageInv
  <2>2. RequestsKept
    <3>1. ASSUME NEW v \in Request
          PROVE  handler'[v] \in {handler[v], [handler[v] EXCEPT !.status = "lost"]}
                 /\ (handler'[v] # handler[v] => Begun(v))
      BY <1>4 DEF Crash, Begun
    <3>2. \A v \in Request : handler[v] \in Handler
      BY DEF TypeOK
    <3> QED
      BY <3>1, <3>2 DEF Handler, RequestsKept, Kept, Begun
  <2>3. LeaderInv'
    BY <2>1, <2>2, LeaderStep DEF RequestsKept
  <2> QED
    <3>1. CallsKept /\ AnswersKept
      BY <1>4 DEF Crash, CallsKept, AnswersKept
    <3> QED
      BY <2>1, <2>2, <2>3, <3>1, QuietStep
<1>5. ASSUME NEW b \in Broker, Restart(b)
      PROVE  StorageInv' /\ RecordInv' /\ OriginInv' /\ LeaderInv'
  <2>1. UNCHANGED <<log, file, registered, leadershipVars, handler, calls, answers>>
    BY <1>5 DEF Restart, StorageInv, TypeOK
  <2>2. RequestsKept
    BY <2>1 DEF RequestsKept, Kept, Begun
  <2>3. LeaderInv'
    BY <2>1, <2>2, LeaderStep DEF RequestsKept
  <2>4. CallsKept /\ AnswersKept
    BY <2>1 DEF CallsKept, AnswersKept
  <2> QED
    BY <2>1, <2>2, <2>3, <2>4, QuietStep DEF StorageInv
<1>6. ASSUME \/ \E b \in Broker : LearnLeader(b)
             \/ \E r \in Replica : ElectLeader(r)
      PROVE  StorageInv' /\ RecordInv' /\ OriginInv' /\ LeaderInv'
  <2>1. StorageInv'
    BY <1>6 DEF LearnLeader, ElectLeader, replicaVars, StorageInv
  <2> QED
    BY <1>6, <2>1, ControlStepInv
<1>7. CASE UNCHANGED vars
  <2>1. UNCHANGED <<log, file, registered, leadershipVars, handler, calls, answers>>
    BY <1>7 DEF vars, replicaVars
  <2>2. RequestsKept
    BY <2>1 DEF RequestsKept, Kept, Begun
  <2>3. LeaderInv'
    BY <2>1, <2>2, LeaderStep DEF RequestsKept
  <2>4. CallsKept /\ AnswersKept
    BY <2>1 DEF CallsKept, AnswersKept
  <2> QED
    BY <2>1, <2>2, <2>3, <2>4, QuietStep DEF StorageInv
<1> QED
  BY <1>1, <1>2, <1>3, <1>4, <1>5, <1>6, <1>7 DEF Next

(* The inductive invariant holds in every reachable state, whatever the      *)
(* number of brokers, requests, elections and crashes.                       *)
THEOREM ReplicaCorrect ==
    ASSUME CreatedOn = Broker
    PROVE  Spec => []ReplicaInv
<1>1. Init => StorageInv /\ RecordInv /\ OriginInv /\ LeaderInv
  BY InitInv
<1>2. TypeOK /\ TypeOK' /\ (StorageInv /\ RecordInv /\ OriginInv /\ LeaderInv) /\ [Next]_vars
        => (StorageInv /\ RecordInv /\ OriginInv /\ LeaderInv)'
  BY NextInv
<1> QED
  BY <1>1, <1>2, TypeCorrect, PTL DEF Spec, ReplicaInv

(* Every stored copy of a record is at the offset append_log gave it, on     *)
(* every broker, through failovers, stale leaders and restarts.              *)
THEOREM RecordHasOneOffsetCorrect ==
    ASSUME CreatedOn = Broker
    PROVE  Spec => []RecordHasOneOffset
<1>1. ReplicaInv => RecordHasOneOffset
  BY DEF ReplicaInv, RecordInv, LogsMatch, RecordHasOneOffset
<1> QED
  BY <1>1, ReplicaCorrect, PTL

(* An answered record stays at its offset on the broker that answered.       *)
THEOREM AnsweredIsKeptCorrect ==
    ASSUME CreatedOn = Broker
    PROVE  Spec => []AnsweredIsKept
<1>1. ReplicaInv => AnsweredIsKept
  <2> SUFFICES ASSUME ReplicaInv, NEW a \in answers
               PROVE  Holds(log[a.at], a.offset, a.record)
    BY DEF AnsweredIsKept
  <2>1. a.record \in Request /\ Begun(a.record) /\ handler[a.record].offset = a.offset
        /\ handler[a.record].at = a.at
    BY DEF ReplicaInv, TypeOK, Answer, RecordInv, AnswersMatch
  <2>2. Holds(log[handler[a.record].at], handler[a.record].offset, a.record)
    BY <2>1 DEF ReplicaInv, OriginInv
  <2> QED
    BY <2>1, <2>2
<1> QED
  BY <1>1, ReplicaCorrect, PTL

(* Before the first failover a follower is never ahead of the leader and     *)
(* never differs from it.                                                    *)
LEMMA PrefixBeforeFailover == ReplicaInv => FollowersArePrefixes
<1> SUFFICES ASSUME ReplicaInv, Current = 1, NEW b \in Broker
             PROVE  /\ Len(log[b]) <= Len(log[SeedLeader])
                    /\ \A i \in 1 .. Len(log[b]) : log[b][i] = log[SeedLeader][i]
  BY DEF FollowersArePrefixes
<1>1. ASSUME NEW i \in 1 .. Len(log[b])
      PROVE  i \in 1 .. Len(log[SeedLeader]) /\ log[b][i] = log[SeedLeader][i]
  <2>1. log[b][i] \in Request
    BY DEF ReplicaInv, TypeOK
  <2>2. Begun(log[b][i]) /\ handler[log[b][i]].offset = i - 1
    BY DEF ReplicaInv, RecordInv, LogsMatch
  <2>3. handler[log[b][i]].at = SeedLeader
    BY <2>1, <2>2 DEF ReplicaInv, LeaderInv
  <2>4. Holds(log[SeedLeader], i - 1, log[b][i])
    BY <2>1, <2>2, <2>3 DEF ReplicaInv, OriginInv
  <2> QED
    BY <2>4 DEF Holds
<1>2. Len(log[b]) \in Nat /\ Len(log[SeedLeader]) \in Nat
  BY LeadershipAssumption DEF ReplicaInv, TypeOK
<1>3. Len(log[b]) <= Len(log[SeedLeader])
  <2>1. CASE Len(log[b]) = 0
    BY <1>2, <2>1
  <2>2. CASE Len(log[b]) # 0
    <3>1. Len(log[b]) \in 1 .. Len(log[b])
      BY <1>2, <2>2
    <3> QED
      BY <1>1, <1>2, <3>1
  <2> QED
    BY <2>1, <2>2
<1> QED
  BY <1>1, <1>3

(* Whatever order REPLICATEs arrive in, and however many are lost, the       *)
(* replicas hold prefixes of the leader's log until the first failover.      *)
THEOREM FollowersArePrefixesCorrect ==
    ASSUME CreatedOn = Broker
    PROVE  Spec => []FollowersArePrefixes
BY PrefixBeforeFailover, ReplicaCorrect, PTL
-----------------------------------------------------------------------------
(* Acknowledgements.  The replicas among the first n of the list that hold  *)
(* the record of request v at its offset; while the loop of request v is at *)
(* position pos it has counted no more acks than there are such replicas    *)
(* before pos.                                                              *)
Holders(v, n) ==
    {b \in Broker :
        /\ \E i \in 1 .. Len(ReplicaList) : i <= n /\ ReplicaList[i] = b
        /\ Holds(log[b], handler[v].offset, v)}

PositionInv ==
    \A v \in Request :
        handler[v].status = "waiting" => handler[v].pos <= Len(ReplicaList)

AnswerInv ==
    \A a \in answers :
        handler[a.record].status = "answered" /\ handler[a.record].acks = a.acks

AckInv ==
    Current = 1 =>
        \A v \in Request :
            Begun(v) => handler[v].acks <= Cardinality(Holders(v, handler[v].pos - 1))

LEMMA HoldersFinite ==
    ASSUME NEW v, NEW n
    PROVE  IsFiniteSet(Holders(v, n)) /\ Cardinality(Holders(v, n)) \in Nat
<1>1. IsFiniteSet(Holders(v, n))
  BY ReplicationAssumption, FS_Subset DEF Holders
<1> QED
  BY <1>1, FS_CardinalityType

(* Records are never lost from a log. *)
LogsGrow ==
    \A b \in Broker, offset \in Nat, v \in Request :
        Holds(log[b], offset, v) => Holds(log'[b], offset, v)

LEMMA NextLogsGrow ==
    ASSUME ReplicaInv, [Next]_vars
    PROVE  LogsGrow
<1>1. ASSUME NEW b \in Broker, NEW v \in Request,
             log' = [log EXCEPT ![b] = Append(@, v)]
      PROVE  LogsGrow
  BY <1>1, GrowingKeeps DEF ReplicaInv, LogsGrow
<1>2. CASE log' = log
  BY <1>2 DEF LogsGrow
<1>3. ASSUME NEW m \in calls, apply_replica(m) PROVE LogsGrow
  <2>1. m.to \in Broker /\ m.record \in Request
    BY DEF ReplicaInv, TypeOK, Call
  <2> QED
    BY <1>1, <1>2, <1>3, <2>1 DEF apply_replica, AppendRecord
<1>4. ASSUME NEW b \in Broker, Restart(b) PROVE LogsGrow
  BY <1>2, <1>4 DEF Restart, ReplicaInv, StorageInv, TypeOK
<1> QED
  BY <1>1, <1>2, <1>3, <1>4 DEF Next, vars, append_log, AppendRecord, HandlerStep, CountSelf,
     send_replicate, ConnectFails, ResponseTimeout, Respond, Crash, LearnLeader, ElectLeader,
     replicaVars

(* How a step treats the loop of request v: it leaves it alone, starts it,  *)
(* or moves it on by one replica, counting that replica only if it holds    *)
(* the record.                                                              *)
LoopStays(v) ==
    /\ Kept(v)
    /\ handler'[v].pos = handler[v].pos
    /\ handler'[v].acks = handler[v].acks

LoopStarts(v) ==
    /\ handler'[v].pos = 1
    /\ handler'[v].acks = 0

LoopMoves(v) ==
    /\ Kept(v)
    /\ handler[v].pos \in 1 .. Len(ReplicaList)
    /\ handler'[v].pos = handler[v].pos + 1
    /\ \/ handler'[v].acks = handler[v].acks
       \/ /\ handler'[v].acks = handler[v].acks + 1
          /\ Holds(log'[Target(v)], handler[v].offset, v)

LEMMA CountedAreHolders ==
    ASSUME TypeOK, TypeOK', LogsGrow, NEW v \in Request,
           LoopStays(v) \/ LoopStarts(v) \/ LoopMoves(v),
           Begun(v) => handler[v].acks <= Cardinality(Holders(v, handler[v].pos - 1)),
           Begun(v)'
    PROVE  handler'[v].acks <= Cardinality(Holders(v, handler[v].pos - 1)')
<1> DEFINE old == Holders(v, handler[v].pos - 1)
           new == Holders(v, handler[v].pos - 1)'
<1>1. handler[v].offset \in Nat /\ handler[v].pos \in Nat \ {0} /\ handler[v].acks \in Nat
  BY DEF TypeOK, Handler
<1>2. IsFiniteSet(old) /\ Cardinality(old) \in Nat
  BY HoldersFinite
<1>3. IsFiniteSet(new) /\ Cardinality(new) \in Nat
  <2>1. IsFiniteSet(new)
    BY ReplicationAssumption, FS_Subset DEF Holders
  <2> QED
    BY <2>1, FS_CardinalityType
<1>4. CASE LoopStarts(v)
  BY <1>3, <1>4 DEF LoopStarts
<1>5. ASSUME Kept(v), handler'[v].pos >= handler[v].pos, handler'[v].pos \in Nat
      PROVE  old \subseteq new
  BY <1>1, <1>5, ListIsReplica DEF LogsGrow, Holders, Kept
<1>6. CASE LoopStays(v)
  <2>1. old \subseteq new
    BY <1>1, <1>5, <1>6 DEF LoopStays
  <2>2. Cardinality(old) <= Cardinality(new)
    BY <1>3, <2>1, FS_Subset
  <2> QED
    BY <1>1, <1>2, <1>3, <1>6, <2>2 DEF LoopStays, Kept
<1>7. CASE LoopMoves(v)
  <2>1. old \subseteq new
    BY <1>1, <1>5, <1>7 DEF LoopMoves
  <2>2. Cardinality(old) <= Cardinality(new)
    BY <1>3, <2>1, FS_Subset
  <2>3. CASE handler'[v].acks = handler[v].acks
    BY <1>1, <1>2, <1>3, <1>7, <2>2, <2>3 DEF LoopMoves, Kept
  <2>4. CASE /\ handler'[v].acks = handler[v].acks + 1
             /\ Holds(log'[Target(v)], handler[v].offset, v)
    <3>1. Target(v) \in new
      BY <1>1, <1>7, <2>4, ListIsReplica DEF LoopMoves, Kept, Target, Holders
    <3>2. Target(v) \notin old
      <4>1. ASSUME NEW i \in 1 .. Len(ReplicaList), i <= handler[v].pos - 1
            PROVE  ReplicaList[i] # Target(v)
        BY <1>1, <1>7, <4>1, ListIsReplica DEF LoopMoves, Target
      <4> QED
        BY <4>1 DEF Holders
    <3>3. IsFiniteSet(old \cup {Target(v)})
          /\ Cardinality(old \cup {Target(v)}) = Cardinality(old) + 1
      BY <1>2, <3>2, FS_AddElement
    <3>4. Cardinality(old \cup {Target(v)}) <= Cardinality(new)
      BY <1>3, <2>1, <3>1, FS_Subset
    <3> QED
      BY <1>1, <1>2, <1>3, <1>7, <2>4, <3>3, <3>4 DEF LoopMoves, Kept
  <2> QED
    BY <1>7, <2>3, <2>4 DEF LoopMoves
<1> QED
  BY <1>4, <1>6, <1>7
(* The follower answers 0 only for a record it holds: what it had at that   *)
(* offset already is the leader's record, since its log is a prefix.        *)
LEMMA AcceptedIsHeld ==
    ASSUME ReplicaInv, TypeOK', Current = 1, NEW m \in calls, apply_replica(m), Accepts(m)
    PROVE  Holds(log'[m.to], m.offset, m.record)
<1>1. m.to \in Broker /\ m.record \in Request /\ m.offset \in Nat /\ Begun(m.record)
      /\ handler[m.record].offset = m.offset
  BY DEF ReplicaInv, TypeOK, Call, RecordInv, CallsMatch
<1>2. log[m.to] \in Seq(Request)
  BY <1>1 DEF ReplicaInv, TypeOK
<1>3. CASE IsNext(m)
  <2>1. log'[m.to] = Append(log[m.to], m.record)
    BY <1>1, <1>3 DEF apply_replica, AppendRecord, ReplicaInv, TypeOK
  <2> QED
    BY <1>1, <1>2, <1>3, <2>1 DEF IsNext, Holds
<1>4. CASE ~ IsNext(m)
  <2>1. log' = log
    BY <1>4 DEF apply_replica
  <2>2. m.offset + 1 \in 1 .. Len(log[m.to])
    BY <1>1, <1>2, <1>4 DEF Accepts, IsNext
  <2>3. log[m.to][m.offset + 1] = log[SeedLeader][m.offset + 1]
    BY <1>1, <2>2, PrefixBeforeFailover DEF FollowersArePrefixes
  <2>4. handler[m.record].at = SeedLeader
    BY <1>1 DEF ReplicaInv, LeaderInv
  <2>5. Holds(log[SeedLeader], m.offset, m.record)
    BY <1>1, <2>4 DEF ReplicaInv, OriginInv
  <2> QED
    BY <2>1, <2>2, <2>3, <2>5 DEF Holds
<1> QED
  BY <1>3, <1>4

LEMMA AdvanceMoves ==
    ASSUME TypeOK, NEW v \in Request, NEW ok \in BOOLEAN, Advance(v, ok), Begun(v),
           handler[v].pos <= Len(ReplicaList),
           ok => Holds(log'[Target(v)], handler[v].offset, v)
    PROVE  \A w \in Request : LoopStays(w) \/ LoopMoves(w)
<1>1. RequestsKept
  BY AdvanceKeeps
<1>2. \A w \in Request \ {v} : LoopStays(w)
  BY <1>1 DEF TypeOK, Handler, Advance, RequestsKept, LoopStays
<1>3. handler[v].pos \in 1 .. Len(ReplicaList)
  BY ListIsReplica DEF TypeOK, Handler
<1>4. handler'[v].pos = handler[v].pos + 1
      /\ handler'[v].acks = IF ok THEN handler[v].acks + 1 ELSE handler[v].acks
  BY DEF TypeOK, Handler, Advance
<1>5. LoopMoves(v)
  BY <1>1, <1>3, <1>4 DEF RequestsKept, LoopMoves
<1> QED
  BY <1>2, <1>5

LEMMA LoopKinds ==
    ASSUME ReplicaInv, TypeOK', PositionInv, [Next]_vars, Current = 1
    PROVE  \A v \in Request : LoopStays(v) \/ LoopStarts(v) \/ LoopMoves(v)
<1> USE DEF ReplicaInv
<1>1. ASSUME NEW b \in Broker, NEW v \in Request, append_log(b, v)
      PROVE  \A w \in Request : LoopStays(w) \/ LoopStarts(w)
  BY <1>1 DEF append_log, TypeOK, LoopStays, LoopStarts, Kept, Begun
<1>2. ASSUME NEW v \in Request, CountSelf(v)
      PROVE  \A w \in Request : LoopStays(w) \/ LoopMoves(w)
  <2>1. Begun(v) /\ handler[v].pos <= Len(ReplicaList) /\ log' = log /\ Advance(v, TRUE)
    BY <1>2 DEF CountSelf, InLoop, Begun, replicaVars
  <2>2. Holds(log'[Target(v)], handler[v].offset, v)
    BY <1>2, <2>1 DEF CountSelf, OriginInv
  <2> QED
    BY <2>1, <2>2, AdvanceMoves
<1>3. ASSUME NEW v \in Request, ConnectFails(v) \/ ResponseTimeout(v)
      PROVE  \A w \in Request : LoopStays(w) \/ LoopMoves(w)
  <2>1. Begun(v) /\ handler[v].pos <= Len(ReplicaList) /\ Advance(v, FALSE)
    BY <1>3 DEF ConnectFails, ResponseTimeout, InLoop, PositionInv, Begun
  <2> QED
    BY <2>1, AdvanceMoves
<1>4. ASSUME NEW v \in Request, send_replicate(v) PROVE \A w \in Request : LoopStays(w)
  BY <1>4 DEF send_replicate, InLoop, TypeOK, Handler, LoopStays, Kept, Begun
<1>5. ASSUME NEW v \in Request, Respond(v) PROVE \A w \in Request : LoopStays(w)
  BY <1>5 DEF Respond, TypeOK, Handler, LoopStays, Kept, Begun
<1>6. ASSUME NEW m \in calls, apply_replica(m)
      PROVE  \A w \in Request : LoopStays(w) \/ LoopMoves(w)
  <2>1. CASE UNCHANGED handler
    BY <2>1 DEF LoopStays, Kept, Begun
  <2>2. CASE WaitsFor(m) /\ Advance(m.record, Accepts(m))
    <3>1. m.record \in Request /\ Begun(m.record) /\ handler[m.record].offset = m.offset
          /\ Accepts(m) \in BOOLEAN
      BY DEF TypeOK, Call, RecordInv, CallsMatch, Accepts
    <3>2. handler[m.record].pos <= Len(ReplicaList) /\ Target(m.record) = m.to
      BY <2>2, <3>1 DEF WaitsFor, PositionInv
    <3>3. Accepts(m) => Holds(log'[Target(m.record)], handler[m.record].offset, m.record)
      BY <1>6, <3>1, <3>2, AcceptedIsHeld
    <3> QED
      BY <2>2, <3>1, <3>2, <3>3, AdvanceMoves
  <2> QED
    BY <1>6, <2>1, <2>2 DEF apply_replica
<1>7. ASSUME NEW b \in Broker, Crash(b) PROVE \A w \in Request : LoopStays(w)
  <2>1. ASSUME NEW v \in Request
        PROVE  handler'[v] \in {handler[v], [handler[v] EXCEPT !.status = "lost"]}
               /\ (handler'[v] # handler[v] => Begun(v))
    BY <1>7 DEF Crash, Begun
  <2>2. \A v \in Request : handler[v] \in Handler
    BY DEF TypeOK
  <2> QED
    BY <2>1, <2>2 DEF Handler, LoopStays, Kept, Begun
<1>8. CASE UNCHANGED handler
  BY <1>8 DEF LoopStays, Kept, Begun
<1> QED
  BY <1>1, <1>2, <1>3, <1>4, <1>5, <1>6, <1>7, <1>8 DEF Next, HandlerStep, vars, Restart,
     LearnLeader, ElectLeader

LEMMA PositionStep ==
    ASSUME TypeOK, PositionInv, [Next]_vars
    PROVE  PositionInv'
<1>1. ASSUME NEW v \in Request, NEW ok, Advance(v, ok) PROVE PositionInv'
  BY <1>1 DEF TypeOK, Handler, Advance, PositionInv
<1>2. ASSUME NEW b \in Broker, NEW v \in Request, append_log(b, v) PROVE PositionInv'
  BY <1>2 DEF TypeOK, append_log, PositionInv
<1>3. ASSUME NEW v \in Request, HandlerStep(v) PROVE PositionInv'
  <2>1. CASE send_replicate(v)
    BY <2>1 DEF TypeOK, Handler, send_replicate, InLoop, PositionInv
  <2>2. CASE Respond(v)
    BY <2>2 DEF TypeOK, Handler, Respond, PositionInv
  <2> QED
    BY <1>1, <1>3, <2>1, <2>2 DEF HandlerStep, CountSelf, ConnectFails, ResponseTimeout
<1>4. CASE UNCHANGED handler
  BY <1>4 DEF PositionInv
<1>5. ASSUME NEW m \in calls, apply_replica(m) PROVE PositionInv'
  <2>1. m.record \in Request
    BY DEF TypeOK, Call
  <2> QED
    BY <1>1, <1>4, <1>5, <2>1 DEF apply_replica
<1>6. ASSUME NEW b \in Broker, Crash(b) PROVE PositionInv'
  BY <1>6 DEF TypeOK, Handler, Crash, PositionInv
<1> QED
  BY <1>2, <1>3, <1>4, <1>5, <1>6 DEF Next, vars, Restart, LearnLeader, ElectLeader

LEMMA AnswerStep ==
    ASSUME TypeOK, AnswerInv, [Next]_vars
    PROVE  AnswerInv'
<1>0. \A a \in answers : a.record \in Request
  BY DEF TypeOK, Answer
<1>1. ASSUME \A v \in Request : handler[v].status = "answered" => handler'[v] = handler[v],
             answers' = answers
      PROVE  AnswerInv'
  BY <1>0, <1>1 DEF AnswerInv
<1>2. ASSUME NEW v \in Request, handler[v].status # "answered", answers' = answers,
             \A w \in Request \ {v} : handler'[w] = handler[w]
      PROVE  AnswerInv'
  BY <1>1, <1>2
<1>3. ASSUME NEW v \in Request, NEW ok, Advance(v, ok)
      PROVE  \A w \in Request \ {v} : handler'[w] = handler[w]
  BY <1>3 DEF Advance, TypeOK
<1>4. ASSUME NEW b \in Broker, NEW v \in Request, append_log(b, v) PROVE AnswerInv'
  BY <1>2, <1>4 DEF append_log, TypeOK
<1>5. ASSUME NEW v \in Request, CountSelf(v) \/ ConnectFails(v) \/ ResponseTimeout(v)
      PROVE  AnswerInv'
  BY <1>2, <1>3, <1>5 DEF CountSelf, ConnectFails, ResponseTimeout, InLoop
<1>6. ASSUME NEW v \in Request, send_replicate(v) PROVE AnswerInv'
  BY <1>2, <1>6 DEF send_replicate, InLoop, TypeOK
<1>7. ASSUME NEW v \in Request, Respond(v) PROVE AnswerInv'
  <2>1. handler'[v].status = "answered" /\ handler'[v].acks = handler[v].acks
        /\ \A w \in Request \ {v} : handler'[w] = handler[w]
    BY <1>7 DEF Respond, TypeOK, Handler
  <2> QED
    BY <1>0, <1>7, <2>1 DEF Respond, AnswerInv
<1>8. ASSUME NEW m \in calls, apply_replica(m) PROVE AnswerInv'
  <2>1. m.record \in Request
    BY DEF TypeOK, Call
  <2>2. CASE UNCHANGED handler
    BY <1>1, <1>8, <2>2 DEF apply_replica
  <2>3. CASE WaitsFor(m) /\ Advance(m.record, Accepts(m))
    BY <1>2, <1>3, <1>8, <2>1, <2>3 DEF apply_replica, WaitsFor
  <2> QED
    BY <1>8, <2>2, <2>3 DEF apply_replica
<1>9. ASSUME NEW b \in Broker, Crash(b) PROVE AnswerInv'
  BY <1>1, <1>9 DEF Crash
<1>10. CASE UNCHANGED <<handler, answers>>
  BY <1>1, <1>10
<1> QED
  BY <1>4, <1>5, <1>6, <1>7, <1>8, <1>9, <1>10 DEF Next, HandlerStep, vars, Restart,
     LearnLeader, ElectLeader

(* The first failover is final: once Current is above 1 it stays there. *)
LEMMA FirstEpochEnds ==
    ASSUME TypeOK, [Next]_vars, Current' = 1, LeaderInv
    PROVE  Current = 1
<1>1. CASE elected' = elected
  BY <1>1 DEF Current
<1>2. ASSUME NEW r \in Replica, ElectLeader(r) PROVE FALSE
  <2>1. Len(elected') = Len(elected) + 1 /\ Len(elected) \in Nat
    BY <1>2 DEF ElectLeader, Elect, TypeOK
  <2> QED
    BY <2>1 DEF Current, LeaderInv
<1> QED
  BY <1>1, <1>2 DEF Next, vars, leadershipVars, append_log, HandlerStep, CountSelf,
     send_replicate, ConnectFails, ResponseTimeout, Respond, apply_replica, Crash, Restart,
     LearnLeader, Learn

(* Before the first failover, acks counted by replicate_to_followers are     *)
(* brokers that hold the record at the offset the producer is told.          *)
THEOREM AcksAreCopiesCorrect ==
    ASSUME CreatedOn = Broker
    PROVE  Spec => []AcksAreCopies
<1>1. Init => PositionInv /\ AnswerInv /\ AckInv
  BY DEF Init, PositionInv, AnswerInv, AckInv, Begun, Fresh
<1>2. ReplicaInv /\ ReplicaInv' /\ (PositionInv /\ AnswerInv /\ AckInv) /\ [Next]_vars
        => (PositionInv /\ AnswerInv /\ AckInv)'
  <2> SUFFICES ASSUME ReplicaInv, ReplicaInv', PositionInv, AnswerInv, AckInv, [Next]_vars
               PROVE  PositionInv' /\ AnswerInv' /\ AckInv'
    OBVIOUS
  <2>1. TypeOK /\ TypeOK' /\ LeaderInv
    BY DEF ReplicaInv
  <2>2. AckInv'
    <3> SUFFICES ASSUME Current' = 1, NEW v \in Request, Begun(v)'
                 PROVE  handler'[v].acks <= Cardinality(Holders(v, handler[v].pos - 1)')
      BY DEF AckInv
    <3>1. Current = 1
      BY <2>1, FirstEpochEnds
    <3>2. LoopStays(v) \/ LoopStarts(v) \/ LoopMoves(v)
      BY <2>1, <3>1, LoopKinds
    <3>3. Begun(v) => handler[v].acks <= Cardinality(Holders(v, handler[v].pos - 1))
      BY <3>1 DEF AckInv
    <3> QED
      BY <2>1, <3>2, <3>3, NextLogsGrow, CountedAreHolders
  <2> QED
    BY <2>1, <2>2, PositionStep, AnswerStep
<1>3. ReplicaInv /\ AnswerInv /\ AckInv => AcksAreCopies
  <2> SUFFICES ASSUME ReplicaInv, AnswerInv, AckInv, Current = 1, NEW a \in answers
               PROVE  Cardinality({b \in Broker : Holds(log[b], a.offset, a.record)}) >= a.acks
    BY DEF AcksAreCopies
  <2> DEFINE all == {b \in Broker : Holds(log[b], a.offset, a.record)}
             counted == Holders(a.record, handler[a.record].pos - 1)
  <2>1. a.record \in Request /\ a.acks \in Nat /\ Begun(a.record)
        /\ handler[a.record].offset = a.offset /\ handler[a.record].acks = a.acks
    BY DEF ReplicaInv, TypeOK, Answer, RecordInv, AnswersMatch, AnswerInv
  <2>2. a.acks <= Cardinality(counted)
    BY <2>1 DEF AckInv
  <2>3. counted \subseteq all
    BY <2>1 DEF Holders
  <2>4. IsFiniteSet(all)
    BY ReplicationAssumption, FS_Subset
  <2>5. Cardinality(counted) <= Cardinality(all) /\ Cardinality(all) \in Nat
        /\ Cardinality(counted) \in Nat
    BY <2>3, <2>4, FS_Subset, FS_CardinalityType, HoldersFinite
  <2> QED
    BY <2>1, <2>2, <2>5
<1> QED
  BY <1>1, <1>2, <1>3, ReplicaCorrect, PTL DEF Spec
=============================================================================
