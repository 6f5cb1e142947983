--------------------------- MODULE SessionProofs ----------------------------
(***************************************************************************)
(* Proofs about Session.tla, for any settings, scripts and answers.        *)
(*                                                                         *)
(* The first part is about the gates and uses nothing of the frames:       *)
(* whatever read_frame finds in the bytes, it is dispatched as Serve does  *)
(* it.  The rest is about the bytes: numbers, decoders, frames, what is    *)
(* under way on a stream, and from these, that requests arrive as they     *)
(* were sent and answers as they were given, with the data in them.        *)
(***************************************************************************)
EXTENDS Session, OrderFacts, SequenceTheorems, TLAPS

-----------------------------------------------------------------------------
(* The gates: an operation runs for the last handshake that succeeded. *)

(* The messages dispatched in h that are handshakes which succeed under     *)
(* this token, before the i-th; and the principal of the last of them.      *)
Greets(token, m) ==
    /\ m.kind = "Handshake"
    /\ token \in {<<>>, m.auth_token}
    /\ m.protocol_version \in {1, 2}

Greetings(token, h, i) == {j \in 1 .. i - 1 : Greets(token, h[j].frame.message)}

Latest(token, h, i) ==
    IF Greetings(token, h, i) = {} THEN Anonymous
    ELSE principal_from_token(h[Max(Greetings(token, h, i))].frame.message.auth_token)

(* The greatest element is the one that is not below another. *)
LEMMA MaxIs ==
    ASSUME NEW S \in SUBSET Nat, NEW m \in S, \A j \in S : j <= m
    PROVE  Max(S) = m
<1>1. \E x \in S : \A y \in S : x >= y
  OBVIOUS
<1>2. Max(S) \in S /\ \A y \in S : Max(S) >= y
  BY <1>1 DEF Max
<1>3. Max(S) >= m /\ Max(S) <= m /\ Max(S) \in Nat /\ m \in Nat
  BY <1>2
<1> QED
  BY <1>3

LEMMA MaxBelow ==
    ASSUME NEW n \in Nat, NEW S \in SUBSET (1 .. n), S # {}
    PROVE  Max(S) \in S
<1>1. S \in SUBSET Nat /\ \A i \in S : i <= n
  OBVIOUS
<1>2. PICK m \in S : \A j \in S : j <= m
  BY <1>1, NatMax
<1> QED
  BY <1>1, <1>2, MaxIs

(* A further message changes nothing for the earlier ones, ...              *)
LEMMA GreetingsKept ==
    ASSUME NEW token, NEW D, NEW h \in Seq(D), NEW e \in D, NEW i \in 1 .. Len(h) + 1
    PROVE  /\ Greetings(token, Append(h, e), i) = Greetings(token, h, i)
           /\ Latest(token, Append(h, e), i) = Latest(token, h, i)
<1>1. \A j \in 1 .. i - 1 : Append(h, e)[j] = h[j]
  BY AppendProperties
<1>2. Greetings(token, Append(h, e), i) = Greetings(token, h, i)
  BY <1>1, Zenon DEF Greetings
<1>3. CASE Greetings(token, h, i) = {}
  BY <1>2, <1>3 DEF Latest
<1>4. CASE Greetings(token, h, i) # {}
  <2>1. i - 1 \in Nat
    BY LenProperties
  <2>2. Greetings(token, h, i) \in SUBSET (1 .. i - 1)
    BY DEF Greetings
  <2>3. Max(Greetings(token, h, i)) \in 1 .. i - 1
    BY <2>1, <2>2, <1>4, MaxBelow
  <2>4. Append(h, e)[Max(Greetings(token, h, i))] = h[Max(Greetings(token, h, i))]
    BY <1>1, <2>3
  <2> QED
    BY <1>2, <1>4, <2>4, Zenon DEF Latest
<1> QED
  BY <1>2, <1>3, <1>4

(* ... and is itself the last one for what follows it. *)
LEMMA GreetingsNext ==
    ASSUME NEW token, NEW D, NEW h \in Seq(D), NEW e \in D
    PROVE  /\ Greets(token, e.frame.message) =>
                 /\ Greetings(token, Append(h, e), Len(h) + 2) # {}
                 /\ Latest(token, Append(h, e), Len(h) + 2) =
                       principal_from_token(e.frame.message.auth_token)
           /\ ~ Greets(token, e.frame.message) =>
                 /\ Greetings(token, Append(h, e), Len(h) + 2) = Greetings(token, h, Len(h) + 1)
                 /\ Latest(token, Append(h, e), Len(h) + 2) = Latest(token, h, Len(h) + 1)
<1> DEFINE n == Len(h)
           a == Append(h, e)
           G == Greetings(token, a, n + 2)
           F == Greetings(token, h, n + 1)
<1>1. n \in Nat /\ a[n + 1] = e /\ \A j \in 1 .. n : a[j] = h[j]
  BY AppendProperties, LenProperties
<1>2. G = {j \in 1 .. n + 1 : Greets(token, a[j].frame.message)}
  BY <1>1 DEF Greetings
<1>3. F = {j \in 1 .. n : Greets(token, h[j].frame.message)}
  BY <1>1 DEF Greetings
<1> HIDE DEF n, a, G, F
<1>4. CASE Greets(token, e.frame.message)
  <2>1. n + 1 \in G
    BY <1>1, <1>2, <1>4
  <2>2. G \in SUBSET Nat /\ \A j \in G : j <= n + 1
    BY <1>1, <1>2
  <2>3. Max(G) = n + 1
    BY <2>1, <2>2, MaxIs
  <2> QED
    BY <1>1, <1>4, <2>1, <2>3, Zenon DEF Latest, G, n, a
<1>5. CASE ~ Greets(token, e.frame.message)
  <2>1. \A j : j \in 1 .. n + 1 <=> j \in 1 .. n \/ j = n + 1
    BY <1>1
  <2>2. \A j : j \in G <=> j \in F
    BY <1>1, <1>2, <1>3, <1>5, <2>1, Zenon
  <2>3. G = F
    BY <2>2
  <2>4. F # {} => Max(F) \in 1 .. n
    <3>1. F \in SUBSET (1 .. n)
      BY <1>3
    <3> QED
      BY <3>1, <1>1, MaxBelow
  <2>5. F # {} => a[Max(F)] = h[Max(F)]
    BY <2>4, <1>1
  <2>6. Latest(token, a, n + 2) = Latest(token, h, n + 1)
    BY <2>3, <2>5, Zenon DEF Latest, G, F
  <2> QED
    BY <1>5, <2>3, <2>6, Zenon DEF n, a, G, F
<1> QED
  BY <1>4, <1>5

-----------------------------------------------------------------------------
(* What the connection's session stands for: the last handshake that        *)
(* succeeded among the messages dispatched so far.                          *)
PrincipalInv ==
    /\ \E D : handled \in Seq(D)
    /\ session = [wire_format      |-> session.wire_format,
                  protocol_version |-> session.protocol_version,
                  principal        |-> session.principal,
                  handshaken       |-> session.handshaken]
    /\ session.handshaken = (Greetings(env.token, handled, Len(handled) + 1) # {})
    /\ session.principal = Latest(env.token, handled, Len(handled) + 1)

(* The definitions of the property in the terms of the proofs. *)
LEMMA PropertyTerms ==
    /\ \A i : Accepted(i) <=> Greets(env.token, handled[i].frame.message)
    /\ \A i : PrincipalAt(i) = Latest(env.token, handled, i)
<1>1. \A i : Accepted(i) <=> Greets(env.token, handled[i].frame.message)
  BY Zenon DEF Accepted, Greets
<1>2. ASSUME NEW i PROVE PrincipalAt(i) = Latest(env.token, handled, i)
  <2>1. {j \in 1 .. i - 1 : Accepted(j)} = Greetings(env.token, handled, i)
    BY <1>1, Zenon DEF Greetings
  <2> QED
    BY <2>1, Zenon DEF PrincipalAt, Latest, principal_from_token
<1> QED
  BY <1>1, <1>2, Zenon

(* What process_handshake accepts. *)
LEMMA HandshakeResult ==
    ASSUME NEW m, m.kind = "Handshake"
    PROVE  process_handshake(m) = 0 <=> Greets(env.token, m)
BY DEF process_handshake, Greets, validate_token, validate_protocol_version

(* The gates let an operation run for the session's principal only. *)
LEMMA Dispatched ==
    ASSUME NEW s, NEW m, NEW out \in dispatch_message(s, m)
    PROVE  /\ m.kind = "Handshake" /\ Greets(env.token, m) =>
                 ~ out.ran /\ out.session = Handshaken(s, m)
           /\ ~ (m.kind = "Handshake" /\ Greets(env.token, m)) => out.session = s
           /\ out.ran => m.kind # "Handshake" /\ ~ Blocked(s, m) /\ ~ Denied(s, m)
<1>1. CASE m.kind = "Handshake"
  <2>1. CASE Greets(env.token, m)
    <3>1. process_handshake(m) = 0
      BY <1>1, <2>1, HandshakeResult
    <3>2. out = [session |-> Handshaken(s, m), ran |-> FALSE,
                 answer |-> Answer([kind |-> "RHandshake", code |-> 0,
                                    version |-> m.protocol_version])]
      BY <1>1, <3>1, Zenon DEF dispatch_message
    <3> HIDE DEF dispatch_message
    <3>3. out.session = Handshaken(s, m) /\ out.ran = FALSE
      BY <3>2
    <3> QED
      BY <1>1, <2>1, <3>3
  <2>2. CASE ~ Greets(env.token, m)
    <3>1. process_handshake(m) # 0
      BY <1>1, <2>2, HandshakeResult
    <3>2. out = [session |-> s, ran |-> FALSE, answer |-> RError(process_handshake(m))]
      BY <1>1, <3>1, Zenon DEF dispatch_message
    <3>3. out.session = s /\ out.ran = FALSE
      BY <3>2
    <3> QED
      BY <1>1, <2>2, <3>3
  <2> QED
    BY <2>1, <2>2
<1>2. CASE m.kind # "Handshake"
  <2>1. CASE Blocked(s, m)
    <3>1. out = [session |-> s, ran |-> FALSE, answer |-> RError(1)]
      BY <1>2, <2>1, Zenon DEF dispatch_message
    <3>2. out.session = s /\ out.ran = FALSE
      BY <3>1
    <3> QED
      BY <1>2, <3>2
  <2>2. CASE ~ Blocked(s, m) /\ Denied(s, m)
    <3>1. out = [session |-> s, ran |-> FALSE, answer |-> RError(3)]
      BY <1>2, <2>2, Zenon DEF dispatch_message
    <3>2. out.session = s /\ out.ran = FALSE
      BY <3>1
    <3> QED
      BY <1>2, <3>2
  <2>3. CASE ~ Blocked(s, m) /\ ~ Denied(s, m)
    <3>1. out \in {[session |-> s, ran |-> TRUE, answer |-> a] : a \in Outcomes(m)}
      BY <1>2, <2>3, Zenon DEF dispatch_message
    <3>2. PICK a \in Outcomes(m) : out = [session |-> s, ran |-> TRUE, answer |-> a]
      BY <3>1, Zenon
    <3>3. out.session = s
      BY <3>2
    <3> QED
      BY <1>2, <2>3, <3>3
  <2> QED
    BY <2>1, <2>2, <2>3
<1> QED
  BY <1>1, <1>2

(* What one round does to the session and the history, in terms of the      *)
(* message that was read.                                                   *)
LEMMA ServeEffect ==
    ASSUME Serve
    PROVE  \E frame, format, out :
              /\ out \in dispatch_message([session EXCEPT !.wire_format = format], frame.message)
              /\ session' = out.session
              /\ handled' = Append(handled, [frame |-> frame, format |-> format,
                                             ran |-> out.ran])
              /\ env' = env
<1> DEFINE next == read_frame(toBroker)
<1>1. PICK out \in dispatch_message([session EXCEPT !.wire_format = next.format],
                                    next.frame.message) :
         /\ session' = out.session
         /\ handled' = Append(handled, [frame |-> next.frame, format |-> next.format,
                                        ran |-> out.ran])
  BY Zenon DEF Serve
<1>2. env' = env
  BY DEF Serve
<1> HIDE DEF next
<1> QED
  BY <1>1, <1>2, Zenon

-----------------------------------------------------------------------------
(* RunsForItsPrincipal for one message of a history. *)
Permits(rules, principal, op, topic) ==
    \/ ~ rules.deny
    \/ \E who \in {principal, Anyone}, t \in {topic, 0} : <<who, op, t>> \in rules.acl

RunsAt(rules, h, i) ==
    LET m == h[i].frame.message IN
    h[i].ran =>
        /\ rules.require_handshake /\ m.kind \in NeedsHandshake
              => Greetings(rules.token, h, i) # {}
        /\ rules.deny /\ m.kind \in DOMAIN Operation
              => Permits(rules, Latest(rules.token, h, i), Operation[m.kind], m.topic_id)

LEMMA PropertyPointwise ==
    RunsForItsPrincipal <=> \A i \in DOMAIN handled : RunsAt(env, handled, i)
<1>1. DOMAIN Operation = {"Fetch", "Produce", "IdempotentProduce", "CreateTopic"}
  BY DEF Operation
<1>2. \A p, op, t : AclAllows(p, op, t) <=> Permits(env, p, op, t)
  BY Zenon DEF AclAllows, Permits
<1>3. ASSUME NEW i
      PROVE  (\E j \in 1 .. i - 1 : Accepted(j)) <=> Greetings(env.token, handled, i) # {}
  <2>1. \A j : Accepted(j) <=> Greets(env.token, handled[j].frame.message)
    BY PropertyTerms, Zenon
  <2> QED
    BY <2>1, Zenon DEF Greetings
<1>4. \A i : PrincipalAt(i) = Latest(env.token, handled, i)
  BY PropertyTerms, Zenon
<1>5. ASSUME NEW i
      PROVE  RunsAt(env, handled, i) <=>
                LET m == handled[i].frame.message IN
                handled[i].ran =>
                    /\ env.require_handshake
                       /\ m.kind \in {"Echo", "Fetch", "Produce", "IdempotentProduce"}
                          => \E j \in 1 .. i - 1 : Accepted(j)
                    /\ env.deny
                       /\ m.kind \in {"Fetch", "Produce", "IdempotentProduce", "CreateTopic"}
                          => AclAllows(PrincipalAt(i), Operation[m.kind], m.topic_id)
  <2>1. PrincipalAt(i) = Latest(env.token, handled, i)
    BY <1>4, Zenon
  <2> QED
    BY <1>1, <1>2, <1>3, <2>1, Zenon DEF RunsAt, NeedsHandshake
<1> QED
  BY <1>5, Zenon DEF RunsForItsPrincipal

LEMMA PrincipalInit == Init => PrincipalInv /\ RunsForItsPrincipal
<1> SUFFICES ASSUME Init PROVE PrincipalInv /\ RunsForItsPrincipal
  OBVIOUS
<1>1. handled = <<>> /\ session = DefaultSession
  BY DEF Init
<1>2. handled \in Seq({}) /\ Len(handled) = 0 /\ DOMAIN handled = {}
  BY <1>1
<1>3. Greetings(env.token, handled, Len(handled) + 1) = {}
  BY <1>2 DEF Greetings
<1>4. Latest(env.token, handled, Len(handled) + 1) = Anonymous
  BY <1>3 DEF Latest
<1>5. PrincipalInv
  <2>1. \E D : handled \in Seq(D)
    BY <1>2, Zenon
  <2>2. /\ session.handshaken = FALSE /\ session.principal = Anonymous
        /\ session = [wire_format      |-> session.wire_format,
                      protocol_version |-> session.protocol_version,
                      principal        |-> session.principal,
                      handshaken       |-> session.handshaken]
    BY <1>1 DEF DefaultSession
  <2> QED
    BY <1>3, <1>4, <2>1, <2>2 DEF PrincipalInv
<1>6. RunsForItsPrincipal
  BY <1>2, PropertyPointwise
<1> QED
  BY <1>5, <1>6

(* One round of the broker's loop. *)
LEMMA PrincipalServe ==
    ASSUME PrincipalInv, RunsForItsPrincipal, Serve
    PROVE  PrincipalInv' /\ RunsForItsPrincipal'
<1>1. PICK frame, format, out :
         /\ out \in dispatch_message([session EXCEPT !.wire_format = format], frame.message)
         /\ session' = out.session
         /\ handled' = Append(handled, [frame |-> frame, format |-> format, ran |-> out.ran])
         /\ env' = env
  BY ServeEffect, Zenon
<1>2. PICK C : handled \in Seq(C)
  BY DEF PrincipalInv
<1> DEFINE s == [session EXCEPT !.wire_format = format]
           m == frame.message
           e == [frame |-> frame, format |-> format, ran |-> out.ran]
           D == C \cup {e}
           n == Len(handled)
<1>3. /\ s.principal = session.principal
      /\ s.handshaken = session.handshaken
      /\ s = [wire_format |-> format, protocol_version |-> session.protocol_version,
              principal |-> session.principal, handshaken |-> session.handshaken]
  BY DEF PrincipalInv
<1>4. e.frame.message = m /\ e.ran = out.ran
  OBVIOUS
<1>5. e \in D /\ handled \in Seq(D)
  BY <1>2
<1>6. /\ m.kind = "Handshake" /\ Greets(env.token, m) =>
            ~ out.ran /\ out.session = Handshaken(s, m)
      /\ ~ (m.kind = "Handshake" /\ Greets(env.token, m)) => out.session = s
      /\ out.ran => m.kind # "Handshake" /\ ~ Blocked(s, m) /\ ~ Denied(s, m)
  BY <1>1, Dispatched
<1>7. /\ handled' = Append(handled, e) /\ handled' \in Seq(D) /\ n \in Nat
      /\ Len(handled') = n + 1 /\ DOMAIN handled' = 1 .. n + 1 /\ DOMAIN handled = 1 .. n
      /\ handled'[n + 1] = e /\ \A i \in 1 .. n : handled'[i] = handled[i]
  BY <1>1, <1>5, AppendProperties, LenProperties
<1> HIDE DEF s, e, D
<1>8. PrincipalInv'
  <2>0. \E S : handled' \in Seq(S)
    BY <1>7, Zenon
  <2>1. Len(handled') + 1 = n + 2
    BY <1>7
  <2>2. CASE Greets(env.token, m)
    <3>1. m.kind = "Handshake"
      BY <2>2 DEF Greets
    <3>2. session' = Handshaken(s, m)
      BY <1>1, <1>6, <2>2, <3>1
    <3>3. /\ session'.handshaken = TRUE
          /\ session'.principal = principal_from_token(m.auth_token)
          /\ session' = [wire_format      |-> session'.wire_format,
                         protocol_version |-> session'.protocol_version,
                         principal        |-> session'.principal,
                         handshaken       |-> session'.handshaken]
      BY <1>3, <3>2 DEF Handshaken
    <3>4. /\ Greetings(env.token, handled', n + 2) # {}
          /\ Latest(env.token, handled', n + 2) = principal_from_token(m.auth_token)
      <4>1. /\ Greetings(env.token, Append(handled, e), Len(handled) + 2) # {}
            /\ Latest(env.token, Append(handled, e), Len(handled) + 2) =
                  principal_from_token(e.frame.message.auth_token)
        <5>1. Greets(env.token, e.frame.message)
          BY <1>4, <2>2, Zenon
        <5> QED
          BY <1>5, <5>1, GreetingsNext
      <4> QED
        BY <4>1, <1>4, <1>7, Zenon
    <3> QED
      BY <1>1, <2>0, <2>1, <3>3, <3>4 DEF PrincipalInv
  <2>3. CASE ~ Greets(env.token, m)
    <3>1. session' = s
      BY <1>1, <1>6, <2>3
    <3>2. /\ Greetings(env.token, handled', n + 2) = Greetings(env.token, handled, n + 1)
          /\ Latest(env.token, handled', n + 2) = Latest(env.token, handled, n + 1)
      BY <1>4, <1>5, <1>7, <2>3, GreetingsNext
    <3>3. session' = [wire_format      |-> session'.wire_format,
                      protocol_version |-> session'.protocol_version,
                      principal        |-> session'.principal,
                      handshaken       |-> session'.handshaken]
      BY <1>3, <3>1
    <3> QED
      BY <1>1, <1>3, <2>0, <2>1, <3>1, <3>2, <3>3 DEF PrincipalInv
  <2> QED
    BY <2>2, <2>3
<1>9. \A i \in DOMAIN handled' : RunsAt(env, handled', i)
  <2>1. ASSUME NEW i \in 1 .. n PROVE RunsAt(env, handled', i)
    <3>1. RunsAt(env, handled, i)
      BY <1>7, <2>1, PropertyPointwise
    <3>2. i \in 1 .. Len(handled) + 1
      BY <1>7
    <3>3. /\ Greetings(env.token, handled', i) = Greetings(env.token, handled, i)
          /\ Latest(env.token, handled', i) = Latest(env.token, handled, i)
      BY <1>5, <1>7, <3>2, GreetingsKept
    <3>4. handled'[i] = handled[i]
      BY <1>7
    <3> QED
      BY <3>1, <3>3, <3>4, Zenon DEF RunsAt
  <2>2. RunsAt(env, handled', n + 1)
    <3>1. n + 1 \in 1 .. Len(handled) + 1
      BY <1>7
    <3>2. /\ Greetings(env.token, handled', n + 1) = Greetings(env.token, handled, n + 1)
          /\ Latest(env.token, handled', n + 1) = Latest(env.token, handled, n + 1)
      BY <1>5, <1>7, <3>1, GreetingsKept
    <3>3. out.ran /\ env.require_handshake /\ m.kind \in NeedsHandshake
             => Greetings(env.token, handled, n + 1) # {}
      BY <1>3, <1>6 DEF PrincipalInv, Blocked
    <3>4. out.ran /\ m.kind \in DOMAIN Operation
             => Permits(env, Latest(env.token, handled, n + 1), Operation[m.kind], m.topic_id)
      <4>1. out.ran /\ m.kind \in DOMAIN Operation
               => AclAllows(s.principal, Operation[m.kind], m.topic_id)
        BY <1>6, Zenon DEF Denied
      <4>2. s.principal = Latest(env.token, handled, n + 1)
        BY <1>3 DEF PrincipalInv
      <4> QED
        BY <4>1, <4>2, Zenon DEF AclAllows, Permits
    <3>5. handled'[n + 1].frame.message = m /\ handled'[n + 1].ran = out.ran
      BY <1>4, <1>7
    <3> QED
      BY <3>2, <3>3, <3>4, <3>5, Zenon DEF RunsAt
  <2>3. \A i \in 1 .. n + 1 : i \in 1 .. n \/ i = n + 1
    BY <1>7
  <2> QED
    BY <1>7, <2>1, <2>2, <2>3
<1>10. RunsForItsPrincipal'
  <2>1. \A i \in DOMAIN handled' : RunsAt(env', handled', i)
    BY <1>1, <1>9
  <2>2. (RunsForItsPrincipal <=> \A i \in DOMAIN handled : RunsAt(env, handled, i))'
    BY PropertyPointwise, PTL
  <2> QED
    BY <2>1, <2>2
<1> QED
  BY <1>8, <1>10

(* All other steps leave settings, session and history alone. *)
LEMMA PrincipalOthers ==
    ASSUME PrincipalInv, RunsForItsPrincipal, UNCHANGED <<env, session, handled>>
    PROVE  PrincipalInv' /\ RunsForItsPrincipal'
<1>1. env' = env /\ session' = session /\ handled' = handled
  OBVIOUS
<1>2. PrincipalInv'
  BY <1>1 DEF PrincipalInv
<1>3. \A i \in DOMAIN handled' : RunsAt(env', handled', i)
  BY <1>1, PropertyPointwise
<1>4. (RunsForItsPrincipal <=> \A i \in DOMAIN handled : RunsAt(env, handled, i))'
  BY PropertyPointwise, PTL
<1> QED
  BY <1>2, <1>3, <1>4

(* An operation runs only on behalf of the last handshake that succeeded on *)
(* this connection: after one, when handshakes are required, and if the ACL *)
(* lets its principal do it (the gates of dispatch_message), for any        *)
(* settings and requests, and whatever bytes arrive.                        *)
THEOREM RunsForItsPrincipalCorrect == Spec => []RunsForItsPrincipal
<1> DEFINE Inv == PrincipalInv /\ RunsForItsPrincipal
<1>1. Init => Inv
  BY PrincipalInit
<1>2. Inv /\ [Next]_vars => Inv'
  <2> SUFFICES ASSUME PrincipalInv, RunsForItsPrincipal, [Next]_vars PROVE Inv'
    OBVIOUS
  <2>1. CASE Serve
    BY <2>1, PrincipalServe
  <2>2. ASSUME NEW format, Send(format) PROVE Inv'
    <3>1. UNCHANGED <<env, session, handled>>
      BY <2>2 DEF Send
    <3> QED
      BY <3>1, PrincipalOthers
  <2>3. CASE ReadFails \/ Receive \/ Break \/ UNCHANGED vars
    <3>1. UNCHANGED <<env, session, handled>>
      BY <2>3 DEF ReadFails, Receive, Break, vars
    <3> QED
      BY <3>1, PrincipalOthers
  <2> QED
    BY <2>1, <2>2, <2>3 DEF Next
<1>3. Inv => RunsForItsPrincipal
  OBVIOUS
<1> HIDE DEF Inv
<1> QED
  BY <1>1, <1>2, <1>3, PTL DEF Spec

-----------------------------------------------------------------------------
(* Bytes and numbers: what Put writes, Get reads (to_be_bytes,              *)
(* from_be_bytes).                                                          *)

(* The sequence s is in p at position at. *)
Holds(p, at, s) ==
    /\ at + Len(s) <= Len(p)
    /\ \A i \in 1 .. Len(s) : p[at + i] = s[i]

(* What fits in four bytes. *)
Word(v) == v \in Nat /\ v <= 4294967295

(* The types of bytes, u16s and numbers, as bounds. *)
LEMMA Types ==
    /\ \A v \in Byte : v \in Nat /\ v <= 255
    /\ \A v \in Nat : v <= 255 => v \in Byte
    /\ \A v \in U16 : v \in Nat /\ v <= MaxU16
    /\ \A v \in Nat : v <= MaxU16 => v \in U16
    /\ \A v \in Number : Word(v)
    /\ MaxU16 \in Nat
<1>1. \A v \in Byte : v \in Nat /\ v <= 255
  BY SMT DEF Byte
<1>2. \A v \in Nat : v <= 255 => v \in Byte
  BY SMT DEF Byte
<1>3. MaxU16 \in Nat
  BY SMT DEF MaxU16
<1>4. \A v : v \in U16 <=> v \in Nat /\ v <= MaxU16
  BY <1>3, SMT DEF U16
<1>5. ASSUME NEW v \in Number PROVE Word(v)
  <2>1. v \in Nat /\ v <= MaxNumber
    BY SMT DEF Number
  <2>2. MaxNumber \in Nat /\ MaxNumber <= 4294967295
    BY SMT DEF MaxNumber
  <2> QED
    BY <2>1, <2>2, SMT DEF Word
<1> QED
  BY <1>1, <1>2, <1>3, <1>4, <1>5

(* Short byte strings. *)
LEMMA FewBytes ==
    /\ \A a, b \in Byte : <<a, b>> \in Bytes
    /\ \A a \in Byte : <<a>> \in Bytes
    /\ <<>> \in Bytes
BY SMT DEF Bytes

(* A function on 1 .. n is a sequence of n bytes. *)
LEMMA Written ==
    ASSUME NEW S, NEW n \in Nat, NEW s \in [1 .. n -> S]
    PROVE  s \in Seq(S) /\ Len(s) = n
OBVIOUS

(* to_be_bytes: its bytes, from the last. *)
LEMMA Put2 ==
    ASSUME NEW v \in Nat
    PROVE  /\ Put(v, 2) \in Bytes /\ Len(Put(v, 2)) = 2
           /\ Put(v, 2)[1] = (v \div 256) % 256 /\ Put(v, 2)[2] = v % 256
<1>1. Put(v, 2) = [i \in 1 .. 2 |-> IF i = 2 THEN v % 256 ELSE (v \div 256) % 256]
  BY SMT DEF Put
<1>2. v % 256 \in Byte /\ (v \div 256) % 256 \in Byte
  BY Types, SMT
<1>3. Put(v, 2) \in [1 .. 2 -> Byte]
  BY <1>1, <1>2, SMT
<1>4. Put(v, 2) \in Bytes /\ Len(Put(v, 2)) = 2
  BY <1>3, Written DEF Bytes
<1> QED
  BY <1>1, <1>4, SMT

(* The same, in four bytes. *)
LEMMA Put4 ==
    ASSUME NEW v, Word(v)
    PROVE  /\ Put(v, 4) \in Bytes /\ Len(Put(v, 4)) = 4
           /\ Put(v, 4)[1] = v \div 16777216 /\ Put(v, 4)[2] = (v \div 65536) % 256
           /\ Put(v, 4)[3] = (v \div 256) % 256 /\ Put(v, 4)[4] = v % 256
<1>1. Put(v, 4) = [i \in 1 .. 4 |-> IF i = 4 THEN v % 256
                                    ELSE IF i = 3 THEN (v \div 256) % 256
                                    ELSE IF i = 2 THEN (v \div 65536) % 256
                                    ELSE v \div 16777216]
  BY SMT DEF Put
<1>2. /\ v % 256 \in Byte /\ (v \div 256) % 256 \in Byte
      /\ (v \div 65536) % 256 \in Byte /\ v \div 16777216 \in Byte
  BY Types, SMT DEF Word
<1>3. Put(v, 4) \in [1 .. 4 -> Byte]
  BY <1>1, <1>2, SMT
<1>4. Put(v, 4) \in Bytes /\ Len(Put(v, 4)) = 4
  BY <1>3, Written DEF Bytes
<1> QED
  BY <1>1, <1>4, SMT

(* The same, in eight bytes. *)
LEMMA Put8 ==
    ASSUME NEW v, Word(v)
    PROVE  /\ Put(v, 8) \in Bytes /\ Len(Put(v, 8)) = 8
           /\ Put(v, 8)[5] = v \div 16777216 /\ Put(v, 8)[6] = (v \div 65536) % 256
           /\ Put(v, 8)[7] = (v \div 256) % 256 /\ Put(v, 8)[8] = v % 256
<1>1. Put(v, 8) = [i \in 1 .. 8 |-> IF i = 8 THEN v % 256
                                    ELSE IF i = 7 THEN (v \div 256) % 256
                                    ELSE IF i = 6 THEN (v \div 65536) % 256
                                    ELSE IF i = 5 THEN v \div 16777216
                                    ELSE 0]
  BY SMT DEF Put
<1>2. /\ v % 256 \in Byte /\ (v \div 256) % 256 \in Byte /\ 0 \in Byte
      /\ (v \div 65536) % 256 \in Byte /\ v \div 16777216 \in Byte
  BY Types, SMT DEF Word
<1>3. Put(v, 8) \in [1 .. 8 -> Byte]
  BY <1>1, <1>2, SMT
<1>4. Put(v, 8) \in Bytes /\ Len(Put(v, 8)) = 8
  BY <1>3, 8 \in Nat, Written, Zenon DEF Bytes
<1> QED
  BY <1>1, <1>4, SMT

(* A number is the sum of its digits to the base 256. *)
LEMMA Digits ==
    ASSUME NEW v \in Nat
    PROVE  /\ v <= 65535 => (v % 256) + 256 * ((v \div 256) % 256) = v
           /\ (v % 256) + 256 * ((v \div 256) % 256) + 65536 * ((v \div 65536) % 256)
                 + 16777216 * (v \div 16777216) = v
BY SMT

(* from_be_bytes reads what to_be_bytes wrote. *)
LEMMA Get2 ==
    ASSUME NEW p \in Bytes, NEW at \in Nat, NEW v \in U16, Holds(p, at, Put(v, 2))
    PROVE  Get(p, at, 2) = v
<1> DEFINE s == Put(v, 2)
<1>1. v \in Nat /\ v <= 65535
  <2>1. v \in Nat /\ v <= MaxU16
    BY Types, SMT
  <2> QED
    BY <2>1, SMT DEF MaxU16
<1>2. Len(s) = 2 /\ Holds(p, at, s)
  BY <1>1, Put2
<1>3. s[1] = (v \div 256) % 256 /\ s[2] = v % 256
  BY <1>1, Put2
<1> HIDE DEF s
<1>4. p[at + 1] = (v \div 256) % 256 /\ p[at + 2] = v % 256
  <2>1. \A i \in 1 .. Len(s) : p[at + i] = s[i]
    BY <1>2, Zenon DEF Holds
  <2>2. \A i \in 1 .. 2 : p[at + i] = s[i]
    BY <1>2, <2>1, Zenon
  <2> QED
    BY <1>3, <2>2, SMT
<1>5. Get(p, at, 2) = p[at + 2] + 256 * p[at + 1]
  <2>1. p[at + 2] \in Int /\ p[at + 1] \in Int
    BY <1>1, <1>4, SMT
  <2>2. Get(p, at, 2) = p[at + 2 - 1 + 1] + 256 * p[at + 2 - 2 + 1] + 65536 * 0 + 16777216 * 0
    BY SMT DEF Get
  <2> QED
    BY <2>1, <2>2, SMT
<1> QED
  BY <1>1, <1>4, <1>5, Digits, SMT

(* The same, in four bytes. *)
LEMMA Get4 ==
    ASSUME NEW p \in Bytes, NEW at \in Nat, NEW v, Word(v), Holds(p, at, Put(v, 4))
    PROVE  Get(p, at, 4) = v
<1> DEFINE s == Put(v, 4)
<1>1. v \in Nat
  BY SMT DEF Word
<1>2. Len(s) = 4 /\ Holds(p, at, s)
  BY <1>1, Put4
<1>3. /\ s[1] = v \div 16777216 /\ s[2] = (v \div 65536) % 256
      /\ s[3] = (v \div 256) % 256 /\ s[4] = v % 256
  BY <1>1, Put4
<1> HIDE DEF s
<1>4. /\ p[at + 1] = v \div 16777216 /\ p[at + 2] = (v \div 65536) % 256
      /\ p[at + 3] = (v \div 256) % 256 /\ p[at + 4] = v % 256
  <2>1. \A i \in 1 .. Len(s) : p[at + i] = s[i]
    BY <1>2, Zenon DEF Holds
  <2>2. \A i \in 1 .. 4 : p[at + i] = s[i]
    BY <1>2, <2>1, Zenon
  <2> QED
    BY <1>3, <2>2, SMT
<1>5. Get(p, at, 4) = p[at + 4] + 256 * p[at + 3] + 65536 * p[at + 2] + 16777216 * p[at + 1]
  BY SMT DEF Get
<1> QED
  BY <1>1, <1>4, <1>5, Digits, SMT

(* The same, in eight bytes. *)
LEMMA Get8 ==
    ASSUME NEW p \in Bytes, NEW at \in Nat, NEW v, Word(v), Holds(p, at, Put(v, 8))
    PROVE  Get(p, at, 8) = v
<1> DEFINE s == Put(v, 8)
<1>1. v \in Nat
  BY SMT DEF Word
<1>2. Len(s) = 8 /\ Holds(p, at, s)
  BY <1>1, Put8
<1>3. /\ s[5] = v \div 16777216 /\ s[6] = (v \div 65536) % 256
      /\ s[7] = (v \div 256) % 256 /\ s[8] = v % 256
  BY <1>1, Put8
<1> HIDE DEF s
<1>4. /\ p[at + 5] = v \div 16777216 /\ p[at + 6] = (v \div 65536) % 256
      /\ p[at + 7] = (v \div 256) % 256 /\ p[at + 8] = v % 256
  <2>1. \A i \in 1 .. Len(s) : p[at + i] = s[i]
    BY <1>2, Zenon DEF Holds
  <2>2. \A i \in 1 .. 8 : p[at + i] = s[i]
    BY <1>2, <2>1, Zenon
  <2> QED
    BY <1>3, <2>2, SMT
<1>5. Get(p, at, 8) = p[at + 8] + 256 * p[at + 7] + 65536 * p[at + 6] + 16777216 * p[at + 5]
  BY SMT DEF Get
<1> QED
  BY <1>1, <1>4, <1>5, Digits, SMT

(* What a reader finds is a number of that width. *)
LEMMA GetTypes ==
    ASSUME NEW p \in Bytes, NEW at \in Nat
    PROVE  /\ at + 2 <= Len(p) => Get(p, at, 2) \in Nat
           /\ at + 4 <= Len(p) => Word(Get(p, at, 4))
<1>1. \A i \in 1 .. Len(p) : p[i] \in Nat /\ p[i] <= 255
  <2>1. \A i \in 1 .. Len(p) : p[i] \in Byte
    BY SMT DEF Bytes
  <2> QED
    BY <2>1, Types, SMT
<1>2. Len(p) \in Nat
  BY SMT DEF Bytes
<1>3. ASSUME at + 2 <= Len(p) PROVE Get(p, at, 2) \in Nat
  <2>1. p[at + 1] \in Nat /\ p[at + 2] \in Nat
    BY <1>1, <1>2, <1>3, SMT
  <2>2. Get(p, at, 2) = p[at + 2 - 1 + 1] + 256 * p[at + 2 - 2 + 1] + 65536 * 0 + 16777216 * 0
    BY SMT DEF Get
  <2> QED
    BY <2>1, <2>2, SMT
<1>4. ASSUME at + 4 <= Len(p) PROVE Word(Get(p, at, 4))
  <2>1. /\ p[at + 1] \in Nat /\ p[at + 2] \in Nat /\ p[at + 3] \in Nat /\ p[at + 4] \in Nat
        /\ p[at + 1] <= 255 /\ p[at + 2] <= 255 /\ p[at + 3] <= 255 /\ p[at + 4] <= 255
    BY <1>1, <1>2, <1>4, SMT
  <2>2. Get(p, at, 4) = p[at + 4] + 256 * p[at + 3] + 65536 * p[at + 2] + 16777216 * p[at + 1]
    BY SMT DEF Get
  <2> QED
    BY <2>1, <2>2, SMT DEF Word
<1> QED
  BY <1>3, <1>4

(* Concatenations, and the parts of one that is in p. *)
LEMMA Cat2 ==
    ASSUME NEW s \in Bytes, NEW t \in Bytes
    PROVE  /\ s \o t \in Bytes /\ Len(s) \in Nat /\ Len(t) \in Nat
           /\ Len(s \o t) = Len(s) + Len(t)
           /\ \A i \in 1 .. Len(s) : (s \o t)[i] = s[i]
           /\ \A i \in 1 .. Len(t) : (s \o t)[Len(s) + i] = t[i]
<1>1. s \in Seq(Byte) /\ t \in Seq(Byte)
  BY DEF Bytes
<1>2. Len(s) \in Nat /\ Len(t) \in Nat
  BY <1>1, LenProperties
<1>3. /\ s \o t \in Seq(Byte) /\ Len(s \o t) = Len(s) + Len(t)
      /\ \A i \in 1 .. Len(s) + Len(t) :
            (s \o t)[i] = IF i <= Len(s) THEN s[i] ELSE t[i - Len(s)]
  BY <1>1, ConcatProperties
<1>4. \A i \in 1 .. Len(s) : (s \o t)[i] = s[i]
  BY <1>2, <1>3
<1>5. \A i \in 1 .. Len(t) : (s \o t)[Len(s) + i] = t[i]
  BY <1>2, <1>3
<1> QED
  BY <1>2, <1>3, <1>4, <1>5 DEF Bytes

(* Bytes hold themselves. *)
LEMMA HoldsSelf ==
    ASSUME NEW p \in Bytes
    PROVE  Holds(p, 0, p) /\ Len(p) \in Nat
<1>1. Len(p) \in Nat
  BY LenProperties DEF Bytes
<1> QED
  BY <1>1 DEF Holds

(* A place that holds a concatenation holds its parts, one behind the       *)
(* other: two, ...                                                          *)
LEMMA Holds2 ==
    ASSUME NEW p \in Bytes, NEW at \in Nat, NEW s \in Bytes, NEW t \in Bytes,
           Holds(p, at, s \o t)
    PROVE  Holds(p, at, s) /\ Holds(p, at + Len(s), t)
<1>1. Len(p) \in Nat
  BY HoldsSelf
<1> DEFINE c == s \o t
<1>2. /\ Len(s) \in Nat /\ Len(t) \in Nat /\ Len(c) = Len(s) + Len(t)
      /\ \A i \in 1 .. Len(s) : c[i] = s[i]
      /\ \A i \in 1 .. Len(t) : c[Len(s) + i] = t[i]
  BY Cat2
<1> HIDE DEF c
<1>3. at + Len(c) <= Len(p) /\ \A i \in 1 .. Len(c) : p[at + i] = c[i]
  BY DEF Holds, c
<1>4. Holds(p, at, s)
  BY <1>1, <1>2, <1>3 DEF Holds
<1>5. Holds(p, at + Len(s), t)
  <2>1. at + Len(s) + Len(t) <= Len(p)
    BY <1>1, <1>2, <1>3
  <2>2. ASSUME NEW i \in 1 .. Len(t) PROVE p[at + Len(s) + i] = t[i]
    <3>1. Len(s) + i \in 1 .. Len(c) /\ at + Len(s) + i = at + (Len(s) + i)
      BY <1>2
    <3> QED
      BY <1>2, <1>3, <3>1
  <2> QED
    BY <2>1, <2>2 DEF Holds
<1> QED
  BY <1>4, <1>5

(* ... three, ... *)
LEMMA Holds3 ==
    ASSUME NEW p \in Bytes, NEW at \in Nat, NEW s \in Bytes, NEW t \in Bytes, NEW u \in Bytes,
           Holds(p, at, s \o t \o u)
    PROVE  /\ Holds(p, at, s) /\ Holds(p, at + Len(s), t)
           /\ Holds(p, at + Len(s) + Len(t), u)
<1> DEFINE c == s \o t
<1>1. c \in Bytes /\ Len(c) = Len(s) + Len(t) /\ Len(s) \in Nat /\ Len(t) \in Nat
  BY Cat2
<1> HIDE DEF c
<1>2. Holds(p, at, c) /\ Holds(p, at + Len(c), u)
  BY <1>1, Holds2 DEF c
<1>3. Holds(p, at, s) /\ Holds(p, at + Len(s), t)
  BY <1>2, Holds2 DEF c
<1>4. at + Len(c) = at + Len(s) + Len(t)
  BY <1>1
<1> QED
  BY <1>2, <1>3, <1>4

(* ... four, ... *)
LEMMA Holds4 ==
    ASSUME NEW p \in Bytes, NEW at \in Nat, NEW s \in Bytes, NEW t \in Bytes, NEW u \in Bytes,
           NEW v \in Bytes, Holds(p, at, s \o t \o u \o v)
    PROVE  /\ Holds(p, at, s) /\ Holds(p, at + Len(s), t)
           /\ Holds(p, at + Len(s) + Len(t), u)
           /\ Holds(p, at + Len(s) + Len(t) + Len(u), v)
<1> DEFINE c == s \o t
<1>1. c \in Bytes /\ Len(c) = Len(s) + Len(t) /\ Len(s) \in Nat /\ Len(t) \in Nat
  BY Cat2
<1> HIDE DEF c
<1>2. Holds(p, at, c) /\ Holds(p, at + Len(c), u) /\ Holds(p, at + Len(c) + Len(u), v)
  BY <1>1, Holds3 DEF c
<1>3. Holds(p, at, s) /\ Holds(p, at + Len(s), t)
  BY <1>2, Holds2 DEF c
<1>4. at + Len(c) = at + Len(s) + Len(t)
  BY <1>1
<1> QED
  BY <1>2, <1>3, <1>4

(* ... and five of them. *)
LEMMA Holds5 ==
    ASSUME NEW p \in Bytes, NEW at \in Nat, NEW s \in Bytes, NEW t \in Bytes, NEW u \in Bytes,
           NEW v \in Bytes, NEW w \in Bytes, Holds(p, at, s \o t \o u \o v \o w)
    PROVE  /\ Holds(p, at, s) /\ Holds(p, at + Len(s), t)
           /\ Holds(p, at + Len(s) + Len(t), u)
           /\ Holds(p, at + Len(s) + Len(t) + Len(u), v)
           /\ Holds(p, at + Len(s) + Len(t) + Len(u) + Len(v), w)
<1> DEFINE c == s \o t
<1>1. c \in Bytes /\ Len(c) = Len(s) + Len(t) /\ Len(s) \in Nat /\ Len(t) \in Nat
  BY Cat2
<1> HIDE DEF c
<1>2. /\ Holds(p, at, c) /\ Holds(p, at + Len(c), u) /\ Holds(p, at + Len(c) + Len(u), v)
      /\ Holds(p, at + Len(c) + Len(u) + Len(v), w)
  BY <1>1, Holds4 DEF c
<1>3. Holds(p, at, s) /\ Holds(p, at + Len(s), t)
  BY <1>2, Holds2 DEF c
<1>4. at + Len(c) = at + Len(s) + Len(t)
  BY <1>1
<1> QED
  BY <1>2, <1>3, <1>4

(* The length of three parts, ... *)
LEMMA Cat3 ==
    ASSUME NEW s \in Bytes, NEW t \in Bytes, NEW u \in Bytes
    PROVE  s \o t \o u \in Bytes /\ Len(s \o t \o u) = Len(s) + Len(t) + Len(u)
BY Cat2

(* ... of four, ... *)
LEMMA Cat4 ==
    ASSUME NEW s \in Bytes, NEW t \in Bytes, NEW u \in Bytes, NEW v \in Bytes
    PROVE  /\ s \o t \o u \o v \in Bytes
           /\ Len(s \o t \o u \o v) = Len(s) + Len(t) + Len(u) + Len(v)
BY Cat2, Cat3

(* ... of five, ... *)
LEMMA Cat5 ==
    ASSUME NEW s \in Bytes, NEW t \in Bytes, NEW u \in Bytes, NEW v \in Bytes,
           NEW w \in Bytes
    PROVE  /\ s \o t \o u \o v \o w \in Bytes
           /\ Len(s \o t \o u \o v \o w) = Len(s) + Len(t) + Len(u) + Len(v) + Len(w)
BY Cat2, Cat4

(* Slices. *)
LEMMA HoldsSlice ==
    ASSUME NEW p \in Bytes, NEW at \in Nat, NEW s \in Bytes, Holds(p, at, s)
    PROVE  Slice(p, at, Len(s)) = s
<1>1. s \in Seq(Byte) /\ p \in Seq(Byte) /\ Len(s) \in Nat /\ Len(p) \in Nat
  BY LenProperties DEF Bytes
<1>2. at + Len(s) <= Len(p) /\ \A i \in 1 .. Len(s) : p[at + i] = s[i]
  BY DEF Holds
<1> DEFINE m == at + 1
           n == at + Len(s)
           c == SubSeq(p, m, n)
<1>3. m \in Int /\ n \in Int /\ \A i \in m .. n : p[i] \in Byte
  BY <1>1, <1>2, ElementOfSeq
<1>4. /\ c \in Seq(Byte)
      /\ Len(c) = IF m <= n THEN n - m + 1 ELSE 0
      /\ \A i \in 1 .. n - m + 1 : c[i] = p[m + i - 1]
  BY <1>3, SubSeqProperties
<1> HIDE DEF c
<1>5. Len(c) = Len(s) /\ \A i \in 1 .. Len(s) : c[i] = p[at + i]
  BY <1>1, <1>4
<1>6. c = s
  BY <1>1, <1>2, <1>4, <1>5, SeqEqual
<1> QED
  BY <1>6 DEF Slice, c

(* All that is behind a position. *)
LEMMA HoldsFrom ==
    ASSUME NEW p \in Bytes, NEW at \in Nat, NEW s \in Bytes, Holds(p, at, s),
           Len(p) = at + Len(s)
    PROVE  From(p, at) = s
<1>1. Slice(p, at, Len(s)) = s
  BY HoldsSlice
<1> QED
  BY <1>1 DEF Slice, From

-----------------------------------------------------------------------------
(* The decoders of message.rs return what its encoders were given. *)

(* ProducerRegister: the decoder returns what was encoded. *)
LEMMA ProducerRegisterRead ==
    ASSUME NEW m \in [kind : {"ProducerRegister"}, port : U16, topic_id : U16]
    PROVE  /\ encode_producer_register(m) \in Bytes
           /\ decode_producer_register(encode_producer_register(m)) = m
<1> DEFINE a == Put(m.port, 2)
           b == Put(m.topic_id, 2)
           p == a \o b
<1>1. /\ m.port \in Nat /\ m.port \in U16
      /\ m.topic_id \in Nat /\ m.topic_id \in U16
  BY Types
<1>2. a \in Bytes /\ b \in Bytes
  BY <1>1, Put2
<1>3. Len(a) = 2 /\ Len(b) = 2
  BY <1>1, Put2
<1> HIDE DEF a, b
<1>4. p \in Bytes
  BY <1>2, Cat2, Zenon
<1>5. Len(p) = 4
  <2>1. Len(p) = Len(a) + Len(b)
    BY <1>2, Cat2
  <2> QED
    BY <1>3, <2>1
<1>6. Holds(p, 0, a) /\ Holds(p, 2, b)
  <2>1. 0 \in Nat /\ Holds(p, 0, p)
    BY <1>4, HoldsSelf
  <2>2. Holds(p, 0, a) /\ Holds(p, 0 + Len(a), b)
    BY <1>2, <1>4, <2>1, Holds2, Zenon
  <2> QED
    BY <1>3, <2>2
<1> HIDE DEF p
<1>7. Get(p, 0, 2) = m.port
  BY <1>1, <1>4, <1>6, Get2 DEF a
<1>8. Get(p, 2, 2) = m.topic_id
  BY <1>1, <1>4, <1>6, Get2 DEF b
<1>9. decode_producer_register(p) = [kind |-> "ProducerRegister", port |-> m.port,
                                     topic_id |-> m.topic_id]
  BY <1>5, <1>7, <1>8 DEF decode_producer_register
<1>10. p = encode_producer_register(m)
  BY DEF encode_producer_register, p, a, b
<1> QED
  BY <1>4, <1>9, <1>10

(* ConsumerRegister: the decoder returns what was encoded. *)
LEMMA ConsumerRegisterRead ==
    ASSUME NEW m \in [kind : {"ConsumerRegister"}, port : U16, topic_id : U16,
                      group_id : U16]
    PROVE  /\ encode_consumer_register(m) \in Bytes
           /\ decode_consumer_register(encode_consumer_register(m)) = m
<1> DEFINE a == Put(m.port, 2)
           b == Put(m.topic_id, 2)
           c == Put(m.group_id, 2)
           p == a \o b \o c
<1>1. /\ m.port \in Nat /\ m.port \in U16
      /\ m.topic_id \in Nat /\ m.topic_id \in U16
      /\ m.group_id \in Nat /\ m.group_id \in U16
  BY Types
<1>2. a \in Bytes /\ b \in Bytes /\ c \in Bytes
  BY <1>1, Put2
<1>3. Len(a) = 2 /\ Len(b) = 2 /\ Len(c) = 2
  BY <1>1, Put2
<1> HIDE DEF a, b, c
<1>4. p \in Bytes
  BY <1>2, Cat3, Zenon
<1>5. Len(p) = 6
  <2>1. Len(p) = Len(a) + Len(b) + Len(c)
    BY <1>2, Cat3
  <2> QED
    BY <1>3, <2>1
<1>6. Holds(p, 0, a) /\ Holds(p, 2, b) /\ Holds(p, 4, c)
  <2>1. 0 \in Nat /\ Holds(p, 0, p)
    BY <1>4, HoldsSelf
  <2>2. Holds(p, 0, a) /\ Holds(p, 0 + Len(a), b) /\ Holds(p, 0 + Len(a) + Len(b), c)
    BY <1>2, <1>4, <2>1, Holds3, Zenon
  <2> QED
    BY <1>3, <2>2
<1> HIDE DEF p
<1>7. Get(p, 0, 2) = m.port
  BY <1>1, <1>4, <1>6, Get2 DEF a
<1>8. Get(p, 2, 2) = m.topic_id
  BY <1>1, <1>4, <1>6, Get2 DEF b
<1>9. Get(p, 4, 2) = m.group_id
  BY <1>1, <1>4, <1>6, Get2 DEF c
<1>10. decode_consumer_register(p) = [kind |-> "ConsumerRegister", port |-> m.port,
                                      topic_id |-> m.topic_id, group_id |-> m.group_id]
  BY <1>5, <1>7, <1>8, <1>9 DEF decode_consumer_register
<1>11. p = encode_consumer_register(m)
  BY DEF encode_consumer_register, p, a, b, c
<1> QED
  BY <1>4, <1>10, <1>11

(* BrokerHeartbeat: the decoder returns what was encoded. *)
LEMMA BrokerHeartbeatRead ==
    ASSUME NEW m \in [kind : {"BrokerHeartbeat"}, broker_id : U16]
    PROVE  /\ encode_broker_heartbeat(m) \in Bytes
           /\ decode_broker_heartbeat(encode_broker_heartbeat(m)) = m
<1> DEFINE a == Put(m.broker_id, 2)
           p == a
<1>1. /\ m.broker_id \in Nat /\ m.broker_id \in U16
  BY Types
<1>2. a \in Bytes
  BY <1>1, Put2
<1>3. Len(a) = 2
  BY <1>1, Put2
<1> HIDE DEF a
<1>4. p \in Bytes
  BY <1>2
<1>5. Len(p) = 2
  BY <1>3
<1>6. Holds(p, 0, a)
  BY <1>4, HoldsSelf
<1> HIDE DEF p
<1>7. Get(p, 0, 2) = m.broker_id
  BY <1>1, <1>4, <1>6, Get2 DEF a
<1>8. decode_broker_heartbeat(p) = [kind |-> "BrokerHeartbeat",
                                    broker_id |-> m.broker_id]
  BY <1>5, <1>7 DEF decode_broker_heartbeat
<1>9. p = encode_broker_heartbeat(m)
  BY DEF encode_broker_heartbeat, p, a
<1> QED
  BY <1>4, <1>8, <1>9

(* JoinGroup: the decoder returns what was encoded. *)
LEMMA JoinGroupRead ==
    ASSUME NEW m \in [kind : {"JoinGroup"}, group_id : U16, topic_id : U16,
                      member_id : Number]
    PROVE  /\ encode_join_group(m) \in Bytes
           /\ decode_join_group(encode_join_group(m)) = m
<1> DEFINE a == Put(m.group_id, 2)
           b == Put(m.topic_id, 2)
           c == Put(m.member_id, 8)
           p == a \o b \o c
<1>1. /\ m.group_id \in Nat /\ m.group_id \in U16
      /\ m.topic_id \in Nat /\ m.topic_id \in U16
      /\ Word(m.member_id)
  BY Types
<1>2. a \in Bytes /\ b \in Bytes /\ c \in Bytes
  BY <1>1, Put2, Put8
<1>3. Len(a) = 2 /\ Len(b) = 2 /\ Len(c) = 8
  BY <1>1, Put2, Put8
<1> HIDE DEF a, b, c
<1>4. p \in Bytes
  BY <1>2, Cat3, Zenon
<1>5. Len(p) = 12
  <2>1. Len(p) = Len(a) + Len(b) + Len(c)
    BY <1>2, Cat3
  <2> QED
    BY <1>3, <2>1
<1>6. Holds(p, 0, a) /\ Holds(p, 2, b) /\ Holds(p, 4, c)
  <2>1. 0 \in Nat /\ Holds(p, 0, p)
    BY <1>4, HoldsSelf
  <2>2. Holds(p, 0, a) /\ Holds(p, 0 + Len(a), b) /\ Holds(p, 0 + Len(a) + Len(b), c)
    BY <1>2, <1>4, <2>1, Holds3, Zenon
  <2> QED
    BY <1>3, <2>2
<1> HIDE DEF p
<1>7. Get(p, 0, 2) = m.group_id
  BY <1>1, <1>4, <1>6, Get2 DEF a
<1>8. Get(p, 2, 2) = m.topic_id
  BY <1>1, <1>4, <1>6, Get2 DEF b
<1>9. Get(p, 4, 8) = m.member_id
  BY <1>1, <1>4, <1>6, Get8 DEF c
<1>10. decode_join_group(p) = [kind |-> "JoinGroup", group_id |-> m.group_id,
                               topic_id |-> m.topic_id, member_id |-> m.member_id]
  BY <1>5, <1>7, <1>8, <1>9 DEF decode_join_group
<1>11. p = encode_join_group(m)
  BY DEF encode_join_group, p, a, b, c
<1> QED
  BY <1>4, <1>10, <1>11

(* GroupHeartbeat: the decoder returns what was encoded. *)
LEMMA GroupHeartbeatRead ==
    ASSUME NEW m \in [kind : {"GroupHeartbeat"}, group_id : U16, member_id : Number,
                      generation : Number]
    PROVE  /\ encode_group_heartbeat(m) \in Bytes
           /\ decode_group_heartbeat(encode_group_heartbeat(m)) = m
<1> DEFINE a == Put(m.group_id, 2)
           b == Put(m.member_id, 8)
           c == Put(m.generation, 4)
           p == a \o b \o c
<1>1. /\ m.group_id \in Nat /\ m.group_id \in U16
      /\ Word(m.member_id)
      /\ Word(m.generation)
  BY Types
<1>2. a \in Bytes /\ b \in Bytes /\ c \in Bytes
  BY <1>1, Put2, Put4, Put8
<1>3. Len(a) = 2 /\ Len(b) = 8 /\ Len(c) = 4
  BY <1>1, Put2, Put4, Put8
<1> HIDE DEF a, b, c
<1>4. p \in Bytes
  BY <1>2, Cat3, Zenon
<1>5. Len(p) = 14
  <2>1. Len(p) = Len(a) + Len(b) + Len(c)
    BY <1>2, Cat3
  <2> QED
    BY <1>3, <2>1
<1>6. Holds(p, 0, a) /\ Holds(p, 2, b) /\ Holds(p, 10, c)
  <2>1. 0 \in Nat /\ Holds(p, 0, p)
    BY <1>4, HoldsSelf
  <2>2. Holds(p, 0, a) /\ Holds(p, 0 + Len(a), b) /\ Holds(p, 0 + Len(a) + Len(b), c)
    BY <1>2, <1>4, <2>1, Holds3, Zenon
  <2> QED
    BY <1>3, <2>2
<1> HIDE DEF p
<1>7. Get(p, 0, 2) = m.group_id
  BY <1>1, <1>4, <1>6, Get2 DEF a
<1>8. Get(p, 2, 8) = m.member_id
  BY <1>1, <1>4, <1>6, Get8 DEF b
<1>9. Get(p, 10, 4) = m.generation
  BY <1>1, <1>4, <1>6, Get4 DEF c
<1>10. decode_group_heartbeat(p) = [kind |-> "GroupHeartbeat", group_id |-> m.group_id,
                                    member_id |-> m.member_id,
                                    generation |-> m.generation]
  BY <1>5, <1>7, <1>8, <1>9 DEF decode_group_heartbeat
<1>11. p = encode_group_heartbeat(m)
  BY DEF encode_group_heartbeat, p, a, b, c
<1> QED
  BY <1>4, <1>10, <1>11

(* Fetch: the decoder returns what was encoded. *)
LEMMA FetchRead ==
    ASSUME NEW m \in [kind : {"Fetch"}, topic_id : U16, partition_id : U16,
                      offset : Number, max_bytes : Number, max_wait_ms : Number]
    PROVE  /\ encode_fetch(m) \in Bytes
           /\ decode_fetch(encode_fetch(m)) = m
<1> DEFINE a == Put(m.topic_id, 2)
           b == Put(m.partition_id, 2)
           c == Put(m.offset, 8)
           d == Put(m.max_bytes, 4)
           e == Put(m.max_wait_ms, 4)
           p == a \o b \o c \o d \o e
<1>1. /\ m.topic_id \in Nat /\ m.topic_id \in U16
      /\ m.partition_id \in Nat /\ m.partition_id \in U16
      /\ Word(m.offset)
      /\ Word(m.max_bytes)
      /\ Word(m.max_wait_ms)
  BY Types
<1>2. a \in Bytes /\ b \in Bytes /\ c \in Bytes /\ d \in Bytes /\ e \in Bytes
  BY <1>1, Put2, Put4, Put8
<1>3. Len(a) = 2 /\ Len(b) = 2 /\ Len(c) = 8 /\ Len(d) = 4 /\ Len(e) = 4
  BY <1>1, Put2, Put4, Put8
<1> HIDE DEF a, b, c, d, e
<1>4. p \in Bytes
  BY <1>2, Cat5, Zenon
<1>5. Len(p) = 20
  <2>1. Len(p) = Len(a) + Len(b) + Len(c) + Len(d) + Len(e)
    BY <1>2, Cat5
  <2> QED
    BY <1>3, <2>1
<1>6. Holds(p, 0, a) /\ Holds(p, 2, b) /\ Holds(p, 4, c) /\ Holds(p, 12, d) /\
      Holds(p, 16, e)
  <2>1. 0 \in Nat /\ Holds(p, 0, p)
    BY <1>4, HoldsSelf
  <2>2. Holds(p, 0, a) /\ Holds(p, 0 + Len(a), b) /\
        Holds(p, 0 + Len(a) + Len(b), c) /\
        Holds(p, 0 + Len(a) + Len(b) + Len(c), d) /\
        Holds(p, 0 + Len(a) + Len(b) + Len(c) + Len(d), e)
    BY <1>2, <1>4, <2>1, Holds5, ZenonT(60)
  <2> QED
    BY <1>3, <2>2
<1> HIDE DEF p
<1>7. Get(p, 0, 2) = m.topic_id
  BY <1>1, <1>4, <1>6, Get2 DEF a
<1>8. Get(p, 2, 2) = m.partition_id
  BY <1>1, <1>4, <1>6, Get2 DEF b
<1>9. Get(p, 4, 8) = m.offset
  BY <1>1, <1>4, <1>6, Get8 DEF c
<1>10. Get(p, 12, 4) = m.max_bytes
  BY <1>1, <1>4, <1>6, Get4 DEF d
<1>11. Get(p, 16, 4) = m.max_wait_ms
  BY <1>1, <1>4, <1>6, Get4 DEF e
<1>12. decode_fetch(p) = [kind |-> "Fetch", topic_id |-> m.topic_id,
                          partition_id |-> m.partition_id, offset |-> m.offset,
                          max_bytes |-> m.max_bytes, max_wait_ms |-> m.max_wait_ms]
  BY <1>5, <1>7, <1>8, <1>9, <1>10, <1>11 DEF decode_fetch
<1>13. p = encode_fetch(m)
  BY DEF encode_fetch, p, a, b, c, d, e
<1> QED
  BY <1>4, <1>12, <1>13

(* CommitOffset: the decoder returns what was encoded. *)
LEMMA CommitOffsetRead ==
    ASSUME NEW m \in [kind : {"CommitOffset"}, group_id : U16, topic_id : U16,
                      partition_id : U16, offset : Number]
    PROVE  /\ encode_commit_offset(m) \in Bytes
           /\ decode_commit_offset(encode_commit_offset(m)) = m
<1> DEFINE a == Put(m.group_id, 2)
           b == Put(m.topic_id, 2)
           c == Put(m.partition_id, 2)
           d == Put(m.offset, 8)
           p == a \o b \o c \o d
<1>1. /\ m.group_id \in Nat /\ m.group_id \in U16
      /\ m.topic_id \in Nat /\ m.topic_id \in U16
      /\ m.partition_id \in Nat /\ m.partition_id \in U16
      /\ Word(m.offset)
  BY Types
<1>2. a \in Bytes /\ b \in Bytes /\ c \in Bytes /\ d \in Bytes
  BY <1>1, Put2, Put8
<1>3. Len(a) = 2 /\ Len(b) = 2 /\ Len(c) = 2 /\ Len(d) = 8
  BY <1>1, Put2, Put8
<1> HIDE DEF a, b, c, d
<1>4. p \in Bytes
  BY <1>2, Cat4, Zenon
<1>5. Len(p) = 14
  <2>1. Len(p) = Len(a) + Len(b) + Len(c) + Len(d)
    BY <1>2, Cat4
  <2> QED
    BY <1>3, <2>1
<1>6. Holds(p, 0, a) /\ Holds(p, 2, b) /\ Holds(p, 4, c) /\ Holds(p, 6, d)
  <2>1. 0 \in Nat /\ Holds(p, 0, p)
    BY <1>4, HoldsSelf
  <2>2. Holds(p, 0, a) /\ Holds(p, 0 + Len(a), b) /\
        Holds(p, 0 + Len(a) + Len(b), c) /\ Holds(p, 0 + Len(a) + Len(b) + Len(c), d)
    BY <1>2, <1>4, <2>1, Holds4, Zenon
  <2> QED
    BY <1>3, <2>2
<1> HIDE DEF p
<1>7. Get(p, 0, 2) = m.group_id
  BY <1>1, <1>4, <1>6, Get2 DEF a
<1>8. Get(p, 2, 2) = m.topic_id
  BY <1>1, <1>4, <1>6, Get2 DEF b
<1>9. Get(p, 4, 2) = m.partition_id
  BY <1>1, <1>4, <1>6, Get2 DEF c
<1>10. Get(p, 6, 8) = m.offset
  BY <1>1, <1>4, <1>6, Get8 DEF d
<1>11. decode_commit_offset(p) = [kind |-> "CommitOffset", group_id |-> m.group_id,
                                  topic_id |-> m.topic_id,
                                  partition_id |-> m.partition_id, offset |-> m.offset]
  BY <1>5, <1>7, <1>8, <1>9, <1>10 DEF decode_commit_offset
<1>12. p = encode_commit_offset(m)
  BY DEF encode_commit_offset, p, a, b, c, d
<1> QED
  BY <1>4, <1>11, <1>12

(* CreateTopic: the decoder returns what was encoded. *)
LEMMA CreateTopicRead ==
    ASSUME NEW m \in [kind : {"CreateTopic"}, topic_id : U16, partition_count : U16,
                      max_records : Number]
    PROVE  /\ encode_create_topic(m) \in Bytes
           /\ decode_create_topic(encode_create_topic(m)) = m
<1> DEFINE a == Put(m.topic_id, 2)
           b == Put(m.partition_count, 2)
           c == Put(m.max_records, 4)
           p == a \o b \o c
<1>1. /\ m.topic_id \in Nat /\ m.topic_id \in U16
      /\ m.partition_count \in Nat /\ m.partition_count \in U16
      /\ Word(m.max_records)
  BY Types
<1>2. a \in Bytes /\ b \in Bytes /\ c \in Bytes
  BY <1>1, Put2, Put4
<1>3. Len(a) = 2 /\ Len(b) = 2 /\ Len(c) = 4
  BY <1>1, Put2, Put4
<1> HIDE DEF a, b, c
<1>4. p \in Bytes
  BY <1>2, Cat3, Zenon
<1>5. Len(p) = 8
  <2>1. Len(p) = Len(a) + Len(b) + Len(c)
    BY <1>2, Cat3
  <2> QED
    BY <1>3, <2>1
<1>6. Holds(p, 0, a) /\ Holds(p, 2, b) /\ Holds(p, 4, c)
  <2>1. 0 \in Nat /\ Holds(p, 0, p)
    BY <1>4, HoldsSelf
  <2>2. Holds(p, 0, a) /\ Holds(p, 0 + Len(a), b) /\ Holds(p, 0 + Len(a) + Len(b), c)
    BY <1>2, <1>4, <2>1, Holds3, Zenon
  <2> QED
    BY <1>3, <2>2
<1> HIDE DEF p
<1>7. Get(p, 0, 2) = m.topic_id
  BY <1>1, <1>4, <1>6, Get2 DEF a
<1>8. Get(p, 2, 2) = m.partition_count
  BY <1>1, <1>4, <1>6, Get2 DEF b
<1>9. Get(p, 4, 4) = m.max_records
  BY <1>1, <1>4, <1>6, Get4 DEF c
<1>10. decode_create_topic(p) = [kind |-> "CreateTopic", topic_id |-> m.topic_id,
                                 partition_count |-> m.partition_count,
                                 max_records |-> m.max_records]
  BY <1>5, <1>7, <1>8, <1>9 DEF decode_create_topic
<1>11. p = encode_create_topic(m)
  BY DEF encode_create_topic, p, a, b, c
<1> QED
  BY <1>4, <1>10, <1>11

(* DescribeTopic: the decoder returns what was encoded. *)
LEMMA DescribeTopicRead ==
    ASSUME NEW m \in [kind : {"DescribeTopic"}, topic_id : U16]
    PROVE  /\ encode_describe_topic(m) \in Bytes
           /\ decode_describe_topic(encode_describe_topic(m)) = m
<1> DEFINE a == Put(m.topic_id, 2)
           p == a
<1>1. /\ m.topic_id \in Nat /\ m.topic_id \in U16
  BY Types
<1>2. a \in Bytes
  BY <1>1, Put2
<1>3. Len(a) = 2
  BY <1>1, Put2
<1> HIDE DEF a
<1>4. p \in Bytes
  BY <1>2
<1>5. Len(p) = 2
  BY <1>3
<1>6. Holds(p, 0, a)
  BY <1>4, HoldsSelf
<1> HIDE DEF p
<1>7. Get(p, 0, 2) = m.topic_id
  BY <1>1, <1>4, <1>6, Get2 DEF a
<1>8. decode_describe_topic(p) = [kind |-> "DescribeTopic", topic_id |-> m.topic_id]
  BY <1>5, <1>7 DEF decode_describe_topic
<1>9. p = encode_describe_topic(m)
  BY DEF encode_describe_topic, p, a
<1> QED
  BY <1>4, <1>8, <1>9

(* GetLag: the decoder returns what was encoded. *)
LEMMA GetLagRead ==
    ASSUME NEW m \in [kind : {"GetLag"}, group_id : U16, topic_id : U16]
    PROVE  /\ encode_get_lag(m) \in Bytes
           /\ decode_get_lag(encode_get_lag(m)) = m
<1> DEFINE a == Put(m.group_id, 2)
           b == Put(m.topic_id, 2)
           p == a \o b
<1>1. /\ m.group_id \in Nat /\ m.group_id \in U16
      /\ m.topic_id \in Nat /\ m.topic_id \in U16
  BY Types
<1>2. a \in Bytes /\ b \in Bytes
  BY <1>1, Put2
<1>3. Len(a) = 2 /\ Len(b) = 2
  BY <1>1, Put2
<1> HIDE DEF a, b
<1>4. p \in Bytes
  BY <1>2, Cat2, Zenon
<1>5. Len(p) = 4
  <2>1. Len(p) = Len(a) + Len(b)
    BY <1>2, Cat2
  <2> QED
    BY <1>3, <2>1
<1>6. Holds(p, 0, a) /\ Holds(p, 2, b)
  <2>1. 0 \in Nat /\ Holds(p, 0, p)
    BY <1>4, HoldsSelf
  <2>2. Holds(p, 0, a) /\ Holds(p, 0 + Len(a), b)
    BY <1>2, <1>4, <2>1, Holds2, Zenon
  <2> QED
    BY <1>3, <2>2
<1> HIDE DEF p
<1>7. Get(p, 0, 2) = m.group_id
  BY <1>1, <1>4, <1>6, Get2 DEF a
<1>8. Get(p, 2, 2) = m.topic_id
  BY <1>1, <1>4, <1>6, Get2 DEF b
<1>9. decode_get_lag(p) = [kind |-> "GetLag", group_id |-> m.group_id,
                           topic_id |-> m.topic_id]
  BY <1>5, <1>7, <1>8 DEF decode_get_lag
<1>10. p = encode_get_lag(m)
  BY DEF encode_get_lag, p, a, b
<1> QED
  BY <1>4, <1>9, <1>10

(* Produce: the decoder returns what was encoded. *)
LEMMA ProduceRead ==
    ASSUME NEW m \in [kind : {"Produce"}, topic_id : U16, partition_id : U16,
                      payload : Bytes]
    PROVE  /\ encode_produce(m) \in Bytes
           /\ decode_produce(encode_produce(m)) = m
<1> DEFINE a == Put(m.topic_id, 2)
           b == Put(m.partition_id, 2)
           c == m.payload
           p == a \o b \o c
<1>1. /\ m.topic_id \in Nat /\ m.topic_id \in U16
      /\ m.partition_id \in Nat /\ m.partition_id \in U16
  BY Types
<1>2. a \in Bytes /\ b \in Bytes /\ c \in Bytes
  BY <1>1, Put2, HoldsSelf
<1>3. Len(a) = 2 /\ Len(b) = 2 /\ Len(c) \in Nat
  BY <1>1, Put2, HoldsSelf
<1> HIDE DEF a, b, c
<1>4. p \in Bytes
  BY <1>2, Cat3, Zenon
<1>5. Len(p) = 4 + Len(c)
  <2>1. Len(p) = Len(a) + Len(b) + Len(c)
    BY <1>2, Cat3
  <2> QED
    BY <1>3, <2>1
<1>6. Holds(p, 0, a) /\ Holds(p, 2, b) /\ Holds(p, 4, c)
  <2>1. 0 \in Nat /\ Holds(p, 0, p)
    BY <1>4, HoldsSelf
  <2>2. Holds(p, 0, a) /\ Holds(p, 0 + Len(a), b) /\ Holds(p, 0 + Len(a) + Len(b), c)
    BY <1>2, <1>4, <2>1, Holds3, Zenon
  <2> QED
    BY <1>3, <2>2
<1> HIDE DEF p
<1>7. Get(p, 0, 2) = m.topic_id
  BY <1>1, <1>4, <1>6, Get2 DEF a
<1>8. Get(p, 2, 2) = m.partition_id
  BY <1>1, <1>4, <1>6, Get2 DEF b
<1>9. From(p, 4) = m.payload
  <2>1. From(p, 4) = c
    BY <1>2, <1>4, <1>5, <1>6, HoldsFrom
  <2> QED
    BY <2>1 DEF c
<1>10. decode_produce(p) = [kind |-> "Produce", topic_id |-> m.topic_id,
                            partition_id |-> m.partition_id, payload |-> m.payload]
  BY <1>3, <1>5, <1>7, <1>8, <1>9 DEF decode_produce
<1>11. p = encode_produce(m)
  BY DEF encode_produce, p, a, b, c
<1> QED
  BY <1>4, <1>10, <1>11

(* IdempotentProduce: the decoder returns what was encoded. *)
LEMMA IdempotentProduceRead ==
    ASSUME NEW m \in [kind : {"IdempotentProduce"}, topic_id : U16, partition_id : U16,
                      producer_id : Number, sequence : Number, payload : Bytes]
    PROVE  /\ encode_idempotent_produce(m) \in Bytes
           /\ decode_idempotent_produce(encode_idempotent_produce(m)) = m
<1> DEFINE a == Put(m.topic_id, 2)
           b == Put(m.partition_id, 2)
           c == Put(m.producer_id, 8)
           d == Put(m.sequence, 8)
           e == m.payload
           p == a \o b \o c \o d \o e
<1>1. /\ m.topic_id \in Nat /\ m.topic_id \in U16
      /\ m.partition_id \in Nat /\ m.partition_id \in U16
      /\ Word(m.producer_id)
      /\ Word(m.sequence)
  BY Types
<1>2. a \in Bytes /\ b \in Bytes /\ c \in Bytes /\ d \in Bytes /\ e \in Bytes
  BY <1>1, Put2, Put8, HoldsSelf
<1>3. Len(a) = 2 /\ Len(b) = 2 /\ Len(c) = 8 /\ Len(d) = 8 /\ Len(e) \in Nat
  BY <1>1, Put2, Put8, HoldsSelf
<1> HIDE DEF a, b, c, d, e
<1>4. p \in Bytes
  BY <1>2, Cat5, Zenon
<1>5. Len(p) = 20 + Len(e)
  <2>1. Len(p) = Len(a) + Len(b) + Len(c) + Len(d) + Len(e)
    BY <1>2, Cat5
  <2> QED
    BY <1>3, <2>1
<1>6. Holds(p, 0, a) /\ Holds(p, 2, b) /\ Holds(p, 4, c) /\ Holds(p, 12, d) /\
      Holds(p, 20, e)
  <2>1. 0 \in Nat /\ Holds(p, 0, p)
    BY <1>4, HoldsSelf
  <2>2. Holds(p, 0, a) /\ Holds(p, 0 + Len(a), b) /\
        Holds(p, 0 + Len(a) + Len(b), c) /\
        Holds(p, 0 + Len(a) + Len(b) + Len(c), d) /\
        Holds(p, 0 + Len(a) + Len(b) + Len(c) + Len(d), e)
    BY <1>2, <1>4, <2>1, Holds5, ZenonT(60)
  <2> QED
    BY <1>3, <2>2
<1> HIDE DEF p
<1>7. Get(p, 0, 2) = m.topic_id
  BY <1>1, <1>4, <1>6, Get2 DEF a
<1>8. Get(p, 2, 2) = m.partition_id
  BY <1>1, <1>4, <1>6, Get2 DEF b
<1>9. Get(p, 4, 8) = m.producer_id
  BY <1>1, <1>4, <1>6, Get8 DEF c
<1>10. Get(p, 12, 8) = m.sequence
  BY <1>1, <1>4, <1>6, Get8 DEF d
<1>11. From(p, 20) = m.payload
  <2>1. From(p, 20) = e
    BY <1>2, <1>4, <1>5, <1>6, HoldsFrom
  <2> QED
    BY <2>1 DEF e
<1>12. decode_idempotent_produce(p) = [kind |-> "IdempotentProduce",
                                       topic_id |-> m.topic_id,
                                       partition_id |-> m.partition_id,
                                       producer_id |-> m.producer_id,
                                       sequence |-> m.sequence, payload |-> m.payload]
  BY <1>3, <1>5, <1>7, <1>8, <1>9, <1>10, <1>11 DEF decode_idempotent_produce
<1>13. p = encode_idempotent_produce(m)
  BY DEF encode_idempotent_produce, p, a, b, c, d, e
<1> QED
  BY <1>4, <1>12, <1>13

-----------------------------------------------------------------------------
(* parse_frame: the type byte and the decoder of its variant. *)

(* The variant that a type byte names. *)
KindOf(type) ==
    IF type \in DOMAIN Requests THEN Requests[type]
    ELSE IF type - 100 \in DOMAIN Answers THEN Answers[type - 100] ELSE "none"

(* Requests, ... *)
LEMMA RequestType ==
    ASSUME NEW kind, \E n \in 1 .. 18 : Requests[n] = kind
    PROVE  message_type_byte(kind) \in Byte /\ KindOf(message_type_byte(kind)) = kind
<1>1. DOMAIN Requests = 1 .. 18
  BY DEF Requests
<1>2. message_type_byte(kind) = CHOOSE n \in DOMAIN Requests : Requests[n] = kind
  BY <1>1, Zenon DEF message_type_byte
<1>3. /\ message_type_byte(kind) \in DOMAIN Requests
      /\ Requests[message_type_byte(kind)] = kind
  BY <1>1, <1>2, Zenon
<1>4. message_type_byte(kind) \in Byte
  BY <1>1, <1>3, Types
<1> QED
  BY <1>3, <1>4, Zenon DEF KindOf

(* ... and answers. *)
LEMMA AnswerType ==
    ASSUME NEW kind, \E n \in 1 .. 19 : Answers[n] = kind, \A n \in 1 .. 18 : Requests[n] # kind
    PROVE  message_type_byte(kind) \in Byte /\ KindOf(message_type_byte(kind)) = kind
<1>1. DOMAIN Requests = 1 .. 18 /\ DOMAIN Answers = 1 .. 19
  BY DEF Requests, Answers
<1> DEFINE n == CHOOSE i \in DOMAIN Answers : Answers[i] = kind
<1>2. message_type_byte(kind) = 100 + n
  BY <1>1, Zenon DEF message_type_byte
<1>3. n \in DOMAIN Answers /\ Answers[n] = kind
  BY <1>1, Zenon
<1> HIDE DEF n
<1>4. n \in Nat /\ 100 + n \notin 1 .. 18 /\ (100 + n) - 100 = n /\ 100 + n <= 119
  BY <1>1, <1>3
<1>5. message_type_byte(kind) \in Byte
  BY <1>2, <1>4, Types
<1> QED
  BY <1>1, <1>2, <1>3, <1>4, <1>5 DEF KindOf

(* parse_frame, by the variant that the type byte names. *)
LEMMA Parsed ==
    ASSUME NEW body, body # <<>>, NEW kind, KindOf(body[1]) = kind
    PROVE  /\ kind \in Bare => parse_frame(body) = [kind |-> kind]
           /\ kind \in OfBytes => parse_frame(body) = [kind |-> kind, bytes |-> Tail(body)]
           /\ kind \in OfStatus =>
                   parse_frame(body) = [kind |-> kind, code |-> FirstOr0(Tail(body))]
           /\ kind = "ProducerRegister" => parse_frame(body) = decode_producer_register(Tail(body))
           /\ kind = "ConsumerRegister" => parse_frame(body) = decode_consumer_register(Tail(body))
           /\ kind = "Fetch" => parse_frame(body) = decode_fetch(Tail(body))
           /\ kind = "CommitOffset" => parse_frame(body) = decode_commit_offset(Tail(body))
           /\ kind = "Produce" => parse_frame(body) = decode_produce(Tail(body))
           /\ kind = "CreateTopic" => parse_frame(body) = decode_create_topic(Tail(body))
           /\ kind = "DescribeTopic" => parse_frame(body) = decode_describe_topic(Tail(body))
           /\ kind = "GetLag" => parse_frame(body) = decode_get_lag(Tail(body))
           /\ kind = "Replicate" => parse_frame(body) = decode_replicate(Tail(body))
           /\ kind = "IdempotentProduce" =>
                   parse_frame(body) = decode_idempotent_produce(Tail(body))
           /\ kind = "BrokerHeartbeat" => parse_frame(body) = decode_broker_heartbeat(Tail(body))
           /\ kind = "JoinGroup" => parse_frame(body) = decode_join_group(Tail(body))
           /\ kind = "GroupHeartbeat" => parse_frame(body) = decode_group_heartbeat(Tail(body))
           /\ kind = "Handshake" => parse_frame(body) = decode_handshake(Tail(body))
           /\ kind = "RProduce" => parse_frame(body) =
                 IF Len(Tail(body)) < 8 THEN Err
                       ELSE [kind |-> kind, offset |-> Get(Tail(body), 0, 8)]
           /\ kind = "RNotLeader" => parse_frame(body) =
                 IF Len(Tail(body)) < 2 THEN Err
                       ELSE [kind |-> kind, leader |-> Get(Tail(body), 0, 2)]
           /\ kind = "RGroupHeartbeat" => parse_frame(body) =
                 [kind |-> kind, code |-> FirstOr0(Tail(body)),
                  flag |-> IF Len(Tail(body)) < 2 THEN 0 ELSE Tail(body)[2]]
           /\ kind = "RHandshake" => parse_frame(body) =
                 IF Len(Tail(body)) < 3 THEN Err
                 ELSE [kind |-> kind, code |-> Tail(body)[1], version |-> Get(Tail(body), 1, 2)]
           /\ kind = "RError" => parse_frame(body) =
                 IF Tail(body) = <<>> THEN Err
                 ELSE [kind |-> kind, code |-> Tail(body)[1], bytes |-> From(Tail(body), 1)]
           /\ kind = "none" => parse_frame(body) = Err
<1>1. ASSUME kind \in Bare
      PROVE  parse_frame(body) = [kind |-> kind]
  BY <1>1, ZenonT(60) DEF parse_frame, KindOf, Bare, OfBytes, OfStatus
<1>2. ASSUME kind \in OfBytes
      PROVE  parse_frame(body) = [kind |-> kind, bytes |-> Tail(body)]
  <2>1. /\ kind \notin Bare /\ kind \notin OfStatus
        /\ kind \notin {"ProducerRegister", "ConsumerRegister", "Fetch",
                         "CommitOffset", "Produce", "CreateTopic", "DescribeTopic",
                         "GetLag", "Replicate", "IdempotentProduce", "BrokerHeartbeat",
                         "JoinGroup", "GroupHeartbeat", "Handshake", "RProduce",
                         "RNotLeader", "RGroupHeartbeat", "RHandshake", "RError",
                         "none"}
    BY <1>2 DEF Bare, OfBytes, OfStatus
  <2> QED
    BY <1>2, <2>1, Zenon DEF parse_frame, KindOf
<1>3. ASSUME kind \in OfStatus
      PROVE  parse_frame(body) = [kind |-> kind, code |-> FirstOr0(Tail(body))]
  <2>1. /\ kind \notin Bare /\ kind \notin OfBytes
        /\ kind \notin {"ProducerRegister", "ConsumerRegister", "Fetch",
                         "CommitOffset", "Produce", "CreateTopic", "DescribeTopic",
                         "GetLag", "Replicate", "IdempotentProduce", "BrokerHeartbeat",
                         "JoinGroup", "GroupHeartbeat", "Handshake", "RProduce",
                         "RNotLeader", "RGroupHeartbeat", "RHandshake", "RError",
                         "none"}
    BY <1>3 DEF Bare, OfBytes, OfStatus
  <2> QED
    BY <1>3, <2>1, Zenon DEF parse_frame, KindOf
<1>4. ASSUME kind = "ProducerRegister"
      PROVE  parse_frame(body) = decode_producer_register(Tail(body))
  BY <1>4, Zenon DEF parse_frame, KindOf, Bare, OfBytes, OfStatus
<1>5. ASSUME kind = "ConsumerRegister"
      PROVE  parse_frame(body) = decode_consumer_register(Tail(body))
  BY <1>5, Zenon DEF parse_frame, KindOf, Bare, OfBytes, OfStatus
<1>6. ASSUME kind = "Fetch"
      PROVE  parse_frame(body) = decode_fetch(Tail(body))
  BY <1>6, Zenon DEF parse_frame, KindOf, Bare, OfBytes, OfStatus
<1>7. ASSUME kind = "CommitOffset"
      PROVE  parse_frame(body) = decode_commit_offset(Tail(body))
  BY <1>7, Zenon DEF parse_frame, KindOf, Bare, OfBytes, OfStatus
<1>8. ASSUME kind = "Produce"
      PROVE  parse_frame(body) = decode_produce(Tail(body))
  BY <1>8, Zenon DEF parse_frame, KindOf, Bare, OfBytes, OfStatus
<1>9. ASSUME kind = "CreateTopic"
      PROVE  parse_frame(body) = decode_create_topic(Tail(body))
  BY <1>9, Zenon DEF parse_frame, KindOf, Bare, OfBytes, OfStatus
<1>10. ASSUME kind = "DescribeTopic"
      PROVE  parse_frame(body) = decode_describe_topic(Tail(body))
  BY <1>10, Zenon DEF parse_frame, KindOf, Bare, OfBytes, OfStatus
<1>11. ASSUME kind = "GetLag"
      PROVE  parse_frame(body) = decode_get_lag(Tail(body))
  BY <1>11, Zenon DEF parse_frame, KindOf, Bare, OfBytes, OfStatus
<1>12. ASSUME kind = "Replicate"
      PROVE  parse_frame(body) = decode_replicate(Tail(body))
  BY <1>12, Zenon DEF parse_frame, KindOf, Bare, OfBytes, OfStatus
<1>13. ASSUME kind = "IdempotentProduce"
      PROVE  parse_frame(body) = decode_idempotent_produce(Tail(body))
  BY <1>13, Zenon DEF parse_frame, KindOf, Bare, OfBytes, OfStatus
<1>14. ASSUME kind = "BrokerHeartbeat"
      PROVE  parse_frame(body) = decode_broker_heartbeat(Tail(body))
  BY <1>14, Zenon DEF parse_frame, KindOf, Bare, OfBytes, OfStatus
<1>15. ASSUME kind = "JoinGroup"
      PROVE  parse_frame(body) = decode_join_group(Tail(body))
  BY <1>15, Zenon DEF parse_frame, KindOf, Bare, OfBytes, OfStatus
<1>16. ASSUME kind = "GroupHeartbeat"
      PROVE  parse_frame(body) = decode_group_heartbeat(Tail(body))
  BY <1>16, Zenon DEF parse_frame, KindOf, Bare, OfBytes, OfStatus
<1>17. ASSUME kind = "Handshake"
      PROVE  parse_frame(body) = decode_handshake(Tail(body))
  BY <1>17, Zenon DEF parse_frame, KindOf, Bare, OfBytes, OfStatus
<1>18. ASSUME kind = "RProduce"
      PROVE  parse_frame(body) =
                 IF Len(Tail(body)) < 8 THEN Err
                       ELSE [kind |-> kind, offset |-> Get(Tail(body), 0, 8)]
  BY <1>18, Zenon DEF parse_frame, KindOf, Bare, OfBytes, OfStatus
<1>19. ASSUME kind = "RNotLeader"
      PROVE  parse_frame(body) =
                 IF Len(Tail(body)) < 2 THEN Err
                       ELSE [kind |-> kind, leader |-> Get(Tail(body), 0, 2)]
  BY <1>19, Zenon DEF parse_frame, KindOf, Bare, OfBytes, OfStatus
<1>20. ASSUME kind = "RGroupHeartbeat"
      PROVE  parse_frame(body) =
                 [kind |-> kind, code |-> FirstOr0(Tail(body)),
                  flag |-> IF Len(Tail(body)) < 2 THEN 0 ELSE Tail(body)[2]]
  BY <1>20, Zenon DEF parse_frame, KindOf, Bare, OfBytes, OfStatus
<1>21. ASSUME kind = "RHandshake"
      PROVE  parse_frame(body) =
                 IF Len(Tail(body)) < 3 THEN Err
                 ELSE [kind |-> kind, code |-> Tail(body)[1], version |-> Get(Tail(body), 1, 2)]
  BY <1>21, Zenon DEF parse_frame, KindOf, Bare, OfBytes, OfStatus
<1>22. ASSUME kind = "RError"
      PROVE  parse_frame(body) =
                 IF Tail(body) = <<>> THEN Err
                 ELSE [kind |-> kind, code |-> Tail(body)[1], bytes |-> From(Tail(body), 1)]
  BY <1>22, Zenon DEF parse_frame, KindOf, Bare, OfBytes, OfStatus
<1>23. ASSUME kind = "none"
      PROVE  parse_frame(body) = Err
  BY <1>23, ZenonT(60) DEF parse_frame, KindOf, Bare, OfBytes, OfStatus
<1> QED
  BY <1>1, <1>2, <1>3, <1>4, <1>5, <1>6, <1>7, <1>8, <1>9, <1>10, <1>11, <1>12, <1>13, <1>14,
       <1>15, <1>16, <1>17, <1>18, <1>19, <1>20, <1>21, <1>22, <1>23, Zenon

(* Handshake: the decoder returns what was encoded. *)
LEMMA HandshakeRead ==
    ASSUME NEW m \in [kind : {"Handshake"}, protocol_version : U16, auth_token : Bytes]
    PROVE  /\ encode_handshake(m) \in Bytes
           /\ Len(m.auth_token) <= Len(encode_handshake(m))
           /\ Len(m.auth_token) \in U16 => decode_handshake(encode_handshake(m)) = m
<1> DEFINE a == Put(m.protocol_version, 2)
           b == Put(Len(m.auth_token), 2)
           c == m.auth_token
           p == a \o b \o c
<1>1. /\ m.protocol_version \in Nat /\ m.protocol_version \in U16
      /\ m.auth_token \in Bytes /\ Len(m.auth_token) \in Nat
  BY Types, HoldsSelf
<1>2. a \in Bytes /\ b \in Bytes /\ c \in Bytes
  BY <1>1, Put2
<1>3. Len(a) = 2 /\ Len(b) = 2 /\ Len(c) \in Nat
  BY <1>1, Put2
<1> HIDE DEF a, b, c
<1>4. p \in Bytes
  BY <1>2, Cat3, Zenon
<1>5. Len(p) = 4 + Len(c)
  <2>1. Len(p) = Len(a) + Len(b) + Len(c)
    BY <1>2, Cat3
  <2> QED
    BY <1>3, <2>1
<1>6. Holds(p, 0, a) /\ Holds(p, 2, b) /\ Holds(p, 4, c)
  <2>1. 0 \in Nat /\ Holds(p, 0, p)
    BY <1>4, HoldsSelf
  <2>2. Holds(p, 0, a) /\ Holds(p, 0 + Len(a), b) /\ Holds(p, 0 + Len(a) + Len(b), c)
    BY <1>2, <1>4, <2>1, Holds3, Zenon
  <2> QED
    BY <1>3, <2>2
<1> HIDE DEF p
<1>7. ASSUME Len(c) \in U16 PROVE decode_handshake(p) = m
  <2>1. Get(p, 0, 2) = m.protocol_version
    BY <1>1, <1>4, <1>6, Get2 DEF a
  <2>2. Get(p, 2, 2) = Len(c)
    BY <1>4, <1>6, <1>7, Get2 DEF b, c
  <2>3. Slice(p, 4, Len(c)) = c
    BY <1>2, <1>4, <1>6, HoldsSlice
  <2>4. decode_handshake(p) = [kind |-> "Handshake",
                               protocol_version |-> m.protocol_version, auth_token |-> c]
    BY <1>3, <1>5, <2>1, <2>2, <2>3 DEF decode_handshake
  <2> QED
    BY <2>4 DEF c
<1>8. p = encode_handshake(m) /\ c = m.auth_token
  BY DEF encode_handshake, p, a, b, c
<1>9. Len(c) <= Len(p)
  BY <1>3, <1>5
<1> QED
  BY <1>4, <1>7, <1>8, <1>9

(* Replicate: the decoder returns what was encoded. *)
LEMMA ReplicateRead ==
    ASSUME NEW m \in [kind : {"Replicate"}, topic_id : U16, partition_id : U16,
                      offset : Number, payload : Bytes]
    PROVE  /\ encode_replicate(m) \in Bytes
           /\ Len(m.payload) <= Len(encode_replicate(m))
           /\ Len(m.payload) \in U16 => decode_replicate(encode_replicate(m)) = m
<1> DEFINE a == Put(m.topic_id, 2)
           b == Put(m.partition_id, 2)
           c == Put(m.offset, 8)
           d == Put(Len(m.payload), 2)
           e == m.payload
           p == a \o b \o c \o d \o e
<1>1. /\ m.topic_id \in Nat /\ m.topic_id \in U16
      /\ m.partition_id \in Nat /\ m.partition_id \in U16
      /\ Word(m.offset)
      /\ m.payload \in Bytes /\ Len(m.payload) \in Nat
  BY Types, HoldsSelf
<1>2. a \in Bytes /\ b \in Bytes /\ c \in Bytes /\ d \in Bytes /\ e \in Bytes
  BY <1>1, Put2, Put8
<1>3. Len(a) = 2 /\ Len(b) = 2 /\ Len(c) = 8 /\ Len(d) = 2 /\ Len(e) \in Nat
  BY <1>1, Put2, Put8
<1> HIDE DEF a, b, c, d, e
<1>4. p \in Bytes
  BY <1>2, Cat5, Zenon
<1>5. Len(p) = 14 + Len(e)
  <2>1. Len(p) = Len(a) + Len(b) + Len(c) + Len(d) + Len(e)
    BY <1>2, Cat5
  <2> QED
    BY <1>3, <2>1
<1>6. Holds(p, 0, a) /\ Holds(p, 2, b) /\ Holds(p, 4, c) /\ Holds(p, 12, d) /\
      Holds(p, 14, e)
  <2>1. 0 \in Nat /\ Holds(p, 0, p)
    BY <1>4, HoldsSelf
  <2>2. Holds(p, 0, a) /\ Holds(p, 0 + Len(a), b) /\
        Holds(p, 0 + Len(a) + Len(b), c) /\
        Holds(p, 0 + Len(a) + Len(b) + Len(c), d) /\
        Holds(p, 0 + Len(a) + Len(b) + Len(c) + Len(d), e)
    BY <1>2, <1>4, <2>1, Holds5, ZenonT(60)
  <2> QED
    BY <1>3, <2>2
<1> HIDE DEF p
<1>7. ASSUME Len(e) \in U16 PROVE decode_replicate(p) = m
  <2>1. Get(p, 0, 2) = m.topic_id
    BY <1>1, <1>4, <1>6, Get2 DEF a
  <2>2. Get(p, 2, 2) = m.partition_id
    BY <1>1, <1>4, <1>6, Get2 DEF b
  <2>3. Get(p, 4, 8) = m.offset
    BY <1>1, <1>4, <1>6, Get8 DEF c
  <2>4. Get(p, 12, 2) = Len(e)
    BY <1>4, <1>6, <1>7, Get2 DEF d, e
  <2>5. Slice(p, 14, Len(e)) = e
    BY <1>2, <1>4, <1>6, HoldsSlice
  <2>6. decode_replicate(p) = [kind |-> "Replicate", topic_id |-> m.topic_id,
                               partition_id |-> m.partition_id, offset |-> m.offset,
                               payload |-> e]
    BY <1>3, <1>5, <2>1, <2>2, <2>3, <2>4, <2>5 DEF decode_replicate
  <2> QED
    BY <2>6 DEF e
<1>8. p = encode_replicate(m) /\ e = m.payload
  BY DEF encode_replicate, p, a, b, c, d, e
<1>9. Len(e) <= Len(p)
  BY <1>3, <1>5
<1> QED
  BY <1>4, <1>7, <1>8, <1>9

(* What encode_message puts behind the type byte. *)
LEMMA PayloadOfKind ==
    ASSUME NEW m
    PROVE  /\ m.kind \in Bare => PayloadOf(m) = <<>>
           /\ m.kind \in OfBytes => PayloadOf(m) = m.bytes
           /\ m.kind \in OfStatus => PayloadOf(m) = <<m.code>>
           /\ m.kind = "ProducerRegister" => PayloadOf(m) = encode_producer_register(m)
           /\ m.kind = "ConsumerRegister" => PayloadOf(m) = encode_consumer_register(m)
           /\ m.kind = "Fetch" => PayloadOf(m) = encode_fetch(m)
           /\ m.kind = "CommitOffset" => PayloadOf(m) = encode_commit_offset(m)
           /\ m.kind = "Produce" => PayloadOf(m) = encode_produce(m)
           /\ m.kind = "CreateTopic" => PayloadOf(m) = encode_create_topic(m)
           /\ m.kind = "DescribeTopic" => PayloadOf(m) = encode_describe_topic(m)
           /\ m.kind = "GetLag" => PayloadOf(m) = encode_get_lag(m)
           /\ m.kind = "Replicate" => PayloadOf(m) = encode_replicate(m)
           /\ m.kind = "IdempotentProduce" => PayloadOf(m) = encode_idempotent_produce(m)
           /\ m.kind = "BrokerHeartbeat" => PayloadOf(m) = encode_broker_heartbeat(m)
           /\ m.kind = "JoinGroup" => PayloadOf(m) = encode_join_group(m)
           /\ m.kind = "GroupHeartbeat" => PayloadOf(m) = encode_group_heartbeat(m)
           /\ m.kind = "Handshake" => PayloadOf(m) = encode_handshake(m)
           /\ m.kind = "RProduce" => PayloadOf(m) = Put(m.offset, 8)
           /\ m.kind = "RNotLeader" => PayloadOf(m) = Put(m.leader, 2)
           /\ m.kind = "RGroupHeartbeat" => PayloadOf(m) = <<m.code, m.flag>>
           /\ m.kind = "RHandshake" => PayloadOf(m) = <<m.code>> \o Put(m.version, 2)
           /\ m.kind = "RError" => PayloadOf(m) = <<m.code>> \o m.bytes
<1>1. ASSUME m.kind \in Bare PROVE PayloadOf(m) = <<>>
  BY <1>1, Zenon DEF PayloadOf, Bare, OfBytes, OfStatus
<1>2. ASSUME m.kind \in OfBytes PROVE PayloadOf(m) = m.bytes
  <2>1. /\ m.kind \notin Bare /\ m.kind \notin OfStatus
        /\ m.kind \notin {"ProducerRegister", "ConsumerRegister", "Fetch",
                           "CommitOffset", "Produce", "CreateTopic", "DescribeTopic",
                           "GetLag", "Replicate", "IdempotentProduce",
                           "BrokerHeartbeat", "JoinGroup", "GroupHeartbeat",
                           "Handshake", "RProduce", "RNotLeader", "RGroupHeartbeat",
                           "RHandshake", "RError"}
    BY <1>2 DEF Bare, OfBytes, OfStatus
  <2> QED
    BY <1>2, <2>1, Zenon DEF PayloadOf
<1>3. ASSUME m.kind \in OfStatus PROVE PayloadOf(m) = <<m.code>>
  <2>1. /\ m.kind \notin Bare /\ m.kind \notin OfBytes
        /\ m.kind \notin {"ProducerRegister", "ConsumerRegister", "Fetch",
                           "CommitOffset", "Produce", "CreateTopic", "DescribeTopic",
                           "GetLag", "Replicate", "IdempotentProduce",
                           "BrokerHeartbeat", "JoinGroup", "GroupHeartbeat",
                           "Handshake", "RProduce", "RNotLeader", "RGroupHeartbeat",
                           "RHandshake", "RError"}
    BY <1>3 DEF Bare, OfBytes, OfStatus
  <2> QED
    BY <1>3, <2>1, Zenon DEF PayloadOf
<1>4. ASSUME m.kind = "ProducerRegister" PROVE PayloadOf(m) = encode_producer_register(m)
  BY <1>4, Zenon DEF PayloadOf, Bare, OfBytes, OfStatus
<1>5. ASSUME m.kind = "ConsumerRegister" PROVE PayloadOf(m) = encode_consumer_register(m)
  BY <1>5, Zenon DEF PayloadOf, Bare, OfBytes, OfStatus
<1>6. ASSUME m.kind = "Fetch" PROVE PayloadOf(m) = encode_fetch(m)
  BY <1>6, Zenon DEF PayloadOf, Bare, OfBytes, OfStatus
<1>7. ASSUME m.kind = "CommitOffset" PROVE PayloadOf(m) = encode_commit_offset(m)
  BY <1>7, Zenon DEF PayloadOf, Bare, OfBytes, OfStatus
<1>8. ASSUME m.kind = "Produce" PROVE PayloadOf(m) = encode_produce(m)
  BY <1>8, Zenon DEF PayloadOf, Bare, OfBytes, OfStatus
<1>9. ASSUME m.kind = "CreateTopic" PROVE PayloadOf(m) = encode_create_topic(m)
  BY <1>9, Zenon DEF PayloadOf, Bare, OfBytes, OfStatus
<1>10. ASSUME m.kind = "DescribeTopic" PROVE PayloadOf(m) = encode_describe_topic(m)
  BY <1>10, Zenon DEF PayloadOf, Bare, OfBytes, OfStatus
<1>11. ASSUME m.kind = "GetLag" PROVE PayloadOf(m) = encode_get_lag(m)
  BY <1>11, Zenon DEF PayloadOf, Bare, OfBytes, OfStatus
<1>12. ASSUME m.kind = "Replicate" PROVE PayloadOf(m) = encode_replicate(m)
  BY <1>12, Zenon DEF PayloadOf, Bare, OfBytes, OfStatus
<1>13. ASSUME m.kind = "IdempotentProduce" PROVE PayloadOf(m) = encode_idempotent_produce(m)
  BY <1>13, Zenon DEF PayloadOf, Bare, OfBytes, OfStatus
<1>14. ASSUME m.kind = "BrokerHeartbeat" PROVE PayloadOf(m) = encode_broker_heartbeat(m)
  BY <1>14, Zenon DEF PayloadOf, Bare, OfBytes, OfStatus
<1>15. ASSUME m.kind = "JoinGroup" PROVE PayloadOf(m) = encode_join_group(m)
  BY <1>15, Zenon DEF PayloadOf, Bare, OfBytes, OfStatus
<1>16. ASSUME m.kind = "GroupHeartbeat" PROVE PayloadOf(m) = encode_group_heartbeat(m)
  BY <1>16, Zenon DEF PayloadOf, Bare, OfBytes, OfStatus
<1>17. ASSUME m.kind = "Handshake" PROVE PayloadOf(m) = encode_handshake(m)
  BY <1>17, Zenon DEF PayloadOf, Bare, OfBytes, OfStatus
<1>18. ASSUME m.kind = "RProduce" PROVE PayloadOf(m) = Put(m.offset, 8)
  BY <1>18, Zenon DEF PayloadOf, Bare, OfBytes, OfStatus
<1>19. ASSUME m.kind = "RNotLeader" PROVE PayloadOf(m) = Put(m.leader, 2)
  BY <1>19, Zenon DEF PayloadOf, Bare, OfBytes, OfStatus
<1>20. ASSUME m.kind = "RGroupHeartbeat" PROVE PayloadOf(m) = <<m.code, m.flag>>
  BY <1>20, Zenon DEF PayloadOf, Bare, OfBytes, OfStatus
<1>21. ASSUME m.kind = "RHandshake" PROVE PayloadOf(m) = <<m.code>> \o Put(m.version, 2)
  BY <1>21, Zenon DEF PayloadOf, Bare, OfBytes, OfStatus
<1>22. ASSUME m.kind = "RError" PROVE PayloadOf(m) = <<m.code>> \o m.bytes
  BY <1>22, Zenon DEF PayloadOf, Bare, OfBytes, OfStatus
<1> QED
  BY <1>1, <1>2, <1>3, <1>4, <1>5, <1>6, <1>7, <1>8, <1>9, <1>10, <1>11, <1>12,
             <1>13, <1>14, <1>15, <1>16, <1>17, <1>18, <1>19, <1>20, <1>21, <1>22, Zenon

(* A message as it is sent. *)
LEMMA Body ==
    ASSUME NEW t \in Byte, NEW s \in Bytes
    PROVE  /\ <<t>> \o s \in Bytes /\ <<t>> \o s # <<>> /\ (<<t>> \o s)[1] = t
           /\ Tail(<<t>> \o s) = s /\ Len(<<t>> \o s) = 1 + Len(s) /\ Len(s) \in Nat
<1>1. s \in Seq(Byte)
  BY DEF Bytes
<1> QED
  BY <1>1 DEF Bytes

(* A type byte names the variant it was written for. *)
TypeNames(kind) == message_type_byte(kind) \in Byte /\ KindOf(message_type_byte(kind)) = kind

RequestKinds ==
    {"Echo", "ProducerRegister", "ConsumerRegister", "Pcm", "Fetch",
                     "CommitOffset", "Produce", "CreateTopic", "DescribeTopic",
                     "ListTopics", "GetLag", "Replicate", "GetCluster",
                     "IdempotentProduce", "BrokerHeartbeat", "JoinGroup",
                     "GroupHeartbeat", "Handshake"}

AnswerKinds ==
    {"REcho", "RProducerRegister", "RConsumerRegister", "RPcm",
                    "RFetch", "RCommitOffset", "RProduce", "RCreateTopic",
                    "RDescribeTopic", "RListTopics", "RGetLag", "RReplicate",
                    "RGetCluster", "RNotLeader", "RBrokerHeartbeat", "RJoinGroup",
                    "RGroupHeartbeat", "RHandshake", "RError"}

(* Every variant has a type byte of its own. *)
LEMMA KnownTypes == \A kind \in RequestKinds \cup AnswerKinds : TypeNames(kind)
<1>1. \A kind \in RequestKinds : \E n \in 1 .. 18 : Requests[n] = kind
  BY DEF RequestKinds, Requests
<1>2. \A kind \in AnswerKinds : \E n \in 1 .. 19 : Answers[n] = kind
  BY DEF AnswerKinds, Answers
<1>3. \A kind \in AnswerKinds : \A n \in 1 .. 18 : Requests[n] # kind
  BY DEF AnswerKinds, Requests
<1>4. ASSUME NEW kind \in RequestKinds PROVE TypeNames(kind)
  BY <1>1, RequestType, Zenon DEF TypeNames
<1>5. ASSUME NEW kind \in AnswerKinds PROVE TypeNames(kind)
  BY <1>2, <1>3, AnswerType, Zenon DEF TypeNames
<1> QED
  BY <1>4, <1>5, Zenon

(* What parse_frame makes of a message that was sent. *)
Sendable(m) ==
    /\ encode_message(m) \in Bytes
    /\ encode_message(m) # <<>>
    /\ KindOf(encode_message(m)[1]) = m.kind
    /\ Tail(encode_message(m)) = PayloadOf(m)
    /\ Len(encode_message(m)) = 1 + Len(PayloadOf(m))
    /\ Len(PayloadOf(m)) \in Nat

(* A message whose payload is a byte string can be sent. *)
LEMMA SentMessage ==
    ASSUME NEW m, TypeNames(m.kind), PayloadOf(m) \in Bytes
    PROVE  Sendable(m)
<1>1. message_type_byte(m.kind) \in Byte /\ KindOf(message_type_byte(m.kind)) = m.kind
  BY DEF TypeNames
<1>2. encode_message(m) = <<message_type_byte(m.kind)>> \o PayloadOf(m)
  BY DEF encode_message
<1> QED
  BY <1>1, <1>2, Body, Zenon DEF Sendable

(* A message survives when the longest frame can hold it. *)
Survives(m) ==
    /\ encode_message(m) \in Bytes
    /\ Len(encode_message(m)) \in Nat /\ 1 <= Len(encode_message(m))
    /\ Len(encode_message(m)) <= MaxU16 => parse_frame(encode_message(m)) = m
    /\ m.kind # "Err"

(* What is left to show of a variant: parse_frame returns it. *)
LEMMA SurvivesBy ==
    ASSUME NEW m, Sendable(m), m.kind # "Err",
           Len(PayloadOf(m)) <= MaxU16 => parse_frame(encode_message(m)) = m
    PROVE  Survives(m)
<1>1. /\ encode_message(m) \in Bytes /\ Len(PayloadOf(m)) \in Nat
      /\ Len(encode_message(m)) = 1 + Len(PayloadOf(m))
  BY Zenon DEF Sendable
<1>2. /\ Len(encode_message(m)) \in Nat /\ 1 <= Len(encode_message(m))
      /\ Len(encode_message(m)) <= MaxU16 => Len(PayloadOf(m)) <= MaxU16
  <2>1. MaxU16 \in Nat
    BY Types, Zenon
  <2> QED
    BY <1>1, <2>1, SMT
<1> QED
  BY <1>1, <1>2, SMT DEF Survives

(* ProducerRegister survives. *)
LEMMA ProducerRegisterSurvives ==
    ASSUME NEW m \in [kind : {"ProducerRegister"}, port : U16, topic_id : U16]
    PROVE  Survives(m)
<1>1. m.kind = "ProducerRegister" /\ m.kind \in RequestKinds /\ m.kind # "Err"
  BY DEF RequestKinds
<1>2. PayloadOf(m) = encode_producer_register(m)
  BY <1>1, PayloadOfKind
<1>3. encode_producer_register(m) \in Bytes
      /\ decode_producer_register(encode_producer_register(m)) = m
  BY ProducerRegisterRead
<1>4. Sendable(m)
  BY <1>1, <1>2, <1>3, KnownTypes, SentMessage
<1>5. parse_frame(encode_message(m)) = decode_producer_register(Tail(encode_message(m)))
  BY <1>1, <1>4, Parsed DEF Sendable
<1> QED
  BY <1>1, <1>2, <1>3, <1>4, <1>5, SurvivesBy DEF Sendable

(* ConsumerRegister survives. *)
LEMMA ConsumerRegisterSurvives ==
    ASSUME NEW m \in [kind : {"ConsumerRegister"}, port : U16, topic_id : U16,
                      group_id : U16]
    PROVE  Survives(m)
<1>1. m.kind = "ConsumerRegister" /\ m.kind \in RequestKinds /\ m.kind # "Err"
  BY DEF RequestKinds
<1>2. PayloadOf(m) = encode_consumer_register(m)
  BY <1>1, PayloadOfKind
<1>3. encode_consumer_register(m) \in Bytes
      /\ decode_consumer_register(encode_consumer_register(m)) = m
  BY ConsumerRegisterRead
<1>4. Sendable(m)
  BY <1>1, <1>2, <1>3, KnownTypes, SentMessage
<1>5. parse_frame(encode_message(m)) = decode_consumer_register(Tail(encode_message(m)))
  BY <1>1, <1>4, Parsed DEF Sendable
<1> QED
  BY <1>1, <1>2, <1>3, <1>4, <1>5, SurvivesBy DEF Sendable

(* BrokerHeartbeat survives. *)
LEMMA BrokerHeartbeatSurvives ==
    ASSUME NEW m \in [kind : {"BrokerHeartbeat"}, broker_id : U16]
    PROVE  Survives(m)
<1>1. m.kind = "BrokerHeartbeat" /\ m.kind \in RequestKinds /\ m.kind # "Err"
  BY DEF RequestKinds
<1>2. PayloadOf(m) = encode_broker_heartbeat(m)
  BY <1>1, PayloadOfKind
<1>3. encode_broker_heartbeat(m) \in Bytes
      /\ decode_broker_heartbeat(encode_broker_heartbeat(m)) = m
  BY BrokerHeartbeatRead
<1>4. Sendable(m)
  BY <1>1, <1>2, <1>3, KnownTypes, SentMessage
<1>5. parse_frame(encode_message(m)) = decode_broker_heartbeat(Tail(encode_message(m)))
  BY <1>1, <1>4, Parsed DEF Sendable
<1> QED
  BY <1>1, <1>2, <1>3, <1>4, <1>5, SurvivesBy DEF Sendable

(* JoinGroup survives. *)
LEMMA JoinGroupSurvives ==
    ASSUME NEW m \in [kind : {"JoinGroup"}, group_id : U16, topic_id : U16,
                      member_id : Number]
    PROVE  Survives(m)
<1>1. m.kind = "JoinGroup" /\ m.kind \in RequestKinds /\ m.kind # "Err"
  BY DEF RequestKinds
<1>2. PayloadOf(m) = encode_join_group(m)
  BY <1>1, PayloadOfKind
<1>3. encode_join_group(m) \in Bytes /\ decode_join_group(encode_join_group(m)) = m
  BY JoinGroupRead
<1>4. Sendable(m)
  BY <1>1, <1>2, <1>3, KnownTypes, SentMessage
<1>5. parse_frame(encode_message(m)) = decode_join_group(Tail(encode_message(m)))
  BY <1>1, <1>4, Parsed DEF Sendable
<1> QED
  BY <1>1, <1>2, <1>3, <1>4, <1>5, SurvivesBy DEF Sendable

(* GroupHeartbeat survives. *)
LEMMA GroupHeartbeatSurvives ==
    ASSUME NEW m \in [kind : {"GroupHeartbeat"}, group_id : U16, member_id : Number,
                      generation : Number]
    PROVE  Survives(m)
<1>1. m.kind = "GroupHeartbeat" /\ m.kind \in RequestKinds /\ m.kind # "Err"
  BY DEF RequestKinds
<1>2. PayloadOf(m) = encode_group_heartbeat(m)
  BY <1>1, PayloadOfKind
<1>3. encode_group_heartbeat(m) \in Bytes /\ decode_group_heartbeat(encode_group_heartbeat(m)) = m
  BY GroupHeartbeatRead
<1>4. Sendable(m)
  BY <1>1, <1>2, <1>3, KnownTypes, SentMessage
<1>5. parse_frame(encode_message(m)) = decode_group_heartbeat(Tail(encode_message(m)))
  BY <1>1, <1>4, Parsed DEF Sendable
<1> QED
  BY <1>1, <1>2, <1>3, <1>4, <1>5, SurvivesBy DEF Sendable

(* Fetch survives. *)
LEMMA FetchSurvives ==
    ASSUME NEW m \in [kind : {"Fetch"}, topic_id : U16, partition_id : U16,
                      offset : Number, max_bytes : Number, max_wait_ms : Number]
    PROVE  Survives(m)
<1>1. m.kind = "Fetch" /\ m.kind \in RequestKinds /\ m.kind # "Err"
  BY DEF RequestKinds
<1>2. PayloadOf(m) = encode_fetch(m)
  BY <1>1, PayloadOfKind
<1>3. encode_fetch(m) \in Bytes /\ decode_fetch(encode_fetch(m)) = m
  BY FetchRead
<1>4. Sendable(m)
  BY <1>1, <1>2, <1>3, KnownTypes, SentMessage
<1>5. parse_frame(encode_message(m)) = decode_fetch(Tail(encode_message(m)))
  BY <1>1, <1>4, Parsed DEF Sendable
<1> QED
  BY <1>1, <1>2, <1>3, <1>4, <1>5, SurvivesBy DEF Sendable

(* CommitOffset survives. *)
LEMMA CommitOffsetSurvives ==
    ASSUME NEW m \in [kind : {"CommitOffset"}, group_id : U16, topic_id : U16,
                      partition_id : U16, offset : Number]
    PROVE  Survives(m)
<1>1. m.kind = "CommitOffset" /\ m.kind \in RequestKinds /\ m.kind # "Err"
  BY DEF RequestKinds
<1>2. PayloadOf(m) = encode_commit_offset(m)
  BY <1>1, PayloadOfKind
<1>3. encode_commit_offset(m) \in Bytes /\ decode_commit_offset(encode_commit_offset(m)) = m
  BY CommitOffsetRead
<1>4. Sendable(m)
  BY <1>1, <1>2, <1>3, KnownTypes, SentMessage
<1>5. parse_frame(encode_message(m)) = decode_commit_offset(Tail(encode_message(m)))
  BY <1>1, <1>4, Parsed DEF Sendable
<1> QED
  BY <1>1, <1>2, <1>3, <1>4, <1>5, SurvivesBy DEF Sendable

(* CreateTopic survives. *)
LEMMA CreateTopicSurvives ==
    ASSUME NEW m \in [kind : {"CreateTopic"}, topic_id : U16, partition_count : U16,
                      max_records : Number]
    PROVE  Survives(m)
<1>1. m.kind = "CreateTopic" /\ m.kind \in RequestKinds /\ m.kind # "Err"
  BY DEF RequestKinds
<1>2. PayloadOf(m) = encode_create_topic(m)
  BY <1>1, PayloadOfKind
<1>3. encode_create_topic(m) \in Bytes /\ decode_create_topic(encode_create_topic(m)) = m
  BY CreateTopicRead
<1>4. Sendable(m)
  BY <1>1, <1>2, <1>3, KnownTypes, SentMessage
<1>5. parse_frame(encode_message(m)) = decode_create_topic(Tail(encode_message(m)))
  BY <1>1, <1>4, Parsed DEF Sendable
<1> QED
  BY <1>1, <1>2, <1>3, <1>4, <1>5, SurvivesBy DEF Sendable

(* DescribeTopic survives. *)
LEMMA DescribeTopicSurvives ==
    ASSUME NEW m \in [kind : {"DescribeTopic"}, topic_id : U16]
    PROVE  Survives(m)
<1>1. m.kind = "DescribeTopic" /\ m.kind \in RequestKinds /\ m.kind # "Err"
  BY DEF RequestKinds
<1>2. PayloadOf(m) = encode_describe_topic(m)
  BY <1>1, PayloadOfKind
<1>3. encode_describe_topic(m) \in Bytes /\ decode_describe_topic(encode_describe_topic(m)) = m
  BY DescribeTopicRead
<1>4. Sendable(m)
  BY <1>1, <1>2, <1>3, KnownTypes, SentMessage
<1>5. parse_frame(encode_message(m)) = decode_describe_topic(Tail(encode_message(m)))
  BY <1>1, <1>4, Parsed DEF Sendable
<1> QED
  BY <1>1, <1>2, <1>3, <1>4, <1>5, SurvivesBy DEF Sendable

(* GetLag survives. *)
LEMMA GetLagSurvives ==
    ASSUME NEW m \in [kind : {"GetLag"}, group_id : U16, topic_id : U16]
    PROVE  Survives(m)
<1>1. m.kind = "GetLag" /\ m.kind \in RequestKinds /\ m.kind # "Err"
  BY DEF RequestKinds
<1>2. PayloadOf(m) = encode_get_lag(m)
  BY <1>1, PayloadOfKind
<1>3. encode_get_lag(m) \in Bytes /\ decode_get_lag(encode_get_lag(m)) = m
  BY GetLagRead
<1>4. Sendable(m)
  BY <1>1, <1>2, <1>3, KnownTypes, SentMessage
<1>5. parse_frame(encode_message(m)) = decode_get_lag(Tail(encode_message(m)))
  BY <1>1, <1>4, Parsed DEF Sendable
<1> QED
  BY <1>1, <1>2, <1>3, <1>4, <1>5, SurvivesBy DEF Sendable

(* Produce survives. *)
LEMMA ProduceSurvives ==
    ASSUME NEW m \in [kind : {"Produce"}, topic_id : U16, partition_id : U16,
                      payload : Bytes]
    PROVE  Survives(m)
<1>1. m.kind = "Produce" /\ m.kind \in RequestKinds /\ m.kind # "Err"
  BY DEF RequestKinds
<1>2. PayloadOf(m) = encode_produce(m)
  BY <1>1, PayloadOfKind
<1>3. encode_produce(m) \in Bytes /\ decode_produce(encode_produce(m)) = m
  BY ProduceRead
<1>4. Sendable(m)
  BY <1>1, <1>2, <1>3, KnownTypes, SentMessage
<1>5. parse_frame(encode_message(m)) = decode_produce(Tail(encode_message(m)))
  BY <1>1, <1>4, Parsed DEF Sendable
<1> QED
  BY <1>1, <1>2, <1>3, <1>4, <1>5, SurvivesBy DEF Sendable

(* IdempotentProduce survives. *)
LEMMA IdempotentProduceSurvives ==
    ASSUME NEW m \in [kind : {"IdempotentProduce"}, topic_id : U16, partition_id : U16,
                      producer_id : Number, sequence : Number, payload : Bytes]
    PROVE  Survives(m)
<1>1. m.kind = "IdempotentProduce" /\ m.kind \in RequestKinds /\ m.kind # "Err"
  BY DEF RequestKinds
<1>2. PayloadOf(m) = encode_idempotent_produce(m)
  BY <1>1, PayloadOfKind
<1>3. encode_idempotent_produce(m) \in Bytes
      /\ decode_idempotent_produce(encode_idempotent_produce(m)) = m
  BY IdempotentProduceRead
<1>4. Sendable(m)
  BY <1>1, <1>2, <1>3, KnownTypes, SentMessage
<1>5. parse_frame(encode_message(m)) = decode_idempotent_produce(Tail(encode_message(m)))
  BY <1>1, <1>4, Parsed DEF Sendable
<1> QED
  BY <1>1, <1>2, <1>3, <1>4, <1>5, SurvivesBy DEF Sendable

(* Handshake survives. *)
LEMMA HandshakeSurvives ==
    ASSUME NEW m \in [kind : {"Handshake"}, protocol_version : U16, auth_token : Bytes]
    PROVE  Survives(m)
<1>1. m.kind = "Handshake" /\ m.kind \in RequestKinds /\ m.kind # "Err"
  BY DEF RequestKinds
<1>2. PayloadOf(m) = encode_handshake(m)
  BY <1>1, PayloadOfKind
<1>3. /\ encode_handshake(m) \in Bytes /\ Len(m.auth_token) <= Len(encode_handshake(m))
      /\ Len(m.auth_token) \in U16 => decode_handshake(encode_handshake(m)) = m
  BY HandshakeRead
<1>4. Sendable(m)
  BY <1>1, <1>2, <1>3, KnownTypes, SentMessage
<1>5. parse_frame(encode_message(m)) = decode_handshake(Tail(encode_message(m)))
  BY <1>1, <1>4, Parsed DEF Sendable
<1>6. Len(encode_handshake(m)) <= MaxU16 => Len(m.auth_token) \in U16
  <2>1. Len(encode_handshake(m)) \in Nat /\ Len(m.auth_token) \in Nat
    BY <1>3, HoldsSelf
  <2> QED
    BY <1>3, <2>1, Types, SMT
<1>7. Tail(encode_message(m)) = encode_handshake(m)
  BY <1>2, <1>4, Zenon DEF Sendable
<1>8. Len(PayloadOf(m)) <= MaxU16 => parse_frame(encode_message(m)) = m
  BY <1>2, <1>3, <1>5, <1>6, <1>7, Zenon
<1> QED
  BY <1>1, <1>4, <1>8, SurvivesBy, Zenon

(* Replicate survives. *)
LEMMA ReplicateSurvives ==
    ASSUME NEW m \in [kind : {"Replicate"}, topic_id : U16, partition_id : U16,
                      offset : Number, payload : Bytes]
    PROVE  Survives(m)
<1>1. m.kind = "Replicate" /\ m.kind \in RequestKinds /\ m.kind # "Err"
  BY DEF RequestKinds
<1>2. PayloadOf(m) = encode_replicate(m)
  BY <1>1, PayloadOfKind
<1>3. /\ encode_replicate(m) \in Bytes /\ Len(m.payload) <= Len(encode_replicate(m))
      /\ Len(m.payload) \in U16 => decode_replicate(encode_replicate(m)) = m
  BY ReplicateRead
<1>4. Sendable(m)
  BY <1>1, <1>2, <1>3, KnownTypes, SentMessage
<1>5. parse_frame(encode_message(m)) = decode_replicate(Tail(encode_message(m)))
  BY <1>1, <1>4, Parsed DEF Sendable
<1>6. Len(encode_replicate(m)) <= MaxU16 => Len(m.payload) \in U16
  <2>1. Len(encode_replicate(m)) \in Nat /\ Len(m.payload) \in Nat
    BY <1>3, HoldsSelf
  <2> QED
    BY <1>3, <2>1, Types, SMT
<1>7. Tail(encode_message(m)) = encode_replicate(m)
  BY <1>2, <1>4, Zenon DEF Sendable
<1>8. Len(PayloadOf(m)) <= MaxU16 => parse_frame(encode_message(m)) = m
  BY <1>2, <1>3, <1>5, <1>6, <1>7, Zenon
<1> QED
  BY <1>1, <1>4, <1>8, SurvivesBy, Zenon

(* Variants of bytes, of nothing and of a status. *)
LEMMA BytesSurvive ==
    ASSUME NEW m, m = [kind |-> m.kind, bytes |-> m.bytes], m.bytes \in Bytes,
           m.kind \in OfBytes
    PROVE  Survives(m)
<1>1. m.kind \in RequestKinds \cup AnswerKinds /\ m.kind # "Err"
  BY DEF RequestKinds, AnswerKinds, OfBytes
<1>2. PayloadOf(m) = m.bytes
  BY PayloadOfKind
<1>3. Sendable(m)
  BY <1>1, <1>2, KnownTypes, SentMessage
<1>4. parse_frame(encode_message(m)) = [kind |-> m.kind, bytes |-> Tail(encode_message(m))]
  BY <1>3, Parsed DEF Sendable
<1> QED
  BY <1>1, <1>2, <1>3, <1>4, SurvivesBy DEF Sendable

(* Variants without a payload. *)
LEMMA BareSurvive ==
    ASSUME NEW m, m = [kind |-> m.kind], m.kind \in Bare
    PROVE  Survives(m)
<1>1. m.kind \in RequestKinds \cup AnswerKinds /\ m.kind # "Err"
  BY DEF RequestKinds, AnswerKinds, Bare
<1>2. PayloadOf(m) = <<>>
  BY PayloadOfKind
<1>3. Sendable(m)
  BY <1>1, <1>2, KnownTypes, SentMessage, FewBytes
<1>4. parse_frame(encode_message(m)) = [kind |-> m.kind]
  BY <1>3, Parsed DEF Sendable
<1> QED
  BY <1>1, <1>3, <1>4, SurvivesBy

(* Variants with a status byte. *)
LEMMA StatusSurvive ==
    ASSUME NEW m, m = [kind |-> m.kind, code |-> m.code], m.code \in Byte,
           m.kind \in OfStatus
    PROVE  Survives(m)
<1>1. m.kind \in RequestKinds \cup AnswerKinds /\ m.kind # "Err"
  BY DEF RequestKinds, AnswerKinds, OfStatus
<1>2. PayloadOf(m) = <<m.code>>
  BY PayloadOfKind
<1>3. Sendable(m)
  BY <1>1, <1>2, KnownTypes, SentMessage, FewBytes
<1>4. parse_frame(encode_message(m)) = [kind |-> m.kind, code |-> FirstOr0(Tail(encode_message(m)))]
  BY <1>3, Parsed DEF Sendable
<1>5. FirstOr0(<<m.code>>) = m.code
  BY DEF FirstOr0
<1> QED
  BY <1>1, <1>2, <1>3, <1>4, <1>5, SurvivesBy DEF Sendable

(* The other answers. *)
LEMMA RProduceSurvives ==
    ASSUME NEW m \in [kind : {"RProduce"}, offset : Number]
    PROVE  Survives(m)
<1>1. m.kind = "RProduce" /\ m.kind \in AnswerKinds /\ m.kind # "Err" /\ Word(m.offset)
  BY Types DEF AnswerKinds
<1> DEFINE p == Put(m.offset, 8)
<1>2. PayloadOf(m) = p
  BY <1>1, PayloadOfKind
<1>3. p \in Bytes /\ Len(p) = 8
  BY <1>1, Put8
<1> HIDE DEF p
<1>4. Sendable(m)
  BY <1>1, <1>2, <1>3, KnownTypes, SentMessage
<1>5. Get(p, 0, 8) = m.offset
  BY <1>1, <1>3, HoldsSelf, Get8 DEF p
<1>6. Tail(encode_message(m)) = p
  BY <1>2, <1>4 DEF Sendable
<1>7. parse_frame(encode_message(m)) = [kind |-> "RProduce", offset |-> m.offset]
  <2>1. parse_frame(encode_message(m)) =
           IF Len(p) < 8 THEN Err ELSE [kind |-> m.kind, offset |-> Get(p, 0, 8)]
    BY <1>1, <1>4, <1>6, Parsed DEF Sendable
  <2> QED
    BY <1>1, <1>3, <1>5, <2>1
<1> QED
  BY <1>1, <1>4, <1>7, SurvivesBy

(* RNotLeader survives. *)
LEMMA RNotLeaderSurvives ==
    ASSUME NEW m \in [kind : {"RNotLeader"}, leader : U16]
    PROVE  Survives(m)
<1>1. /\ m.kind = "RNotLeader" /\ m.kind \in AnswerKinds /\ m.kind # "Err"
      /\ m.leader \in U16 /\ m.leader \in Nat
  BY Types DEF AnswerKinds
<1> DEFINE p == Put(m.leader, 2)
<1>2. PayloadOf(m) = p
  BY <1>1, PayloadOfKind
<1>3. p \in Bytes /\ Len(p) = 2
  BY <1>1, Put2
<1> HIDE DEF p
<1>4. Sendable(m)
  BY <1>1, <1>2, <1>3, KnownTypes, SentMessage
<1>5. Get(p, 0, 2) = m.leader
  BY <1>1, <1>3, HoldsSelf, Get2 DEF p
<1>6. Tail(encode_message(m)) = p
  BY <1>2, <1>4 DEF Sendable
<1>7. parse_frame(encode_message(m)) = [kind |-> "RNotLeader", leader |-> m.leader]
  <2>1. parse_frame(encode_message(m)) =
           IF Len(p) < 2 THEN Err ELSE [kind |-> m.kind, leader |-> Get(p, 0, 2)]
    BY <1>1, <1>4, <1>6, Parsed DEF Sendable
  <2> QED
    BY <1>1, <1>3, <1>5, <2>1
<1> QED
  BY <1>1, <1>4, <1>7, SurvivesBy

(* RGroupHeartbeat survives. *)
LEMMA RGroupHeartbeatSurvives ==
    ASSUME NEW m \in [kind : {"RGroupHeartbeat"}, code : Byte, flag : Byte]
    PROVE  Survives(m)
<1>1. /\ m.kind = "RGroupHeartbeat" /\ m.kind \in AnswerKinds /\ m.kind # "Err"
      /\ m.code \in Byte /\ m.flag \in Byte
  BY DEF AnswerKinds
<1> DEFINE p == <<m.code, m.flag>>
<1>2. PayloadOf(m) = p
  BY <1>1, PayloadOfKind
<1>3. p \in Bytes /\ Len(p) = 2 /\ p[2] = m.flag /\ FirstOr0(p) = m.code
  BY <1>1, FewBytes DEF FirstOr0
<1> HIDE DEF p
<1>4. Sendable(m)
  BY <1>1, <1>2, <1>3, KnownTypes, SentMessage
<1>6. Tail(encode_message(m)) = p
  BY <1>2, <1>4 DEF Sendable
<1>7. parse_frame(encode_message(m)) =
        [kind |-> "RGroupHeartbeat", code |-> m.code, flag |-> m.flag]
  <2>1. parse_frame(encode_message(m)) =
           [kind |-> m.kind, code |-> FirstOr0(p), flag |-> IF Len(p) < 2 THEN 0 ELSE p[2]]
    BY <1>1, <1>4, <1>6, Parsed DEF Sendable
  <2> QED
    BY <1>1, <1>3, <2>1
<1> QED
  BY <1>1, <1>4, <1>7, SurvivesBy

(* RHandshake survives. *)
LEMMA RHandshakeSurvives ==
    ASSUME NEW m \in [kind : {"RHandshake"}, code : Byte, version : U16]
    PROVE  Survives(m)
<1>1. /\ m.kind = "RHandshake" /\ m.kind \in AnswerKinds /\ m.kind # "Err"
      /\ m.code \in Byte /\ m.version \in U16 /\ m.version \in Nat
  BY Types DEF AnswerKinds
<1> DEFINE a == <<m.code>>
           b == Put(m.version, 2)
           p == a \o b
<1>2. PayloadOf(m) = p
  BY <1>1, PayloadOfKind
<1>3. a \in Bytes /\ b \in Bytes
  BY <1>1, Put2, FewBytes
<1>4. Len(a) = 1 /\ Len(b) = 2 /\ a[1] = m.code
  BY <1>1, Put2
<1> HIDE DEF a, b
<1>5. p \in Bytes /\ Len(p) = 3 /\ p[1] = m.code
  <2>1. p \in Bytes /\ Len(p) = Len(a) + Len(b) /\ \A i \in 1 .. Len(a) : p[i] = a[i]
    BY <1>3, Cat2
  <2> HIDE DEF p
  <2> QED
    BY <1>4, <2>1
<1>6. Holds(p, 1, b)
  <2>1. Holds(p, 0, p)
    BY <1>5, HoldsSelf
  <2>2. Holds(p, 0 + Len(a), b)
    BY <1>3, <1>5, <2>1, Holds2
  <2> QED
    BY <1>4, <2>2
<1> HIDE DEF p
<1>7. Sendable(m)
  BY <1>1, <1>2, <1>5, KnownTypes, SentMessage
<1>8. Get(p, 1, 2) = m.version
  BY <1>1, <1>5, <1>6, Get2 DEF b
<1>9. Tail(encode_message(m)) = p
  BY <1>2, <1>7 DEF Sendable
<1>10. parse_frame(encode_message(m)) =
        [kind |-> "RHandshake", code |-> m.code, version |-> m.version]
  <2>1. parse_frame(encode_message(m)) =
           IF Len(p) < 3 THEN Err
           ELSE [kind |-> m.kind, code |-> p[1], version |-> Get(p, 1, 2)]
    BY <1>1, <1>7, <1>9, Parsed DEF Sendable
  <2> QED
    BY <1>1, <1>5, <1>8, <2>1
<1> QED
  BY <1>1, <1>7, <1>10, SurvivesBy

(* RError survives. *)
LEMMA RErrorSurvives ==
    ASSUME NEW m \in [kind : {"RError"}, code : Byte, bytes : Bytes]
    PROVE  Survives(m)
<1>1. /\ m.kind = "RError" /\ m.kind \in AnswerKinds /\ m.kind # "Err"
      /\ m.code \in Byte /\ m.bytes \in Bytes
  BY DEF AnswerKinds
<1> DEFINE a == <<m.code>>
           b == m.bytes
           p == a \o b
<1>2. PayloadOf(m) = p
  BY <1>1, PayloadOfKind
<1>3. a \in Bytes /\ b \in Bytes
  BY <1>1, FewBytes
<1>4. Len(a) = 1 /\ Len(b) \in Nat /\ a[1] = m.code
  BY <1>3, HoldsSelf
<1>5. p \in Bytes /\ p # <<>> /\ p[1] = m.code
  BY <1>1, <1>3, Body
<1>6. From(p, 1) = b
  <2>1. Len(p) = 1 + Len(b)
    BY <1>1, <1>3, Body
  <2>2. Holds(p, 0, p)
    BY <1>5, HoldsSelf
  <2> HIDE DEF a, b
  <2>3. Holds(p, 0 + Len(a), b)
    BY <1>3, <1>5, <2>2, Holds2
  <2> HIDE DEF p
  <2>4. Holds(p, 1, b)
    BY <1>4, <2>3
  <2> QED
    BY <1>3, <1>5, <2>1, <2>4, HoldsFrom
<1> HIDE DEF p
<1>7. Sendable(m)
  BY <1>1, <1>2, <1>5, KnownTypes, SentMessage
<1>8. Tail(encode_message(m)) = p
  BY <1>2, <1>7 DEF Sendable
<1>9. parse_frame(encode_message(m)) = [kind |-> "RError", code |-> m.code, bytes |-> m.bytes]
  <2>1. parse_frame(encode_message(m)) =
           IF p = <<>> THEN Err ELSE [kind |-> m.kind, code |-> p[1], bytes |-> From(p, 1)]
    BY <1>1, <1>7, <1>8, Parsed DEF Sendable
  <2> QED
    BY <1>1, <1>5, <1>6, <2>1
<1> QED
  BY <1>1, <1>7, <1>9, SurvivesBy

-----------------------------------------------------------------------------
(* Frames: what write_frame writes, read_frame and read_message read, or    *)
(* they wait for the rest of it.                                            *)

(* Every request and every answer survives. *)
LEMMA RequestsSurvive == \A m \in RequestMessage : Survives(m)
<1> SUFFICES ASSUME NEW m \in RequestMessage PROVE Survives(m)
  OBVIOUS
<1>1. CASE m \in [kind : {"Echo", "Pcm"}, bytes : Bytes]
  BY <1>1, BytesSurvive DEF OfBytes
<1>2. CASE m \in [kind : {"ListTopics", "GetCluster"}]
  BY <1>2, BareSurvive DEF Bare
<1> QED
  BY <1>1, <1>2, ProducerRegisterSurvives, ConsumerRegisterSurvives, FetchSurvives,
     CommitOffsetSurvives, ProduceSurvives, CreateTopicSurvives, DescribeTopicSurvives,
     GetLagSurvives, ReplicateSurvives, IdempotentProduceSurvives, BrokerHeartbeatSurvives,
     JoinGroupSurvives, GroupHeartbeatSurvives, HandshakeSurvives, Zenon DEF RequestMessage

(* The same of answers. *)
LEMMA AnswersSurvive == \A m \in AnswerMessage : Survives(m)
<1> SUFFICES ASSUME NEW m \in AnswerMessage PROVE Survives(m)
  OBVIOUS
<1>1. CASE m \in [kind : {"REcho", "RFetch", "RDescribeTopic", "RListTopics", "RGetLag",
                          "RGetCluster", "RJoinGroup"}, bytes : Bytes]
  BY <1>1, BytesSurvive DEF OfBytes
<1>2. CASE m \in [kind : {"RProducerRegister", "RConsumerRegister", "RPcm", "RCommitOffset",
                          "RCreateTopic", "RReplicate", "RBrokerHeartbeat"}, code : Byte]
  BY <1>2, StatusSurvive DEF OfStatus
<1> QED
  BY <1>1, <1>2, RProduceSurvives, RNotLeaderSurvives, RGroupHeartbeatSurvives,
     RHandshakeSurvives, RErrorSurvives, Zenon DEF AnswerMessage

(* A frame, its bytes, and whether its length can be written. *)
FrameOf(id, m) == [correlation_id |-> id, message |-> m]

Fitting(m, format, longest) ==
    Len(encode_message(m)) <= IF format = "V1" THEN longest ELSE LongestV2

(* The length fields of the two formats. *)
Length1(m) == Len(encode_message(m)) % 256
Length2(m) == (5 + Len(encode_message(m))) % 65536

(* A v1 frame, ... *)
LEMMA FrameV1 ==
    ASSUME NEW id, NEW m
    PROVE  write_frame(FrameOf(id, m), "V1") = <<Length1(m)>> \o encode_message(m)
BY SMT DEF write_frame, write_message, FrameOf, Length1

(* ... and a v2 frame. *)
LEMMA FrameV2 ==
    ASSUME NEW id, NEW m, NEW format, format # "V1"
    PROVE  write_frame(FrameOf(id, m), format) =
              <<255, 2>> \o Put(Length2(m), 2) \o <<2>> \o Put(id, 4) \o encode_message(m)
BY SMT DEF write_frame, FrameOf, Length2

(* The lengths of frames that fit do not wrap. *)
LEMMA Lengths ==
    ASSUME NEW m, Survives(m)
    PROVE  /\ Length1(m) \in Byte /\ Length2(m) \in Nat
           /\ Len(encode_message(m)) <= 255 => Length1(m) = Len(encode_message(m))
           /\ Len(encode_message(m)) <= LongestV2 =>
                 Length2(m) = 5 + Len(encode_message(m)) /\ Length2(m) \in U16
           /\ LongestV2 <= MaxU16 /\ 255 <= MaxU16
<1>1. Len(encode_message(m)) \in Nat
  BY SMT DEF Survives
<1>2. Length1(m) \in Nat /\ Length1(m) <= 255 /\ Length2(m) \in Nat
  BY <1>1, SMT DEF Length1, Length2
<1>3. Len(encode_message(m)) <= 255 => Length1(m) = Len(encode_message(m))
  BY <1>1, SMT DEF Length1
<1>4. Len(encode_message(m)) <= LongestV2 =>
         Length2(m) = 5 + Len(encode_message(m)) /\ Length2(m) <= MaxU16
  BY <1>1, SMT DEF Length2, LongestV2, MaxU16
<1>5. LongestV2 <= MaxU16 /\ 255 <= MaxU16
  BY SMT DEF LongestV2, MaxU16
<1> QED
  BY <1>2, <1>3, <1>4, <1>5, Types

(* Frames are byte strings. *)
LEMMA FrameBytes ==
    ASSUME NEW id, Word(id), NEW m, Survives(m), NEW format
    PROVE  write_frame(FrameOf(id, m), format) \in Bytes
<1>1. encode_message(m) \in Bytes
  BY DEF Survives
<1>2. Length1(m) \in Byte /\ Length2(m) \in Nat
  BY Lengths
<1>3. CASE format = "V1"
  <2>1. <<Length1(m)>> \o encode_message(m) \in Bytes
    BY <1>1, <1>2, Body, Zenon
  <2> QED
    BY <1>3, <2>1, FrameV1, Zenon
<1>4. CASE format # "V1"
  <2> DEFINE a == <<255, 2>>
             b == Put(Length2(m), 2)
             c == <<2>>
             d == Put(id, 4)
             e == encode_message(m)
  <2>1. b \in Bytes /\ d \in Bytes /\ e \in Bytes
    BY <1>1, <1>2, Put2, Put4
  <2>2. 255 \in Byte /\ 2 \in Byte
    BY Types, SMT
  <2>3. a \in Bytes /\ c \in Bytes
    BY <2>2, FewBytes, Zenon
  <2>4. write_frame(FrameOf(id, m), format) = a \o b \o c \o d \o e
    BY <1>4, FrameV2, ZenonT(60)
  <2> HIDE DEF a, b, c, d, e
  <2> QED
    BY <2>1, <2>3, <2>4, Cat5
<1> QED
  BY <1>3, <1>4

(* The front of a stream that goes on with the bytes b, as far as it goes. *)
InFront(s, b) == \A i \in 1 .. Len(b) : i <= Len(s) => s[i] = b[i]

(* A front that has all of b holds it. *)
LEMMA FrontHolds ==
    ASSUME NEW s \in Bytes, NEW b \in Bytes, InFront(s, b), Len(b) <= Len(s)
    PROVE  Holds(s, 0, b)
<1>1. Len(s) \in Nat /\ Len(b) \in Nat
  BY HoldsSelf
<1> QED
  BY <1>1 DEF InFront, Holds

(* What is read of a frame in the first format. *)
ReadAs(id, m, format, used) ==
    [status |-> "frame", frame |-> FrameOf(id, m), format |-> format, used |-> used]

(* A message that is no error is found. *)
LEMMA FoundMessage ==
    ASSUME NEW m, m.kind # "Err", NEW id, NEW format, NEW used
    PROVE  Found(m, id, format, used) = ReadAs(id, m, format, used)
<1>1. m # Err
  BY DEF Err
<1> QED
  BY <1>1 DEF Found, ReadAs, FrameOf

(* Slices of bytes. *)
LEMMA SliceFacts ==
    ASSUME NEW p \in Bytes, NEW at \in Nat, NEW n \in Nat, at + n <= Len(p)
    PROVE  /\ Slice(p, at, n) \in Bytes /\ Len(Slice(p, at, n)) = n
           /\ \A i \in 1 .. n : Slice(p, at, n)[i] = p[at + i]
<1> DEFINE lo == at + 1
           hi == at + n
           c  == SubSeq(p, lo, hi)
<1>1. Len(p) \in Nat /\ p \in Seq(Byte)
  BY HoldsSelf DEF Bytes
<1>2. lo \in Int /\ hi \in Int /\ \A i \in lo .. hi : p[i] \in Byte
  BY <1>1, ElementOfSeq
<1>3. /\ c \in Seq(Byte) /\ Len(c) = IF lo <= hi THEN hi - lo + 1 ELSE 0
      /\ \A i \in 1 .. hi - lo + 1 : c[i] = p[lo + i - 1]
  BY <1>2, SubSeqProperties
<1> HIDE DEF c
<1>4. Len(c) = n /\ \A i \in 1 .. n : c[i] = p[at + i]
  BY <1>3
<1> QED
  BY <1>3, <1>4 DEF Slice, c, Bytes

(* read_message on a v1 frame: all of it, or wait for the rest. *)
LEMMA ReadV1 ==
    ASSUME NEW s \in Bytes, NEW m, Survives(m), Len(encode_message(m)) <= 255,
           NEW b, b = write_frame(FrameOf(0, m), "V1"), InFront(s, b)
    PROVE  /\ Len(b) <= Len(s) => read_message(s) = ReadAs(0, m, "V1", Len(b))
           /\ Len(s) < Len(b) => read_message(s) = Wait
           /\ s # <<>> => s[1] = Len(encode_message(m))
<1> DEFINE e == encode_message(m)
           n == Len(e)
           a == <<n>>
<1>1. e \in Bytes /\ n \in Nat /\ 1 <= n /\ n <= 255 /\ n <= MaxU16
  <2>1. 255 <= MaxU16 /\ MaxU16 \in Nat
    BY Lengths, Types, Zenon
  <2> QED
    BY <2>1, SMT DEF Survives
<1>2. parse_frame(e) = m /\ m.kind # "Err"
  BY <1>1 DEF Survives
<1>3. n \in Byte /\ Length1(m) = n
  BY <1>1, Lengths, Types
<1>4. b = a \o e
  BY <1>3, FrameV1
<1>5. b \in Bytes /\ b # <<>> /\ b[1] = n /\ Len(b) = 1 + n /\ a \in Bytes /\ Len(a) = 1
  BY <1>1, <1>3, <1>4, Body, FewBytes, ZenonT(60)
<1>6. Len(s) \in Nat
  BY HoldsSelf
<1> HIDE DEF e, n, a
<1>7. ASSUME s # <<>> PROVE s[1] = n
  <2>1. Len(s) # 0
    BY <1>7 DEF Bytes
  <2> QED
    BY <1>1, <1>5, <1>6, <2>1 DEF InFront
<1>8. ASSUME Len(s) < Len(b) PROVE read_message(s) = Wait
  BY <1>5, <1>7, <1>8 DEF read_message
<1>9. ASSUME Len(b) <= Len(s) PROVE read_message(s) = ReadAs(0, m, "V1", Len(b))
  <2>1. Holds(s, 0, b)
    BY <1>5, <1>9, FrontHolds
  <2>2. Holds(s, 0 + Len(a), e)
    BY <1>1, <1>4, <1>5, <2>1, Holds2
  <2>3. Holds(s, 1, e)
    BY <1>5, <2>2
  <2>4. Slice(s, 1, n) = e
    BY <1>1, <2>3, HoldsSlice DEF n
  <2>5. s # <<>>
    BY <1>1, <1>5, <1>9
  <2>6. read_message(s) = Found(parse_frame(e), 0, "V1", 1 + n)
    BY <1>5, <1>7, <1>9, <2>4, <2>5 DEF read_message
  <2> QED
    BY <1>2, <1>5, <2>6, FoundMessage
<1> QED
  BY <1>7, <1>8, <1>9 DEF n, e

(* A slice has what its surroundings hold. *)
LEMMA SliceHolds ==
    ASSUME NEW p \in Bytes, NEW at \in Nat, NEW n \in Nat, at + n <= Len(p),
           NEW k \in Nat, NEW x \in Bytes, k + Len(x) <= n, NEW at2, at2 = at + k,
           Holds(p, at2, x)
    PROVE  Holds(Slice(p, at, n), k, x)
<1> DEFINE lo == at + 1
           hi == at + n
           c  == SubSeq(p, lo, hi)
<1>1. Len(p) \in Nat /\ Len(x) \in Nat
  BY HoldsSelf
<1>2. /\ Len(c) = n
      /\ \A i \in 1 .. n : c[i] = p[at + i]
  BY SliceFacts DEF Slice
<1> HIDE DEF c
<1>3. \A i \in 1 .. Len(x) : p[at + (k + i)] = x[i]
  BY <1>1 DEF Holds
<1>4. ASSUME NEW i \in 1 .. Len(x) PROVE c[k + i] = x[i]
  <2>1. k + i \in 1 .. n
    BY <1>1
  <2> QED
    BY <1>2, <1>3, <2>1
<1>5. Holds(c, k, x)
  BY <1>1, <1>2, <1>4 DEF Holds
<1> QED
  BY <1>5 DEF Slice, c

(* read_frame on a v2 frame: all of it, or wait for the rest. *)
LEMMA ReadV2 ==
    ASSUME NEW s \in Bytes, NEW m, Survives(m), Len(encode_message(m)) <= LongestV2,
           NEW id, Word(id), NEW b, b = write_frame(FrameOf(id, m), "V2"), InFront(s, b)
    PROVE  /\ Len(b) <= Len(s) => read_frame(s) = ReadAs(id, m, "V2", Len(b))
           /\ Len(s) < Len(b) => read_frame(s) = Wait
<1> DEFINE e == encode_message(m)
           n == Length2(m)
           x == <<255, 2>>
           y == Put(n, 2)
           z == <<2>>
           w == Put(id, 4)
<1>1. e \in Bytes /\ Len(e) \in Nat /\ n = 5 + Len(e) /\ n \in U16 /\ n \in Nat
  BY Lengths, Types DEF Survives
<1>2. parse_frame(e) = m /\ m.kind # "Err"
  <2>1. Len(e) <= LongestV2 /\ LongestV2 <= MaxU16 /\ MaxU16 \in Nat /\ LongestV2 \in Nat
    BY Lengths, Types DEF LongestV2
  <2>2. Len(e) <= MaxU16
    BY <1>1, <2>1
  <2> QED
    BY <2>2 DEF Survives
<1>3. x \in Bytes /\ z \in Bytes
  <2>1. 255 \in Byte /\ 2 \in Byte
    BY Types, SMT
  <2> QED
    BY <2>1, FewBytes, Zenon
<1>4. y \in Bytes /\ w \in Bytes /\ Len(y) = 2 /\ Len(w) = 4
  BY <1>1, Put2, Put4
<1>5. Len(x) = 2 /\ x[1] = 255 /\ x[2] = 2 /\ Len(z) = 1 /\ z[1] = 2
  OBVIOUS
<1>6. b = x \o y \o z \o w \o e
  BY FrameV2
<1> HIDE DEF e, n, x, y, z, w
<1>0. x \in Bytes /\ y \in Bytes /\ z \in Bytes /\ w \in Bytes /\ e \in Bytes
  BY <1>1, <1>3, <1>4
<1>7. b \in Bytes /\ Len(b) = 4 + n
  <2>1. b \in Bytes /\ Len(b) = Len(x) + Len(y) + Len(z) + Len(w) + Len(e)
    <3>1. /\ x \o y \o z \o w \o e \in Bytes
          /\ Len(x \o y \o z \o w \o e) = Len(x) + Len(y) + Len(z) + Len(w) + Len(e)
      BY <1>0, Cat5
    <3> QED
      BY <1>6, <3>1
  <2> QED
    BY <1>1, <1>4, <1>5, <2>1
<1>8. /\ Holds(b, 0, x) /\ Holds(b, 2, y) /\ Holds(b, 4, z) /\ Holds(b, 5, w)
      /\ Holds(b, 9, e)
  <2>1. 0 \in Nat /\ Holds(b, 0, b)
    BY <1>7, HoldsSelf
  <2>2. /\ Holds(b, 0, x) /\ Holds(b, 0 + Len(x), y) /\ Holds(b, 0 + Len(x) + Len(y), z)
        /\ Holds(b, 0 + Len(x) + Len(y) + Len(z), w)
        /\ Holds(b, 0 + Len(x) + Len(y) + Len(z) + Len(w), e)
    <3>1. Holds(b, 0, x \o y \o z \o w \o e)
      BY <1>6, <2>1, Zenon
    <3> QED
      BY <1>0, <1>7, <2>1, <3>1, Holds5, ZenonT(60)
  <2> QED
    BY <1>4, <1>5, <2>2
<1>9. b[1] = 255 /\ b[2] = 2
  BY <1>5, <1>8 DEF Holds
<1>10. Len(s) \in Nat /\ (s # <<>> <=> Len(s) # 0)
  BY EmptySeq, HoldsSelf DEF Bytes
<1>11. /\ Len(s) >= 1 => s[1] = 255
       /\ Len(s) >= 2 => s[2] = 2
  BY <1>1, <1>7, <1>9, <1>10 DEF InFront
<1>12. Len(s) >= 4 => Get(s, 2, 2) = n
  <2> SUFFICES ASSUME Len(s) >= 4 PROVE Get(s, 2, 2) = n
    OBVIOUS
  <2>1. \A i \in 1 .. Len(y) : s[2 + i] = y[i]
    <3> SUFFICES ASSUME NEW i \in 1 .. Len(y) PROVE s[2 + i] = y[i]
      OBVIOUS
    <3>1. b[2 + i] = y[i]
      BY <1>8 DEF Holds
    <3>2. 2 + i \in 1 .. Len(b) /\ 2 + i <= Len(s)
      BY <1>1, <1>4, <1>7, <1>10
    <3> QED
      BY <3>1, <3>2 DEF InFront
  <2>2. Holds(s, 2, y)
    BY <1>4, <1>10, <2>1 DEF Holds
  <2> QED
    BY <1>1, <2>2, Get2 DEF y
<1>13. ASSUME Len(s) < Len(b) PROVE read_frame(s) = Wait
  BY <1>7, <1>10, <1>11, <1>12, <1>13 DEF read_frame
<1>14. ASSUME Len(b) <= Len(s) PROVE read_frame(s) = ReadAs(id, m, "V2", Len(b))
  <2> DEFINE body == Slice(s, 4, n)
  <2>1. read_frame(s) = parse_v2_body(body)
    BY <1>1, <1>7, <1>10, <1>11, <1>12, <1>14 DEF read_frame
  <2>2. Holds(s, 4, z) /\ Holds(s, 5, w) /\ Holds(s, 9, e)
    <3>1. Holds(s, 0, b)
      BY <1>7, <1>14, FrontHolds
    <3>2. /\ Holds(s, 0 + Len(x) + Len(y), z)
          /\ Holds(s, 0 + Len(x) + Len(y) + Len(z), w)
          /\ Holds(s, 0 + Len(x) + Len(y) + Len(z) + Len(w), e)
      <4>1. 0 \in Nat
        OBVIOUS
      <4>2. Holds(s, 0, x \o y \o z \o w \o e)
        BY <1>6, <3>1, Zenon
      <4> QED
        BY <1>0, <4>1, <4>2, Holds5, ZenonT(60)
    <3> QED
      BY <1>4, <1>5, <3>2
  <2>3. body \in Bytes /\ Len(body) = n
    BY <1>1, <1>7, <1>10, <1>14, SliceFacts
  <2>4. Holds(body, 0, z) /\ Holds(body, 1, w) /\ Holds(body, 5, e)
    <3>1. 4 \in Nat /\ n \in Nat /\ 4 + n <= Len(s)
      BY <1>1, <1>7, <1>14
    <3>2. 0 + Len(z) <= n /\ 4 = 4 + 0 /\ 1 + Len(w) <= n /\ 5 = 4 + 1
          /\ 5 + Len(e) <= n /\ 9 = 4 + 5
      BY <1>1, <1>4, <1>5
    <3>3. Holds(body, 0, z)
      BY <1>0, <2>2, <3>1, <3>2, SliceHolds
    <3>4. Holds(body, 1, w)
      BY <1>0, <2>2, <3>1, <3>2, SliceHolds
    <3>5. Holds(body, 5, e)
      BY <1>0, <2>2, <3>1, <3>2, SliceHolds
    <3> QED
      BY <3>3, <3>4, <3>5
  <2> HIDE DEF body
  <2>5. body[1] = 2
    BY <1>5, <2>4 DEF Holds
  <2>6. Get(body, 1, 4) = id
    BY <2>3, <2>4, Get4 DEF w
  <2>7. From(body, 5) = e
    BY <1>1, <2>3, <2>4, HoldsFrom
  <2>8. parse_v2_body(body) = Found(parse_frame(e), id, "V2", 4 + n)
    <3>1. ~ (Len(body) < 6)
      <4>1. 1 <= Len(e)
        BY DEF Survives, e
      <4> QED
        BY <1>1, <2>3, <4>1
    <3> QED
      BY <2>3, <2>5, <2>6, <2>7, <3>1 DEF parse_v2_body
  <2> QED
    BY <1>2, <1>7, <2>1, <2>8, FoundMessage
<1> QED
  BY <1>13, <1>14

(* Reading a frame of either format: the whole frame, or wait for the rest. *)
LEMMA FrameRead ==
    ASSUME NEW s \in Bytes, NEW m, Survives(m), NEW id, Word(id),
           NEW format \in {"V1", "V2"}, format = "V1" => id = 0,
           Fitting(m, format, 254),
           NEW b, b = write_frame(FrameOf(id, m), format), InFront(s, b)
    PROVE  /\ Len(b) <= Len(s) => read_frame(s) = ReadAs(id, m, format, Len(b))
           /\ Len(s) < Len(b) => read_frame(s) = Wait
<1>1. CASE format = "V2"
  BY <1>1, ReadV2 DEF Fitting
<1>2. CASE format = "V1"
  <2>1. id = 0 /\ Len(encode_message(m)) <= 254 /\ Len(encode_message(m)) \in Nat
        /\ 1 <= Len(encode_message(m))
    BY <1>2 DEF Fitting, Survives
  <2>2. Len(encode_message(m)) <= 255
    BY <2>1
  <2>3. /\ Len(b) <= Len(s) => read_message(s) = ReadAs(0, m, "V1", Len(b))
        /\ Len(s) < Len(b) => read_message(s) = Wait
        /\ s # <<>> => s[1] = Len(encode_message(m))
    BY <1>2, <2>1, <2>2, ReadV1
  <2>4. read_frame(s) = read_message(s)
    <3>1. CASE s = <<>>
      BY <3>1 DEF read_frame, read_message
    <3>2. CASE s # <<>>
      BY <2>1, <2>3, <3>2 DEF read_frame
    <3> QED
      BY <3>1, <3>2
  <2> QED
    BY <1>2, <2>1, <2>3, <2>4
<1> QED
  BY <1>1, <1>2

(* An answer is read by the reader of its request's format. *)
LEMMA AnswerRead ==
    ASSUME NEW s \in Bytes, NEW m, Survives(m), NEW id, Word(id),
           NEW format \in {"V1", "V2"}, format = "V1" => id = 0,
           Fitting(m, format, 255),
           NEW b, b = write_frame(FrameOf(id, m), format), InFront(s, b),
           NEW found, found = IF format = "V1" THEN read_message(s) ELSE read_frame(s)
    PROVE  /\ Len(b) <= Len(s) => found = ReadAs(id, m, format, Len(b))
           /\ Len(s) < Len(b) => found = Wait
<1>1. CASE format = "V2"
  BY <1>1, ReadV2 DEF Fitting
<1>2. CASE format = "V1"
  BY <1>2, ReadV1 DEF Fitting
<1> QED
  BY <1>1, <1>2

-----------------------------------------------------------------------------
(* What is under way on a stream. *)

(* What is under way: the bytes s are those of the writes B[h + 1] .. B[n], *)
(* the i-th at position at[i]; all of them, or, if the stream was cut, as   *)
(* far as they go.                                                          *)
Placed(at, s, B, h, n, whole) ==
    /\ s \in Bytes
    /\ at \in [Nat -> Nat]
    /\ at[h + 1] = 0
    /\ \A i \in h + 1 .. n : B[i] \in Bytes /\ at[i + 1] = at[i] + Len(B[i])
    /\ \A i \in h + 1 .. n + 1 : \A j \in i .. n + 1 : at[i] <= at[j]
    /\ Len(s) <= at[n + 1]
    /\ whole => Len(s) = at[n + 1]
    /\ \A i \in h + 1 .. n : \A j \in 1 .. Len(B[i]) :
          at[i] + j <= Len(s) => s[at[i] + j] = B[i][j]

Aligned(s, B, h, n, whole) == \E at : Placed(at, s, B, h, n, whole)

(* At first nothing is under way. *)
LEMMA AlignedEmpty ==
    ASSUME NEW B, NEW whole
    PROVE  Aligned(<<>>, B, 0, 0, whole)
<1> DEFINE at == [i \in Nat |-> 0]
<1>1. <<>> \in Bytes /\ Len(<<>>) = 0
  BY FewBytes
<1>2. at \in [Nat -> Nat] /\ at[0 + 1] = 0
  OBVIOUS
<1> HIDE DEF at
<1>3. Placed(at, <<>>, B, 0, 0, whole)
  BY <1>1, <1>2 DEF Placed
<1> QED
  BY <1>3, Zenon DEF Aligned

(* One more write. *)
LEMMA AlignedWrite ==
    ASSUME NEW s, NEW B, NEW h \in Nat, NEW n \in Nat, h <= n, Aligned(s, B, h, n, TRUE),
           NEW b \in Bytes, NEW C, \A i \in h + 1 .. n : C[i] = B[i], C[n + 1] = b
    PROVE  Aligned(s \o b, C, h, n + 1, TRUE)
<1>1. PICK at : Placed(at, s, B, h, n, TRUE)
  BY DEF Aligned
<1>2. /\ s \in Bytes /\ at \in [Nat -> Nat] /\ at[h + 1] = 0
      /\ Len(s) = at[n + 1] /\ Len(s) \in Nat /\ Len(b) \in Nat
  BY <1>1, HoldsSelf DEF Placed
<1>3. \A i \in h + 1 .. n : B[i] \in Bytes /\ at[i + 1] = at[i] + Len(B[i])
  BY <1>1 DEF Placed
<1>4. \A i \in h + 1 .. n + 1 : \A j \in i .. n + 1 : at[i] <= at[j]
  BY <1>1 DEF Placed
<1>5. \A i \in h + 1 .. n : \A j \in 1 .. Len(B[i]) : at[i] + j <= Len(s) => s[at[i] + j] = B[i][j]
  BY <1>1 DEF Placed
<1> DEFINE c == s \o b
           pos == [i \in Nat |-> IF i = n + 2 THEN at[n + 1] + Len(b) ELSE at[i]]
<1>6. /\ c \in Bytes /\ Len(c) = Len(s) + Len(b)
      /\ \A i \in 1 .. Len(s) : c[i] = s[i]
      /\ \A i \in 1 .. Len(b) : c[Len(s) + i] = b[i]
  BY <1>2, Cat2
<1>7. /\ pos \in [Nat -> Nat] /\ pos[n + 2] = at[n + 1] + Len(b)
      /\ \A i \in Nat : i # n + 2 => pos[i] = at[i]
  <2>1. n + 1 \in Nat /\ n + 2 \in Nat
    OBVIOUS
  <2>0. \A x, y \in Nat : x + y \in Nat
    OBVIOUS
  <2>2. at[n + 1] \in Nat /\ at[n + 1] + Len(b) \in Nat
    BY <1>2, <2>0, <2>1, Zenon
  <2> HIDE DEF c
  <2> QED
    BY <1>2, <2>1, <2>2
<1> HIDE DEF c, pos
<1>8. pos[h + 1] = 0
  <2>1. h + 1 \in Nat /\ h + 1 # n + 2
    OBVIOUS
  <2> QED
    BY <1>2, <1>7, <2>1
<1>9. ASSUME NEW i \in h + 1 .. n + 1
      PROVE  C[i] \in Bytes /\ pos[i + 1] = pos[i] + Len(C[i])
  <2>1. CASE i \in h + 1 .. n
    <3>1. i \in Nat /\ i # n + 2 /\ i + 1 \in Nat /\ i + 1 # n + 2
      BY <2>1
    <3>2. pos[i] = at[i] /\ pos[i + 1] = at[i + 1]
      BY <1>7, <3>1
    <3>3. C[i] = B[i] /\ B[i] \in Bytes /\ at[i + 1] = at[i] + Len(B[i])
      BY <1>3, <2>1
    <3> QED
      BY <3>2, <3>3, Zenon
  <2>2. CASE i = n + 1
    <3>0. i \in Nat /\ i # n + 2 /\ i + 1 = n + 2
      BY <2>2
    <3>1. pos[i] = at[n + 1] /\ pos[i + 1] = at[n + 1] + Len(b) /\ C[i] = b
      BY <1>7, <2>2, <3>0
    <3> QED
      BY <3>1
  <2> QED
    BY <2>1, <2>2
<1>10. ASSUME NEW i \in h + 1 .. n + 2, NEW j \in i .. n + 2
       PROVE  pos[i] <= pos[j]
  <2>1. CASE j \in i .. n + 1
    <3>0. i \in Nat /\ i # n + 2 /\ j \in Nat /\ j # n + 2 /\ i \in h + 1 .. n + 1
      BY <2>1
    <3>1. pos[i] = at[i] /\ pos[j] = at[j] /\ i \in h + 1 .. n + 1
      BY <1>7, <3>0
    <3> QED
      BY <1>4, <2>1, <3>1
  <2>2. CASE j = n + 2 /\ i <= n + 1
    <3>1. i \in Nat /\ i # n + 2 /\ n + 1 \in Nat /\ i \in h + 1 .. n + 1 /\ n + 1 \in i .. n + 1
      BY <2>2
    <3>2. pos[i] = at[i] /\ at[i] \in Nat /\ at[n + 1] \in Nat
      BY <1>2, <1>7, <3>1
    <3>3. at[i] <= at[n + 1]
      BY <1>4, <3>1
    <3>4. pos[j] = at[n + 1] + Len(b) /\ Len(b) \in Nat
      BY <1>2, <1>7, <2>2
    <3> QED
      BY <3>2, <3>3, <3>4
  <2>3. CASE i = n + 2 /\ j = n + 2
    <3>0. i \in Nat /\ \A x \in Nat : x <= x
      OBVIOUS
    <3>1. pos[i] \in Nat
      BY <1>7, <3>0, Zenon
    <3>2. pos[i] <= pos[i] /\ j = i
      BY <2>3, <3>0, <3>1, Zenon
    <3> QED
      BY <3>2, Zenon
  <2> QED
    BY <2>1, <2>2, <2>3
<1>11. ASSUME NEW i \in h + 1 .. n + 1, NEW j \in 1 .. Len(C[i])
       PROVE  c[pos[i] + j] = C[i][j]
  <2>1. CASE i \in h + 1 .. n
    <3>0. /\ i \in Nat /\ i # n + 2 /\ i + 1 \in Nat /\ n + 1 \in Nat
          /\ i + 1 \in h + 1 .. n + 1 /\ n + 1 \in i + 1 .. n + 1
      BY <2>1
    <3>1. pos[i] = at[i] /\ C[i] = B[i] /\ at[i + 1] = at[i] + Len(B[i]) /\ B[i] \in Bytes
      BY <1>3, <1>7, <2>1, <3>0
    <3>2. at[i] \in Nat /\ at[i + 1] \in Nat /\ at[n + 1] \in Nat
      BY <1>2, <3>0
    <3>5. at[i + 1] <= at[n + 1]
      BY <1>4, <3>0
    <3>3. at[i] + j \in 1 .. Len(s) /\ at[i] + j <= Len(s) /\ j \in 1 .. Len(B[i])
      <4>1. Len(B[i]) \in Nat /\ j \in 1 .. Len(B[i])
        BY <3>1, HoldsSelf
      <4>2. at[i] + Len(B[i]) <= Len(s)
        BY <1>2, <3>1, <3>2, <3>5
      <4>3. \A x, y, z \in Nat : \A k \in 1 .. y :
               x + y <= z => x + k \in 1 .. z /\ x + k <= z
        OBVIOUS
      <4> QED
        BY <1>2, <3>2, <4>1, <4>2, <4>3, Zenon
    <3>4. s[at[i] + j] = B[i][j]
      BY <1>5, <2>1, <3>3
    <3>6. c[at[i] + j] = s[at[i] + j]
      BY <1>6, <3>3
    <3> QED
      BY <3>1, <3>4, <3>6, Zenon
  <2>2. CASE i = n + 1
    <3>0. i \in Nat /\ i # n + 2
      BY <2>2
    <3>1. pos[i] = Len(s) /\ C[i] = b
      BY <1>2, <1>7, <2>2, <3>0
    <3>2. j \in 1 .. Len(b)
      BY <3>1
    <3>3. c[Len(s) + j] = b[j]
      BY <1>6, <3>2
    <3> QED
      BY <3>1, <3>3, Zenon
  <2> QED
    BY <2>1, <2>2
<1>12. Len(c) = pos[n + 2]
  BY <1>2, <1>6, <1>7
<1>13. (n + 1) + 1 = n + 2
  OBVIOUS
<1>14. Len(c) \in Nat
  BY <1>6, HoldsSelf
<1>15. Placed(pos, c, C, h, n + 1, TRUE)
  <2>1. \A i \in h + 1 .. n + 1 : C[i] \in Bytes /\ pos[i + 1] = pos[i] + Len(C[i])
    BY <1>9
  <2>2. \A i \in h + 1 .. (n + 1) + 1 : \A j \in i .. (n + 1) + 1 : pos[i] <= pos[j]
    BY <1>10, <1>13, Zenon
  <2>3. Len(c) <= pos[(n + 1) + 1] /\ Len(c) = pos[(n + 1) + 1]
    BY <1>12, <1>13, <1>14
  <2>4. \A i \in h + 1 .. n + 1 : \A j \in 1 .. Len(C[i]) :
           pos[i] + j <= Len(c) => c[pos[i] + j] = C[i][j]
    BY <1>11, Zenon
  <2> QED
    BY <1>6, <1>7, <1>8, <2>1, <2>2, <2>3, <2>4, Zenon DEF Placed
<1> QED
  BY <1>15 DEF Aligned, c

(* The stream is cut. *)
LEMMA AlignedCut ==
    ASSUME NEW s, NEW B, NEW h \in Nat, NEW n \in Nat, NEW whole, Aligned(s, B, h, n, whole),
           NEW k \in 0 .. Len(s)
    PROVE  Aligned(SubSeq(s, 1, k), B, h, n, FALSE)
<1>1. PICK at : Placed(at, s, B, h, n, whole)
  BY DEF Aligned
<1> DEFINE c == SubSeq(s, 1, k)
<1>2. s \in Bytes /\ at \in [Nat -> Nat] /\ Len(s) <= at[n + 1] /\ Len(s) \in Nat
  BY <1>1, HoldsSelf DEF Placed
<1>3. c \in Bytes /\ Len(c) = k /\ \A i \in 1 .. k : c[i] = s[i]
  <2>1. 0 \in Nat /\ k \in Nat /\ 0 + k <= Len(s) /\ 0 + 1 = 1 /\ 0 + k = k
    BY <1>2
  <2>2. c = Slice(s, 0, k)
    BY <2>1 DEF Slice
  <2> HIDE DEF c
  <2>3. /\ c \in Bytes /\ Len(c) = k
        /\ \A i \in 1 .. k : c[i] = s[0 + i]
    BY <1>2, <2>1, <2>2, SliceFacts
  <2>4. \A i \in 1 .. k : 0 + i = i
    BY <2>1
  <2> QED
    BY <2>3, <2>4, Zenon
<1> HIDE DEF c
<1>4. Len(c) <= at[n + 1]
  <2>1. at[n + 1] \in Nat
    BY <1>2
  <2> QED
    BY <1>2, <1>3, <2>1
<1>5. ASSUME NEW i \in h + 1 .. n, NEW j \in 1 .. Len(B[i]), at[i] + j <= Len(c)
      PROVE  c[at[i] + j] = B[i][j]
  <2>0. i \in Nat /\ B[i] \in Bytes
    BY <1>1 DEF Placed
  <2>1. at[i] \in Nat /\ Len(B[i]) \in Nat
    BY <1>2, <2>0, HoldsSelf
  <2>2. at[i] + j \in 1 .. k
    <3>1. j \in Nat /\ 1 <= j /\ at[i] + j <= k
      BY <1>3, <1>5, <2>1
    <3>2. \A x, y \in Nat : 1 <= y /\ x + y <= k => x + y \in 1 .. k
      OBVIOUS
    <3> QED
      BY <2>1, <3>1, <3>2, Zenon
  <2>3. s[at[i] + j] = B[i][j]
    <3>1. at[i] + j <= Len(s)
      BY <1>2, <2>2
    <3> QED
      BY <1>1, <3>1 DEF Placed
  <2> QED
    BY <1>3, <2>2, <2>3
<1>6. Placed(at, c, B, h, n, FALSE)
  BY <1>1, <1>3, <1>4, <1>5 DEF Placed
<1> QED
  BY <1>6 DEF Aligned, c

(* Its front is the next write. *)
LEMMA AlignedFront ==
    ASSUME NEW s, NEW B, NEW h \in Nat, NEW n \in Nat, h < n, NEW whole,
           Aligned(s, B, h, n, whole)
    PROVE  s \in Bytes /\ B[h + 1] \in Bytes /\ InFront(s, B[h + 1])
<1>1. PICK at : Placed(at, s, B, h, n, whole)
  BY DEF Aligned
<1>2. h + 1 \in h + 1 .. n
  OBVIOUS
<1>3. s \in Bytes /\ B[h + 1] \in Bytes /\ at[h + 1] = 0 /\ Len(B[h + 1]) \in Nat
  BY <1>1, <1>2, HoldsSelf DEF Placed
<1>4. \A j \in 1 .. Len(B[h + 1]) : 0 + j <= Len(s) => s[0 + j] = B[h + 1][j]
  BY <1>1, <1>2, <1>3 DEF Placed
<1> QED
  BY <1>3, <1>4 DEF InFront

(* The next write is read. *)
LEMMA AlignedRead ==
    ASSUME NEW s, NEW B, NEW h \in Nat, NEW n \in Nat, h < n, NEW whole,
           Aligned(s, B, h, n, whole), Len(B[h + 1]) <= Len(s)
    PROVE  Aligned(From(s, Len(B[h + 1])), B, h + 1, n, whole)
<1>1. PICK at : Placed(at, s, B, h, n, whole)
  BY DEF Aligned
<1> DEFINE k == Len(B[h + 1])
           c == From(s, k)
           pos == [i \in Nat |-> IF i \in h + 2 .. n + 1 THEN at[i] - k ELSE 0]
<1>2. /\ s \in Bytes /\ at \in [Nat -> Nat] /\ at[h + 1] = 0 /\ Len(s) \in Nat
      /\ Len(s) <= at[n + 1] /\ (whole => Len(s) = at[n + 1])
  BY <1>1, HoldsSelf DEF Placed
<1>3. \A i \in h + 1 .. n : B[i] \in Bytes /\ at[i + 1] = at[i] + Len(B[i])
  BY <1>1 DEF Placed
<1>4. \A i \in h + 1 .. n + 1 : \A j \in i .. n + 1 : at[i] <= at[j]
  BY <1>1 DEF Placed
<1>5. \A i \in h + 1 .. n : \A j \in 1 .. Len(B[i]) : at[i] + j <= Len(s) => s[at[i] + j] = B[i][j]
  BY <1>1 DEF Placed
<1>6. k \in Nat /\ at[h + 2] = k
  <2>1. h + 1 \in h + 1 .. n /\ (h + 1) + 1 = h + 2
    OBVIOUS
  <2>2. B[h + 1] \in Bytes /\ at[h + 2] = 0 + k
    BY <1>2, <1>3, <2>1
  <2> QED
    BY <2>2, HoldsSelf
<1>7. /\ c \in Bytes /\ Len(c) = Len(s) - k /\ Len(c) \in Nat
      /\ \A i \in 1 .. Len(s) - k : c[i] = s[k + i]
  <2>1. Len(s) - k \in Nat /\ k + (Len(s) - k) = Len(s)
    BY <1>2, <1>6
  <2>2. c = Slice(s, k, Len(s) - k)
    BY <2>1, Zenon DEF From, Slice
  <2> HIDE DEF k, c
  <2>3. k + (Len(s) - k) <= Len(s)
    BY <1>2, <2>1
  <2>4. /\ Slice(s, k, Len(s) - k) \in Bytes /\ Len(Slice(s, k, Len(s) - k)) = Len(s) - k
        /\ \A i \in 1 .. Len(s) - k : Slice(s, k, Len(s) - k)[i] = s[k + i]
    BY <1>2, <1>6, <2>1, <2>3, SliceFacts, ZenonT(60)
  <2> QED
    BY <2>1, <2>2, <2>4, Zenon
<1>8. ASSUME NEW i \in h + 2 .. n + 1
      PROVE  pos[i] = at[i] - k /\ at[i] \in Nat /\ k <= at[i]
  <2>1. i \in Nat /\ h + 2 \in h + 1 .. n + 1 /\ i \in h + 2 .. n + 1
    OBVIOUS
  <2> HIDE DEF k, c
  <2>2. pos[i] = at[i] - k
    BY <2>1
  <2> HIDE DEF pos
  <2>3. at[h + 2] <= at[i]
    BY <1>4, <2>1
  <2> QED
    BY <1>2, <1>6, <2>1, <2>2, <2>3
<1>9. pos \in [Nat -> Nat]
  <2> HIDE DEF k, c
  <2>1. \A i \in h + 2 .. n + 1 : at[i] - k \in Nat
    <3>1. \A x \in Nat : k <= x => x - k \in Nat
      BY <1>6
    <3> QED
      BY <1>8, <3>1, Zenon
  <2> QED
    BY <2>1
<1> HIDE DEF k, c, pos
<1>10. (h + 1) + 1 = h + 2 /\ h + 2 \in h + 2 .. n + 1
  OBVIOUS
<1>11. pos[h + 2] = 0
  BY <1>6, <1>8, <1>10
<1>12. ASSUME NEW i \in h + 2 .. n
       PROVE  B[i] \in Bytes /\ pos[i + 1] = pos[i] + Len(B[i])
  <2>1. i \in h + 1 .. n /\ i \in h + 2 .. n + 1 /\ i + 1 \in h + 2 .. n + 1
    OBVIOUS
  <2>2. B[i] \in Bytes /\ at[i + 1] = at[i] + Len(B[i]) /\ Len(B[i]) \in Nat
    BY <1>3, <2>1, HoldsSelf
  <2>3. pos[i] = at[i] - k /\ pos[i + 1] = at[i + 1] - k /\ at[i] \in Nat
    BY <1>8, <2>1
  <2> QED
    BY <1>6, <2>2, <2>3
<1>13. ASSUME NEW i \in h + 2 .. n + 1, NEW j \in i .. n + 1
       PROVE  pos[i] <= pos[j]
  <2>1. i \in h + 1 .. n + 1 /\ j \in h + 2 .. n + 1
    OBVIOUS
  <2>2. at[i] <= at[j]
    BY <1>4, <2>1
  <2>3. pos[i] = at[i] - k /\ pos[j] = at[j] - k /\ at[i] \in Nat /\ at[j] \in Nat
    BY <1>8, <2>1
  <2> QED
    BY <1>6, <2>2, <2>3
<1>14. Len(c) <= pos[n + 1] /\ (whole => Len(c) = pos[n + 1])
  <2>1. n + 1 \in h + 2 .. n + 1
    OBVIOUS
  <2>2. pos[n + 1] = at[n + 1] - k /\ at[n + 1] \in Nat
    BY <1>8, <2>1
  <2>3. \A x, y, z \in Nat : (z <= x => z - y <= x - y) /\ (z = x => z - y = x - y)
    OBVIOUS
  <2> QED
    BY <1>2, <1>6, <1>7, <2>2, <2>3, ZenonT(60)
<1>15. ASSUME NEW i \in h + 2 .. n, NEW j \in 1 .. Len(B[i]), pos[i] + j <= Len(c)
       PROVE  c[pos[i] + j] = B[i][j]
  <2>1. i \in h + 1 .. n /\ i \in h + 2 .. n + 1
    OBVIOUS
  <2>2. pos[i] = at[i] - k /\ at[i] \in Nat /\ k <= at[i]
    BY <1>8, <2>1
  <2>3. B[i] \in Bytes /\ Len(B[i]) \in Nat
    BY <1>3, <2>1, HoldsSelf
  <2>4. pos[i] + j \in 1 .. Len(s) - k /\ k + (pos[i] + j) = at[i] + j /\ at[i] + j <= Len(s)
    <3>1. j \in Nat /\ 1 <= j
      BY <2>3
    <3>2. Len(s) \in Nat /\ k \in Nat /\ Len(c) = Len(s) - k
      BY <1>2, <1>6, <1>7, Zenon
    <3> QED
      BY <1>15, <2>2, <3>1, <3>2, SMTT(30)
  <2>5. s[at[i] + j] = B[i][j]
    BY <1>5, <2>1, <2>4
  <2>6. c[pos[i] + j] = s[k + (pos[i] + j)]
    BY <1>7, <2>4
  <2> QED
    BY <2>4, <2>5, <2>6
<1>16. Placed(pos, c, B, h + 1, n, whole)
  BY <1>7, <1>9, <1>10, <1>11, <1>12, <1>13, <1>14, <1>15 DEF Placed
<1> QED
  BY <1>16 DEF Aligned, c, k

(* Nothing is under way. *)
LEMMA AlignedDone ==
    ASSUME NEW s, NEW B, NEW n \in Nat, NEW whole, Aligned(s, B, n, n, whole)
    PROVE  s = <<>>
<1>1. PICK at : Placed(at, s, B, n, n, whole)
  BY DEF Aligned
<1>2. s \in Bytes /\ Len(s) <= 0 /\ Len(s) \in Nat
  BY <1>1, HoldsSelf DEF Placed
<1> QED
  BY <1>2, EmptySeq DEF Bytes

-----------------------------------------------------------------------------
(* Whatever arrives: a frame that is read is made of the bytes that are     *)
(* there.                                                                   *)

(* What is left of bytes is bytes. *)
LEMMA FromBytes ==
    ASSUME NEW s \in Bytes, NEW k \in Nat, k <= Len(s)
    PROVE  From(s, k) \in Bytes
<1>1. Len(s) \in Nat
  BY HoldsSelf
<1>2. Len(s) - k \in Nat /\ k + (Len(s) - k) = Len(s) /\ k + (Len(s) - k) <= Len(s)
  BY <1>1
<1>3. From(s, k) = Slice(s, k, Len(s) - k)
  BY <1>2, Zenon DEF From, Slice
<1> QED
  BY <1>2, <1>3, SliceFacts, ZenonT(60)

(* Only an echo is read as one. *)
LEMMA NoEcho ==
    ASSUME NEW p
    PROVE  /\ decode_producer_register(p).kind # "Echo"
           /\ decode_consumer_register(p).kind # "Echo"
           /\ decode_fetch(p).kind # "Echo"
           /\ decode_commit_offset(p).kind # "Echo"
           /\ decode_produce(p).kind # "Echo"
           /\ decode_create_topic(p).kind # "Echo"
           /\ decode_describe_topic(p).kind # "Echo"
           /\ decode_get_lag(p).kind # "Echo"
           /\ decode_replicate(p).kind # "Echo"
           /\ decode_idempotent_produce(p).kind # "Echo"
           /\ decode_broker_heartbeat(p).kind # "Echo"
           /\ decode_join_group(p).kind # "Echo"
           /\ decode_group_heartbeat(p).kind # "Echo"
           /\ decode_handshake(p).kind # "Echo"
<1>1. decode_producer_register(p).kind # "Echo"
  BY SMT DEF decode_producer_register, Err
<1>2. decode_consumer_register(p).kind # "Echo"
  BY SMT DEF decode_consumer_register, Err
<1>3. decode_fetch(p).kind # "Echo"
  BY SMT DEF decode_fetch, Err
<1>4. decode_commit_offset(p).kind # "Echo"
  BY SMT DEF decode_commit_offset, Err
<1>5. decode_produce(p).kind # "Echo"
  BY SMT DEF decode_produce, Err
<1>6. decode_create_topic(p).kind # "Echo"
  BY SMT DEF decode_create_topic, Err
<1>7. decode_describe_topic(p).kind # "Echo"
  BY SMT DEF decode_describe_topic, Err
<1>8. decode_get_lag(p).kind # "Echo"
  BY SMT DEF decode_get_lag, Err
<1>9. decode_replicate(p).kind # "Echo"
  BY SMT DEF decode_replicate, Err
<1>10. decode_idempotent_produce(p).kind # "Echo"
  BY SMT DEF decode_idempotent_produce, Err
<1>11. decode_broker_heartbeat(p).kind # "Echo"
  BY SMT DEF decode_broker_heartbeat, Err
<1>12. decode_join_group(p).kind # "Echo"
  BY SMT DEF decode_join_group, Err
<1>13. decode_group_heartbeat(p).kind # "Echo"
  BY SMT DEF decode_group_heartbeat, Err
<1>14. decode_handshake(p).kind # "Echo"
  BY SMT DEF decode_handshake, Err
<1> QED
  BY <1>1, <1>2, <1>3, <1>4, <1>5, <1>6, <1>7, <1>8, <1>9, <1>10, <1>11, <1>12, <1>13, <1>14,
     Zenon

(* What a type byte names. *)
LEMMA NamedKinds ==
    ASSUME NEW type
    PROVE  KindOf(type) \in RequestKinds \cup AnswerKinds \cup {"none"}
<1>1. DOMAIN Requests = 1 .. 18 /\ DOMAIN Answers = 1 .. 19
  BY DEF Requests, Answers
<1>2. \A n \in 1 .. 18 : Requests[n] \in RequestKinds
  BY DEF Requests, RequestKinds
<1>3. \A n \in 1 .. 19 : Answers[n] \in AnswerKinds
  BY DEF Answers, AnswerKinds
<1> QED
  BY <1>1, <1>2, <1>3, Zenon DEF KindOf

(* An echo that was read has bytes. *)
LEMMA ParsedEcho ==
    ASSUME NEW body \in Bytes, parse_frame(body).kind = "Echo"
    PROVE  parse_frame(body).bytes \in Bytes
<1>1. body # <<>>
  <2>1. CASE body = <<>>
    <3>1. parse_frame(body) = Err
      BY <2>1, Zenon DEF parse_frame
    <3> QED
      BY <3>1 DEF Err
  <2> QED
    BY <2>1
<1> DEFINE kind == KindOf(body[1])
           p    == Tail(body)
<1>2. kind \in RequestKinds \cup AnswerKinds \cup {"none"}
  BY NamedKinds
<1>3. CASE kind = "Echo"
  <2>1. parse_frame(body) = [kind |-> kind, bytes |-> p]
    BY <1>1, <1>3, Parsed DEF OfBytes
  <2>2. p \in Bytes
    BY <1>1 DEF Bytes
  <2> QED
    BY <2>1, <2>2
<1>4. CASE kind # "Echo"
  <2>1. ASSUME kind \in Bare \cup OfBytes \cup OfStatus PROVE FALSE
    <3>1. parse_frame(body).kind = kind
      BY <1>1, <2>1, Parsed
    <3> QED
      BY <1>4, <3>1
  <2>2. kind \notin {"ProducerRegister", "ConsumerRegister", "Fetch", "CommitOffset", "Produce",
                     "CreateTopic", "DescribeTopic", "GetLag", "Replicate",
                     "IdempotentProduce", "BrokerHeartbeat", "JoinGroup", "GroupHeartbeat",
                     "Handshake"}
    <3>1. kind = "ProducerRegister" => parse_frame(body) = decode_producer_register(p)
      BY <1>1, Parsed, Zenon
    <3>2. kind = "ConsumerRegister" => parse_frame(body) = decode_consumer_register(p)
      BY <1>1, Parsed, Zenon
    <3>3. kind = "Fetch" => parse_frame(body) = decode_fetch(p)
      BY <1>1, Parsed, Zenon
    <3>4. kind = "CommitOffset" => parse_frame(body) = decode_commit_offset(p)
      BY <1>1, Parsed, Zenon
    <3>5. kind = "Produce" => parse_frame(body) = decode_produce(p)
      BY <1>1, Parsed, Zenon
    <3>6. kind = "CreateTopic" => parse_frame(body) = decode_create_topic(p)
      BY <1>1, Parsed, Zenon
    <3>7. kind = "DescribeTopic" => parse_frame(body) = decode_describe_topic(p)
      BY <1>1, Parsed, Zenon
    <3>8. kind = "GetLag" => parse_frame(body) = decode_get_lag(p)
      BY <1>1, Parsed, Zenon
    <3>9. kind = "Replicate" => parse_frame(body) = decode_replicate(p)
      BY <1>1, Parsed, Zenon
    <3>10. kind = "IdempotentProduce" => parse_frame(body) = decode_idempotent_produce(p)
      BY <1>1, Parsed, Zenon
    <3>11. kind = "BrokerHeartbeat" => parse_frame(body) = decode_broker_heartbeat(p)
      BY <1>1, Parsed, Zenon
    <3>12. kind = "JoinGroup" => parse_frame(body) = decode_join_group(p)
      BY <1>1, Parsed, Zenon
    <3>13. kind = "GroupHeartbeat" => parse_frame(body) = decode_group_heartbeat(p)
      BY <1>1, Parsed, Zenon
    <3>14. kind = "Handshake" => parse_frame(body) = decode_handshake(p)
      BY <1>1, Parsed, Zenon
    <3> QED
      BY <3>1, <3>2, <3>3, <3>4, <3>5, <3>6, <3>7, <3>8, <3>9, <3>10, <3>11, <3>12, <3>13, <3>14,
         NoEcho, Zenon
  <2>3. kind \notin {"RProduce", "RNotLeader", "RGroupHeartbeat", "RHandshake", "RError", "none"}
    <3>1. Err.kind # "Echo"
      BY DEF Err
    <3>2. kind # "RProduce"
      <4> SUFFICES ASSUME kind = "RProduce" PROVE FALSE
        OBVIOUS
      <4>1. parse_frame(body) =
               IF Len(p) < 8 THEN Err ELSE [kind |-> "RProduce", offset |-> Get(p, 0, 8)]
        BY <1>1, Parsed, Zenon
      <4> QED
        BY <3>1, <4>1
    <3>3. kind # "RNotLeader"
      <4> SUFFICES ASSUME kind = "RNotLeader" PROVE FALSE
        OBVIOUS
      <4>1. parse_frame(body) =
               IF Len(p) < 2 THEN Err ELSE [kind |-> "RNotLeader", leader |-> Get(p, 0, 2)]
        BY <1>1, Parsed, Zenon
      <4> QED
        BY <3>1, <4>1
    <3>4. kind # "RGroupHeartbeat"
      <4> SUFFICES ASSUME kind = "RGroupHeartbeat" PROVE FALSE
        OBVIOUS
      <4>1. parse_frame(body) =
               [kind |-> "RGroupHeartbeat", code |-> FirstOr0(p),
                flag |-> IF Len(p) < 2 THEN 0 ELSE p[2]]
        BY <1>1, Parsed, Zenon
      <4> QED
        BY <4>1
    <3>5. kind # "RHandshake"
      <4> SUFFICES ASSUME kind = "RHandshake" PROVE FALSE
        OBVIOUS
      <4>1. parse_frame(body) =
               IF Len(p) < 3 THEN Err
               ELSE [kind |-> "RHandshake", code |-> p[1], version |-> Get(p, 1, 2)]
        BY <1>1, Parsed, Zenon
      <4> QED
        BY <3>1, <4>1
    <3>6. kind # "RError"
      <4> SUFFICES ASSUME kind = "RError" PROVE FALSE
        OBVIOUS
      <4>1. parse_frame(body) =
               IF p = <<>> THEN Err
               ELSE [kind |-> "RError", code |-> p[1], bytes |-> From(p, 1)]
        BY <1>1, Parsed, Zenon
      <4> QED
        BY <3>1, <4>1
    <3>7. kind # "none"
      BY <1>1, <3>1, Parsed, Zenon
    <3> QED
      BY <3>2, <3>3, <3>4, <3>5, <3>6, <3>7
  <2> HIDE DEF kind
  <2> QED
    BY <1>2, <2>1, <2>2, <2>3 DEF RequestKinds, AnswerKinds, Bare, OfBytes, OfStatus
<1> QED
  BY <1>3, <1>4

(* Whatever the bytes are: a frame that is found is one, of part of them.   *)
IsRead(r, s) ==
    \E id, m, format, used :
        /\ r = ReadAs(id, m, format, used)
        /\ Word(id)
        /\ format \in {"V1", "V2"}
        /\ format = "V1" => id = 0
        /\ m.kind = "Echo" => m.bytes \in Bytes
        /\ used \in Nat /\ used <= Len(s)

(* A frame found in part of the bytes is one read from them. *)
LEMMA FoundRead ==
    ASSUME NEW s, NEW body \in Bytes, NEW id, Word(id), NEW format \in {"V1", "V2"},
           format = "V1" => id = 0,
           NEW used \in Nat, used <= Len(s), NEW r, r = Found(parse_frame(body), id, format, used),
           r.status = "frame"
    PROVE  IsRead(r, s)
<1> DEFINE m == parse_frame(body)
<1>1. m.kind = "Echo" => m.bytes \in Bytes
  BY ParsedEcho
<1> HIDE DEF m
<1>2. r = Found(m, id, format, used)
  BY DEF m
<1>3. m # Err
  BY <1>2 DEF Found, Bad
<1>4. r = ReadAs(id, m, format, used)
  BY <1>2, <1>3 DEF Found, ReadAs, FrameOf
<1> QED
  BY <1>1, <1>4, Zenon DEF IsRead

(* read_message, ... *)
LEMMA ReadMessage ==
    ASSUME NEW s \in Bytes, read_message(s).status = "frame"
    PROVE  IsRead(read_message(s), s)
<1>1. Wait.status # "frame" /\ Word(0)
  BY SMT DEF Wait, Word
<1>2. s # <<>> /\ ~ (Len(s) < 1 + s[1])
  BY <1>1, Zenon DEF read_message
<1>3. read_message(s) = Found(parse_frame(Slice(s, 1, s[1])), 0, "V1", 1 + s[1])
  BY <1>2, Zenon DEF read_message
<1>4. Len(s) \in Nat /\ s[1] \in Nat
  <2>1. Len(s) \in Nat /\ s[1] \in Byte
    BY <1>2, HoldsSelf DEF Bytes
  <2> QED
    BY <2>1, Types
<1>5. 1 + s[1] <= Len(s) /\ 1 + s[1] \in Nat /\ 1 \in Nat
  BY <1>2, <1>4
<1>6. Slice(s, 1, s[1]) \in Bytes
  BY <1>4, <1>5, SliceFacts, Zenon
<1> QED
  BY <1>1, <1>3, <1>5, <1>6, FoundRead, Zenon

(* ... and read_frame. *)
LEMMA ReadFrame ==
    ASSUME NEW s \in Bytes, read_frame(s).status = "frame"
    PROVE  IsRead(read_frame(s), s)
<1>1. Wait.status # "frame" /\ Bad.status # "frame"
  BY DEF Wait, Bad
<1>2. CASE s[1] # 255
  <2>1. read_frame(s) = read_message(s)
    BY <1>1, <1>2, Zenon DEF read_frame
  <2> QED
    BY <2>1, ReadMessage, Zenon
<1>3. CASE s[1] = 255
  <2> DEFINE n    == Get(s, 2, 2)
             body == Slice(s, 4, n)
  <2>1. s # <<>> /\ ~ (Len(s) < 2) /\ s[2] = 2 /\ ~ (Len(s) < 4) /\ ~ (Len(s) < 4 + n) /\ s[1] # 0
    BY <1>1, <1>3, Zenon DEF read_frame
  <2>2. read_frame(s) = parse_v2_body(body)
    BY <1>3, <2>1, Zenon DEF read_frame
  <2>3. Len(s) \in Nat
    BY HoldsSelf
  <2>4. 4 <= Len(s) /\ 2 + 2 <= Len(s) /\ 2 \in Nat /\ 4 \in Nat
    BY <2>1, <2>3
  <2>5. n \in Nat
    BY <2>4, GetTypes
  <2> HIDE DEF n
  <2>6. 4 + n <= Len(s) /\ 4 + n \in Nat
    BY <2>1, <2>3, <2>5
  <2>7. body \in Bytes /\ Len(body) = n
    BY <2>4, <2>5, <2>6, SliceFacts, Zenon
  <2> HIDE DEF body
  <2>8. ~ (Len(body) < 6 \/ body[1] # 2)
    BY <1>1, <2>2, Zenon DEF parse_v2_body
  <2>9. parse_v2_body(body) = Found(parse_frame(From(body, 5)), Get(body, 1, 4), "V2", 4 + n)
    BY <2>7, <2>8, Zenon DEF parse_v2_body
  <2>10. 1 \in Nat /\ 5 \in Nat /\ 1 + 4 <= Len(body) /\ 5 <= Len(body)
    BY <2>5, <2>7, <2>8
  <2>11. Word(Get(body, 1, 4))
    BY <2>7, <2>10, GetTypes, Zenon
  <2>12. From(body, 5) \in Bytes
    BY <2>7, <2>10, FromBytes, Zenon
  <2>13. "V2" # "V1"
    OBVIOUS
  <2> QED
    BY <2>2, <2>6, <2>9, <2>11, <2>12, <2>13, FoundRead, Zenon
<1> QED
  BY <1>2, <1>3

-----------------------------------------------------------------------------
(* Requests: the broker dispatches what the client sent. *)

(* What the client sends: a request under an id that the format can carry.  *)
IsRequest(r) ==
    /\ r.format \in {"V1", "V2"}
    /\ \E id \in Nat, m \in RequestMessage :
          Word(id) /\ (r.format = "V1" => id = 0) /\ r.frame = FrameOf(id, m)

RequestBytes(s) == [i \in DOMAIN s |-> write_frame(s[i].frame, s[i].format)]

AllFit(s, i) == \A j \in 1 .. i : RequestFits(s[j])

MatchUpTo(h, s, n) ==
    \A i \in 1 .. n :
        i <= Len(s) /\ AllFit(s, i) =>
            h[i].frame = s[i].frame /\ h[i].format = s[i].format

SentInv ==
    /\ script \in Scripts
    /\ \E D : sent \in Seq(D)
    /\ Len(sent) <= Len(script)
    /\ \A i \in 1 .. Len(sent) : IsRequest(sent[i])

(* Until a request that does not fit has been read, what is under way is    *)
(* what the broker has still to read of the requests.                       *)
InStep(s, h, bytes, whole) ==
    Len(h) <= Len(s) /\ Aligned(bytes, RequestBytes(s), Len(h), Len(s), whole)

Misread(s, h) == \E k \in 1 .. Len(s) : k <= Len(h) /\ ~ RequestFits(s[k])

ArrivesInv ==
    /\ broken \in BOOLEAN
    /\ toBroker \in Bytes
    /\ \E D : handled \in Seq(D)
    /\ MatchUpTo(handled, sent, Len(handled))
    /\ InStep(sent, handled, toBroker, ~ broken) \/ Misread(sent, handled)

(* The property's terms. *)
LEMMA FitsTerms == \A i : FitsUpTo(i) <=> AllFit(sent, i)
BY Zenon DEF FitsUpTo, AllFit

(* The invariant has the property. *)
LEMMA ArrivesProperty ==
    ASSUME SentInv, ArrivesInv
    PROVE  ArrivesAsSent
<1>1. PICK D : handled \in Seq(D)
  BY DEF ArrivesInv
<1>2. Len(handled) \in Nat /\ DOMAIN handled = 1 .. Len(handled)
  BY <1>1, LenProperties
<1>3. Len(handled) <= Len(sent) \/ ~ FitsUpTo(Len(sent))
  BY FitsTerms, Zenon DEF ArrivesInv, InStep, Misread, AllFit
<1>4. \A i \in DOMAIN handled :
         i <= Len(sent) /\ FitsUpTo(i) =>
             handled[i].frame = sent[i].frame /\ handled[i].format = sent[i].format
  BY <1>2, FitsTerms, Zenon DEF ArrivesInv, MatchUpTo
<1> QED
  BY <1>3, <1>4, Zenon DEF ArrivesAsSent

(* A request is written as bytes. *)
LEMMA RequestWritten ==
    ASSUME NEW r, IsRequest(r)
    PROVE  write_frame(r.frame, r.format) \in Bytes
<1>1. PICK id \in Nat, m \in RequestMessage :
         Word(id) /\ (r.format = "V1" => id = 0) /\ r.frame = FrameOf(id, m)
  BY Zenon DEF IsRequest
<1>2. Survives(m)
  BY RequestsSurvive
<1> QED
  BY <1>1, <1>2, FrameBytes, Zenon

(* The broker reads a request that fits as it was sent, or waits for it.    *)
LEMMA RequestFound ==
    ASSUME NEW r, IsRequest(r), RequestFits(r), NEW s \in Bytes,
           NEW b, b = write_frame(r.frame, r.format), InFront(s, b),
           read_frame(s).status = "frame"
    PROVE  /\ Len(b) <= Len(s)
           /\ read_frame(s).frame = r.frame /\ read_frame(s).format = r.format
           /\ read_frame(s).used = Len(b)
<1>1. PICK id \in Nat, m \in RequestMessage :
         Word(id) /\ (r.format = "V1" => id = 0) /\ r.frame = FrameOf(id, m)
  BY Zenon DEF IsRequest
<1> DEFINE format == r.format
<1>2. format \in {"V1", "V2"} /\ r.frame.message = m
  BY <1>1 DEF IsRequest, FrameOf
<1>3. Fitting(m, format, 254)
  BY <1>2, Zenon DEF RequestFits, Fitting
<1>4. Survives(m)
  BY RequestsSurvive
<1>5. b = write_frame(FrameOf(id, m), format)
  BY <1>1, Zenon
<1> HIDE DEF format
<1>6. /\ Len(b) <= Len(s) => read_frame(s) = ReadAs(id, m, format, Len(b))
      /\ Len(s) < Len(b) => read_frame(s) = Wait
  <2>1. format = "V1" => id = 0
    BY <1>1 DEF format
  <2> QED
    BY <1>1, <1>2, <1>3, <1>4, <1>5, <2>1, FrameRead
<1>7. Len(b) <= Len(s)
  <2>1. read_frame(s) # Wait
    BY DEF Wait
  <2>2. b \in Bytes
    BY RequestWritten
  <2>3. Len(b) \in Nat /\ Len(s) \in Nat
    BY <2>2, HoldsSelf
  <2>4. ~ (Len(s) < Len(b))
    BY <1>6, <2>1, Zenon
  <2> HIDE <1>6
  <2> QED
    BY <2>3, <2>4
<1>8. read_frame(s) = ReadAs(id, m, format, Len(b))
  BY <1>6, <1>7, Zenon
<1> QED
  BY <1>1, <1>7, <1>8 DEF ReadAs, format

(* At first nothing was sent or read. *)
LEMMA ArrivesInit == Init => SentInv /\ ArrivesInv
<1> SUFFICES ASSUME Init PROVE SentInv /\ ArrivesInv
  OBVIOUS
<1>1. /\ script \in Scripts /\ broken = FALSE /\ toBroker = <<>> /\ sent = <<>>
      /\ handled = <<>>
  BY DEF Init
<1>2. /\ sent \in Seq({}) /\ Len(sent) = 0 /\ handled \in Seq({}) /\ Len(handled) = 0
      /\ 1 .. 0 = {} /\ toBroker \in Bytes
  BY <1>1, FewBytes
<1>3. Len(script) \in Nat
  BY <1>1, SessionAssumption, LenProperties
<1>4. SentInv
  <2>1. Len(sent) <= Len(script)
    BY <1>2, <1>3
  <2> QED
    BY <1>1, <1>2, <2>1, Zenon DEF SentInv
<1>5. InStep(sent, handled, toBroker, ~ broken)
  <2>1. Aligned(<<>>, RequestBytes(sent), 0, 0, ~ broken)
    BY AlignedEmpty, Zenon
  <2> QED
    BY <1>1, <1>2, <2>1 DEF InStep
<1>6. ArrivesInv
  BY <1>1, <1>2, <1>5 DEF ArrivesInv, MatchUpTo
<1> QED
  BY <1>4, <1>6

(* The client sends. *)
LEMMA SentSend ==
    ASSUME NEW format \in {"V1", "V2"}, SentInv, Send(format)
    PROVE  /\ SentInv'
           /\ \E r : /\ IsRequest(r) /\ r.format = format
                     /\ sent' = Append(sent, r)
                     /\ toBroker' = toBroker \o write_frame(r.frame, r.format)
           /\ ~ broken
<1> DEFINE n     == Len(sent)
           id    == IF format = "V1" THEN 0 ELSE 256 * n + 1
           frame == FrameOf(id, script[n + 1])
           r     == [frame |-> frame, format |-> format]
<1>1. /\ ~ broken /\ n < Len(script) /\ script' = script
      /\ sent' = Append(sent, r) /\ toBroker' = toBroker \o write_frame(frame, format)
  BY DEF Send, FrameOf
<1>2. PICK D : sent \in Seq(D)
  BY DEF SentInv
<1>3. n \in Nat /\ \A i \in 1 .. n : IsRequest(sent[i])
  BY <1>2, LenProperties DEF SentInv
<1>4. script \in Seq(RequestMessage) /\ Len(script) \in Nat /\ Len(script) <= MaxRequests
  BY SessionAssumption, LenProperties DEF SentInv
<1>5. script[n + 1] \in RequestMessage
  <2>1. n + 1 \in 1 .. Len(script)
    BY <1>1, <1>3, <1>4
  <2> QED
    BY <1>4, <2>1, ElementOfSeq
<1>6. Word(id) /\ (format = "V1" => id = 0)
  <2>1. MaxRequests \in Nat /\ 256 * MaxRequests + 1 <= 4294967295
    BY SMT DEF MaxRequests
  <2>2. n <= MaxRequests
    BY <1>1, <1>3, <1>4, <2>1, SMT
  <2>3. 256 * n + 1 \in Nat /\ 256 * n + 1 <= 4294967295
    BY <1>3, <2>1, <2>2, SMT
  <2> QED
    BY <2>3, SMT DEF Word
<1> HIDE DEF id
<1>7. IsRequest(r) /\ r.format = format /\ r.frame = frame
  <2>1. r.format = format /\ r.frame = FrameOf(id, script[n + 1])
    OBVIOUS
  <2> HIDE DEF r, frame, n
  <2>2. id \in Nat
    BY <1>6 DEF Word
  <2> QED
    BY <1>5, <1>6, <2>1, <2>2, Zenon DEF IsRequest, frame
<1> HIDE DEF r, frame
<1>8. /\ sent \in Seq(D \cup {r}) /\ r \in D \cup {r}
      /\ sent' \in Seq(D \cup {r}) /\ Len(sent') = n + 1 /\ sent'[n + 1] = r
      /\ \A i \in 1 .. n : sent'[i] = sent[i]
  <2>1. sent \in Seq(D \cup {r}) /\ r \in D \cup {r}
    BY <1>2
  <2> QED
    BY <1>1, <2>1, AppendProperties
<1>9. SentInv'
  <2>1. \A i \in 1 .. n + 1 : i \in 1 .. n \/ i = n + 1
    BY <1>3
  <2>2. \A i \in 1 .. Len(sent') : IsRequest(sent'[i])
    BY <1>3, <1>7, <1>8, <2>1, Zenon
  <2>3. Len(sent') <= Len(script)
    BY <1>1, <1>3, <1>4, <1>8
  <2>4. script' \in Scripts
    BY <1>1 DEF SentInv
  <2>5. \E S : sent' \in Seq(S)
    BY <1>8, Zenon
  <2> QED
    BY <1>1, <2>2, <2>3, <2>4, <2>5, Zenon DEF SentInv
<1> QED
  BY <1>1, <1>7, <1>9, Zenon

(* The bytes of the i-th request. *)
LEMMA BytesOf ==
    ASSUME NEW D, NEW s \in Seq(D), NEW i \in 1 .. Len(s)
    PROVE  RequestBytes(s)[i] = write_frame(s[i].frame, s[i].format)
BY DEF RequestBytes

(* A request more is under way. *)
LEMMA ArrivesSend ==
    ASSUME NEW format \in {"V1", "V2"}, SentInv, ArrivesInv, Send(format)
    PROVE  ArrivesInv'
<1>1. PICK r : /\ IsRequest(r)
               /\ sent' = Append(sent, r)
               /\ toBroker' = toBroker \o write_frame(r.frame, r.format)
  BY SentSend, Zenon
<1> DEFINE b == write_frame(r.frame, r.format)
           n == Len(sent)
           h == Len(handled)
<1>2. broken = FALSE /\ broken' = broken /\ handled' = handled
  BY DEF Send, ArrivesInv
<1>3. b \in Bytes
  BY <1>1, RequestWritten, Zenon
<1> HIDE DEF b
<1>4. PICK D : handled \in Seq(D)
  BY DEF ArrivesInv
<1>5. PICK E : sent \in Seq(E)
  BY DEF SentInv
<1>6. /\ sent \in Seq(E \cup {r}) /\ sent' \in Seq(E \cup {r}) /\ Len(sent') = n + 1
      /\ sent'[n + 1] = r /\ n \in Nat /\ h \in Nat
      /\ \A i \in 1 .. n : sent'[i] = sent[i]
  <2>1. sent \in Seq(E \cup {r}) /\ r \in E \cup {r}
    BY <1>5
  <2> QED
    BY <1>1, <1>4, <2>1, AppendProperties, LenProperties
<1> HIDE DEF n, h
<1>7. toBroker' \in Bytes
  <2>1. toBroker \in Bytes /\ toBroker' = toBroker \o b
    BY <1>1 DEF ArrivesInv, b
  <2> QED
    BY <1>3, <2>1, Cat2, Zenon
<1>8. ASSUME InStep(sent, handled, toBroker, ~ broken)
      PROVE  InStep(sent', handled', toBroker', ~ broken') /\ h <= n
  <2>1. h <= n /\ Aligned(toBroker, RequestBytes(sent), h, n, ~ broken)
    BY <1>8, Zenon DEF InStep, h, n
  <2>2. Aligned(toBroker, RequestBytes(sent), h, n, TRUE)
    BY <1>2, <2>1
  <2>3. \A i \in h + 1 .. n : RequestBytes(sent')[i] = RequestBytes(sent)[i]
    <3> SUFFICES ASSUME NEW i \in h + 1 .. n
                 PROVE  RequestBytes(sent')[i] = RequestBytes(sent)[i]
      OBVIOUS
    <3>1. i \in 1 .. n /\ i \in 1 .. n + 1
      BY <1>6
    <3>2. sent'[i] = sent[i]
      BY <1>6, <3>1
    <3>3. RequestBytes(sent)[i] = write_frame(sent[i].frame, sent[i].format)
      BY <1>6, <3>1, BytesOf DEF n
    <3>4. RequestBytes(sent')[i] = write_frame(sent'[i].frame, sent'[i].format)
      BY <1>6, <3>1, BytesOf
    <3> QED
      BY <3>2, <3>3, <3>4, Zenon
  <2>4. RequestBytes(sent')[n + 1] = b
    <3>1. n + 1 \in 1 .. n + 1
      BY <1>6
    <3>2. RequestBytes(sent')[n + 1] = write_frame(sent'[n + 1].frame, sent'[n + 1].format)
      BY <1>6, <3>1, BytesOf
    <3> QED
      BY <1>6, <3>2, Zenon DEF b
  <2>5. Aligned(toBroker \o b, RequestBytes(sent'), h, n + 1, TRUE)
    BY <1>3, <1>6, <2>1, <2>2, <2>3, <2>4, AlignedWrite
  <2>6. h <= n + 1 /\ toBroker' = toBroker \o b /\ (~ broken') = TRUE /\ Len(handled') = h
    BY <1>1, <1>2, <1>6, <2>1 DEF b, h
  <2> QED
    BY <1>6, <2>1, <2>5, <2>6, Zenon DEF InStep
<1>9. ASSUME Misread(sent, handled)
      PROVE  Misread(sent', handled')
  <2>1. PICK k \in 1 .. n : k <= h /\ ~ RequestFits(sent[k])
    BY <1>9, Zenon DEF Misread, h, n
  <2>2. k \in 1 .. n + 1 /\ sent'[k] = sent[k]
    BY <1>6
  <2> QED
    BY <1>2, <1>6, <2>1, <2>2, Zenon DEF Misread, h
<1>10. MatchUpTo(handled', sent', Len(handled'))
  <2> SUFFICES ASSUME NEW i \in 1 .. h, i <= n + 1, AllFit(sent', i)
               PROVE  handled[i].frame = sent'[i].frame /\ handled[i].format = sent'[i].format
    BY <1>2, <1>6, Zenon DEF MatchUpTo, h
  <2>1. i <= n
    <3>1. CASE InStep(sent, handled, toBroker, ~ broken)
      BY <1>6, <1>8, <3>1
    <3>2. CASE Misread(sent, handled)
      <4>1. PICK k \in 1 .. n : k <= h /\ ~ RequestFits(sent[k])
        BY <3>2, Zenon DEF Misread, h, n
      <4>2. sent'[k] = sent[k] /\ k \in Nat /\ 1 <= k /\ k <= n
        BY <1>6
      <4>3. k \notin 1 .. i
        BY <4>1, <4>2, Zenon DEF AllFit
      <4> QED
        BY <1>6, <4>2, <4>3
    <3> QED
      BY <3>1, <3>2 DEF ArrivesInv
  <2>2. i \in 1 .. n /\ \A j \in 1 .. i : j \in 1 .. n
    BY <1>6, <2>1
  <2>3. AllFit(sent, i) /\ sent'[i] = sent[i]
    BY <1>6, <2>2, Zenon DEF AllFit
  <2>4. handled[i].frame = sent[i].frame /\ handled[i].format = sent[i].format
    BY <2>1, <2>3, Zenon DEF ArrivesInv, MatchUpTo, h, n
  <2> QED
    BY <2>3, <2>4, Zenon
<1>11. broken' \in BOOLEAN /\ \E S : handled' \in Seq(S)
  BY <1>2, <1>4
<1> QED
  BY <1>7, <1>8, <1>9, <1>10, <1>11, Zenon DEF ArrivesInv

(* One round: what is read, whatever it is. *)
LEMMA ServeRead ==
    ASSUME Serve
    PROVE  \E e : /\ read_frame(toBroker).status = "frame"
                  /\ toBroker' = From(toBroker, read_frame(toBroker).used)
                  /\ handled' = Append(handled, e)
                  /\ e.frame = read_frame(toBroker).frame
                  /\ e.format = read_frame(toBroker).format
                  /\ broken' = broken /\ sent' = sent /\ script' = script
<1> DEFINE next == read_frame(toBroker)
<1>1. PICK out \in dispatch_message([session EXCEPT !.wire_format = next.format],
                                    next.frame.message) :
         /\ toBroker' = From(toBroker, next.used)
         /\ handled' = Append(handled, [frame |-> next.frame, format |-> next.format,
                                        ran |-> out.ran])
  BY Zenon DEF Serve
<1>2. next.status = "frame"
  BY Zenon DEF Serve
<1>3. broken' = broken /\ sent' = sent /\ script' = script
  BY DEF Serve
<1> DEFINE e == [frame |-> next.frame, format |-> next.format, ran |-> out.ran]
<1> HIDE DEF next
<1>4. e.frame = next.frame /\ e.format = next.format
  OBVIOUS
<1>5. handled' = Append(handled, e)
  BY <1>1
<1> HIDE DEF e
<1> QED
  BY <1>1, <1>2, <1>3, <1>4, <1>5, Zenon DEF next

(* The broker reads one. *)
LEMMA ArrivesServe ==
    ASSUME SentInv, ArrivesInv, Serve
    PROVE  ArrivesInv'
<1> DEFINE next == read_frame(toBroker)
           n == Len(sent)
           h == Len(handled)
<1>1. PICK e : /\ next.status = "frame"
               /\ toBroker' = From(toBroker, next.used)
               /\ handled' = Append(handled, e)
               /\ e.frame = next.frame
               /\ e.format = next.format
               /\ broken' = broken /\ sent' = sent /\ script' = script
  BY ServeRead, Zenon
<1>2. toBroker \in Bytes /\ broken \in BOOLEAN
  BY DEF ArrivesInv
<1>3. toBroker' \in Bytes
  <2>1. IsRead(next, toBroker)
    BY <1>1, <1>2, ReadFrame, Zenon
  <2>2. PICK id, m, format, used :
           next = ReadAs(id, m, format, used) /\ used \in Nat /\ used <= Len(toBroker)
    BY <2>1, Zenon DEF IsRead
  <2>3. next.used = used
    BY <2>2 DEF ReadAs
  <2> QED
    BY <1>1, <1>2, <2>2, <2>3, FromBytes, Zenon
<1> HIDE DEF next
<1>4. PICK D : handled \in Seq(D)
  BY DEF ArrivesInv
<1>5. PICK E : sent \in Seq(E)
  BY DEF SentInv
<1>6. /\ handled' \in Seq(D \cup {e}) /\ Len(handled') = h + 1
      /\ handled'[h + 1] = e /\ n \in Nat /\ h \in Nat
      /\ \A i \in 1 .. h : handled'[i] = handled[i]
  <2>1. handled \in Seq(D \cup {e}) /\ e \in D \cup {e}
    BY <1>4
  <2> QED
    BY <1>1, <1>5, <2>1, AppendProperties, LenProperties
<1>7. \A i \in 1 .. h + 1 : i \in 1 .. h \/ i = h + 1
  BY <1>6
<1> HIDE DEF n, h
(* The next request fits: it is read as it was sent. *)
<1>8. ASSUME InStep(sent, handled, toBroker, ~ broken), h < n, RequestFits(sent[h + 1])
      PROVE  /\ InStep(sent', handled', toBroker', ~ broken')
             /\ e.frame = sent[h + 1].frame /\ e.format = sent[h + 1].format
  <2> DEFINE B == RequestBytes(sent)
             r == sent[h + 1]
             b == write_frame(r.frame, r.format)
  <2>1. h + 1 \in 1 .. n /\ h + 1 <= n
    BY <1>6, <1>8
  <2>2. B[h + 1] = b
    BY <1>5, <2>1, BytesOf DEF n
  <2>3. IsRequest(r)
    BY <2>1 DEF SentInv, n
  <2>4. Aligned(toBroker, B, h, n, ~ broken)
    BY <1>8, Zenon DEF InStep, h, n
  <2>5. RequestFits(r)
    BY <1>8
  <2> HIDE DEF B, r
  <2>6. InFront(toBroker, b)
    BY <1>6, <1>8, <2>2, <2>4, AlignedFront
  <2> HIDE DEF b
  <2>7. /\ Len(b) <= Len(toBroker) /\ next.frame = r.frame /\ next.format = r.format
        /\ next.used = Len(b)
    <3>1. b = write_frame(r.frame, r.format)
      BY DEF b
    <3> QED
      BY <1>1, <1>2, <2>3, <2>5, <2>6, <3>1, RequestFound, Zenon DEF next
  <2>8. Aligned(From(toBroker, Len(b)), B, h + 1, n, ~ broken)
    BY <1>6, <1>8, <2>2, <2>4, <2>7, AlignedRead
  <2>9. InStep(sent', handled', toBroker', ~ broken')
    BY <1>1, <1>6, <2>1, <2>7, <2>8, Zenon DEF InStep, n, B
  <2> QED
    BY <1>1, <2>7, <2>9, Zenon DEF r
(* The next request does not fit: from now on anything may be read. *)
<1>9. ASSUME InStep(sent, handled, toBroker, ~ broken), h < n, ~ RequestFits(sent[h + 1])
      PROVE  Misread(sent', handled') /\ ~ AllFit(sent, h + 1)
  <2>1. h + 1 \in 1 .. n /\ h + 1 <= h + 1 /\ h + 1 \in 1 .. h + 1
    BY <1>6, <1>9
  <2> QED
    BY <1>1, <1>6, <1>9, <2>1, Zenon DEF Misread, AllFit, n
(* There is no next request: there is nothing to read. *)
<1>10. ASSUME InStep(sent, handled, toBroker, ~ broken), ~ (h < n)
       PROVE  FALSE
  <2>1. h <= n /\ Aligned(toBroker, RequestBytes(sent), h, n, ~ broken)
    BY <1>10, Zenon DEF InStep, h, n
  <2>2. h = n
    BY <1>6, <1>10, <2>1
  <2>3. toBroker = <<>>
    BY <1>6, <2>1, <2>2, AlignedDone, Zenon
  <2>4. next = Wait
    BY <2>3, Zenon DEF next, read_frame
  <2> QED
    BY <1>1, <2>4 DEF Wait
<1>11. ASSUME Misread(sent, handled)
       PROVE  Misread(sent', handled') /\ ~ AllFit(sent, h + 1)
  <2>1. PICK k \in 1 .. n : k <= h /\ ~ RequestFits(sent[k])
    BY <1>11, Zenon DEF Misread, h, n
  <2>2. k <= h + 1 /\ k \in 1 .. h + 1
    BY <1>6, <2>1
  <2> QED
    BY <1>1, <1>6, <2>1, <2>2, Zenon DEF Misread, AllFit, n
<1>12. \/ InStep(sent, handled, toBroker, ~ broken) /\ h < n /\ RequestFits(sent[h + 1])
       \/ InStep(sent, handled, toBroker, ~ broken) /\ h < n /\ ~ RequestFits(sent[h + 1])
       \/ Misread(sent, handled)
  BY <1>10, Zenon DEF ArrivesInv
<1>13. MatchUpTo(handled', sent', Len(handled'))
  <2>1. AllFit(sent, h + 1) => e.frame = sent[h + 1].frame /\ e.format = sent[h + 1].format
    BY <1>8, <1>9, <1>11, <1>12, Zenon
  <2>2. MatchUpTo(handled, sent, h)
    BY DEF ArrivesInv, h
  <2> QED
    BY <1>1, <1>6, <1>7, <2>1, <2>2, Zenon DEF MatchUpTo
<1>14. broken' \in BOOLEAN /\ \E S : handled' \in Seq(S)
  BY <1>1, <1>2, <1>6
<1>15. InStep(sent', handled', toBroker', ~ broken') \/ Misread(sent', handled')
  BY <1>8, <1>9, <1>11, <1>12, Zenon
<1> QED
  BY <1>3, <1>13, <1>14, <1>15, Zenon DEF ArrivesInv

(* A cut stream is a front of it. *)
LEMMA CutBytes ==
    ASSUME NEW s \in Bytes, NEW c \in Cuts(s)
    PROVE  \E k \in 0 .. Len(s) : c = SubSeq(s, 1, k) /\ c \in Bytes
<1>1. Len(s) \in Nat
  BY HoldsSelf
<1>2. PICK k \in {0, Len(s) \div 2, Len(s)} : c = SubSeq(s, 1, k)
  BY Zenon DEF Cuts
<1>3. k \in 0 .. Len(s)
  BY <1>1, <1>2
<1>4. Slice(s, 0, k) = SubSeq(s, 1, k)
  <2>1. 0 + 1 = 1 /\ 0 + k = k
    BY <1>3
  <2> QED
    BY <2>1, Zenon DEF Slice
<1>5. 0 \in Nat /\ k \in Nat /\ 0 + k <= Len(s)
  BY <1>1, <1>3
<1>6. c \in Bytes
  BY <1>2, <1>4, <1>5, SliceFacts, ZenonT(60)
<1> QED
  BY <1>2, <1>3, <1>6

(* The stream to the broker is cut. *)
LEMMA ArrivesBreak ==
    ASSUME SentInv, ArrivesInv, Break
    PROVE  ArrivesInv'
<1>1. /\ broken' = TRUE /\ toBroker' \in Cuts(toBroker) /\ handled' = handled /\ sent' = sent
  BY DEF Break
<1>2. toBroker \in Bytes
  BY DEF ArrivesInv
<1>3. PICK k \in 0 .. Len(toBroker) :
         toBroker' = SubSeq(toBroker, 1, k) /\ toBroker' \in Bytes
  BY <1>1, <1>2, CutBytes
<1>4. PICK D : handled \in Seq(D)
  BY DEF ArrivesInv
<1>5. PICK E : sent \in Seq(E)
  BY DEF SentInv
<1>6. Len(handled) \in Nat /\ Len(sent) \in Nat /\ (~ broken') = FALSE
  BY <1>1, <1>4, <1>5, LenProperties
<1>7. ASSUME InStep(sent, handled, toBroker, ~ broken)
      PROVE  InStep(sent', handled', toBroker', ~ broken')
  <2>1. /\ Len(handled) <= Len(sent)
        /\ Aligned(toBroker, RequestBytes(sent), Len(handled), Len(sent), ~ broken)
    BY <1>7, Zenon DEF InStep
  <2>2. Aligned(SubSeq(toBroker, 1, k), RequestBytes(sent), Len(handled), Len(sent), FALSE)
    BY <1>6, <2>1, AlignedCut, Zenon
  <2> QED
    BY <1>1, <1>3, <1>6, <2>1, <2>2, Zenon DEF InStep
<1>8. \/ InStep(sent', handled', toBroker', ~ broken')
      \/ Misread(sent', handled')
  BY <1>1, <1>7, Zenon DEF ArrivesInv
<1> QED
  BY <1>1, <1>3, <1>8, Zenon DEF ArrivesInv

-----------------------------------------------------------------------------
(* Lists, and the items in them (fetch_batch.rs, admin.rs,                  *)
(* cluster_state.rs).                                                       *)

(* Induction, on a set. *)
LEMMA NatSet ==
    ASSUME NEW n \in Nat, NEW S, 0 \in S, \A i \in 0 .. n : i \in S /\ i < n => i + 1 \in S
    PROVE  \A i \in 0 .. n : i \in S
<1> SUFFICES ASSUME NEW x \in 0 .. n, x \notin S PROVE FALSE
  OBVIOUS
<1> DEFINE T == {i \in 0 .. n : i \notin S}
<1>1. T \in SUBSET Nat /\ T # {}
  OBVIOUS
<1>2. PICK i \in T : \A j \in T : i <= j
  BY <1>1, NatMin
<1>3. i \in 0 .. n /\ i \notin S
  BY <1>2
<1>4. i # 0
  BY <1>3
<1>5. i - 1 \in 0 .. n /\ i - 1 < n /\ ~ (i <= i - 1) /\ i - 1 + 1 = i
  BY <1>3, <1>4
<1>6. i - 1 \in S
  BY <1>2, <1>5
<1> QED
  BY <1>3, <1>5, <1>6

(* A sequence of byte strings, one after the other. *)
LEMMA Flattened ==
    ASSUME NEW n \in Nat, NEW parts \in [1 .. n -> Bytes]
    PROVE  Aligned(FlattenSeq(parts), parts, 0, n, TRUE)
<1>1. parts \in Seq(Bytes) /\ Len(parts) = n
  BY Written
<1>2. CASE n = 0
  <2>1. parts = <<>>
    BY <1>1, <1>2, EmptySeq
  <2>2. FlattenSeq(parts) = <<>>
    BY <1>1, <1>2, <2>1 DEF FlattenSeq
  <2> QED
    BY <1>2, <2>2, AlignedEmpty, Zenon
<1>3. CASE n # 0
  <2> DEFINE Step(f, k) == [i \in 1 .. k |-> IF i = 1 THEN parts[i] ELSE f[i - 1] \o parts[i]]
             F == CHOOSE f : f = Step(f, n)
             S == {k \in 0 .. n : k # 0 => \E f : f = Step(f, k)}
  <2>1. FlattenSeq(parts) = F[n]
    BY <1>1, <1>3 DEF FlattenSeq
  <2>2. 0 \in S
    OBVIOUS
  <2>3. ASSUME NEW k \in 0 .. n, k \in S, k < n
        PROVE  k + 1 \in S
    <3>1. k + 1 \in 0 .. n
      BY <2>3
    <3>2. CASE k = 0
      <4> DEFINE g == [i \in 1 .. 1 |-> parts[1]]
      <4>1. g = Step(g, 1)
        OBVIOUS
      <4> HIDE DEF g, Step
      <4>2. \E f : f = Step(f, 1)
        BY <4>1
      <4> QED
        BY <3>1, <3>2, <4>2
    <3>3. CASE k # 0
      <4> HIDE DEF Step
      <4>1. PICK f : f = Step(f, k)
        BY <2>3, <3>3
      <4> USE DEF Step
      <4> DEFINE g == [i \in 1 .. k + 1 |->
                          IF i = k + 1 THEN f[k] \o parts[k + 1] ELSE f[i]]
      <4>2. ASSUME NEW i \in 1 .. k + 1
            PROVE  g[i] = IF i = 1 THEN parts[i] ELSE g[i - 1] \o parts[i]
        <5>1. CASE i = k + 1
          <6>0. i # 1 /\ i - 1 = k
            BY <3>3, <5>1
          <6>1. g[i] = f[k] \o parts[k + 1]
            BY <5>1
          <6>2. g[k] = f[k]
            BY <3>3
          <6> HIDE DEF g
          <6> QED
            BY <5>1, <6>0, <6>1, <6>2, Zenon
        <5>2. CASE i # k + 1
          <6>1. i \in 1 .. k /\ g[i] = f[i]
            BY <5>2
          <6>2. i # 1 => g[i - 1] = f[i - 1]
            BY <6>1
          <6>3. f[i] = IF i = 1 THEN parts[i] ELSE f[i - 1] \o parts[i]
            BY <4>1, <6>1
          <6> HIDE DEF g
          <6> QED
            BY <6>1, <6>2, <6>3, Zenon
        <5> QED
          BY <5>1, <5>2
      <4>3. g = Step(g, k + 1)
        BY <4>2
      <4> HIDE DEF g, Step
      <4>4. \E e : e = Step(e, k + 1)
        BY <4>3
      <4> QED
        BY <3>1, <4>4
    <3> QED
      BY <3>2, <3>3
  <2> HIDE DEF S, Step
  <2>4. \A i \in 0 .. n : i \in S
    BY <2>2, <2>3, NatSet
  <2>5. n \in S
    BY <2>4
  <2>6. \E f : f = Step(f, n)
    BY <1>3, <2>5 DEF S
  <2>7. F = Step(F, n)
    BY <2>6
  <2> HIDE DEF F
  <2>8. /\ \A i \in 1 .. n : F[i] = IF i = 1 THEN parts[i] ELSE F[i - 1] \o parts[i]
    BY <2>7 DEF Step
  <2>9. F[1] = parts[1] /\ \A i \in 1 .. n : i # 1 => F[i] = F[i - 1] \o parts[i]
    <3>1. 1 \in 1 .. n
      BY <1>3
    <3> QED
      BY <2>8, <3>1, Zenon
  <2> DEFINE G == {k \in 0 .. n : k # 0 => Aligned(F[k], parts, 0, k, TRUE)}
  <2>10. 0 \in G
    OBVIOUS
  <2>11. ASSUME NEW k \in 0 .. n, k \in G, k < n
         PROVE  k + 1 \in G
    <3>0. k + 1 \in 0 .. n /\ k + 1 \in 1 .. n /\ k \in Nat /\ 0 <= k
          /\ (k + 1) - 1 = k /\ 0 \in Nat
      BY <2>11
    <3>1. parts[k + 1] \in Bytes
      BY <3>0
    <3>2. ASSUME NEW s, Aligned(s, parts, 0, k, TRUE)
          PROVE  Aligned(s \o parts[k + 1], parts, 0, k + 1, TRUE)
      <4>1. /\ \A i \in 0 + 1 .. k : parts[i] = parts[i]
            /\ parts[k + 1] = parts[k + 1]
        OBVIOUS
      <4> QED
        BY <3>0, <3>1, <3>2, <4>1, AlignedWrite
    <3>3. CASE k = 0
      <4>1. Aligned(<<>> \o parts[k + 1], parts, 0, k + 1, TRUE)
        <5>1. Aligned(<<>>, parts, 0, k, TRUE)
          BY <3>3, AlignedEmpty, Zenon
        <5> QED
          BY <3>2, <5>1
      <4>2. <<>> \o parts[k + 1] = parts[k + 1] /\ parts[k + 1] = F[k + 1]
        BY <2>9, <3>1, <3>3, ConcatEmptySeq DEF Bytes
      <4>3. Aligned(F[k + 1], parts, 0, k + 1, TRUE)
        BY <4>1, <4>2, Zenon
      <4> QED
        BY <3>0, <4>3
    <3>4. CASE k # 0
      <4>1. Aligned(F[k], parts, 0, k, TRUE)
        BY <2>11, <3>4
      <4>2. F[k + 1] = F[k] \o parts[k + 1]
        <5>1. k + 1 # 1
          BY <3>0, <3>4
        <5> QED
          BY <2>9, <3>0, <5>1, Zenon
      <4>3. Aligned(F[k + 1], parts, 0, k + 1, TRUE)
        BY <3>2, <4>1, <4>2, Zenon
      <4> QED
        BY <3>0, <4>3
    <3> QED
      BY <3>3, <3>4
  <2> HIDE DEF G
  <2>12. \A i \in 0 .. n : i \in G
    BY <2>10, <2>11, NatSet
  <2>13. Aligned(F[n], parts, 0, n, TRUE)
    <3>1. n \in G
      BY <2>12
    <3> QED
      BY <1>3, <3>1 DEF G
  <2> QED
    BY <2>1, <2>13, Zenon
<1> QED
  BY <1>2, <1>3

(* Numbers up to n. *)
LEMMA Below ==
    ASSUME NEW n \in Nat, NEW k \in 1 .. n
    PROVE  k - 1 \in 0 .. n /\ k - 1 + 1 = k /\ k \in 0 .. n
OBVIOUS

(* As many items as are there are read. *)
ItemsAt(found, pos, items, n) ==
    \A i \in 1 .. n : found[pos[i]] = [at |-> pos[i + 1], item |-> items[i]]

ReadsItems(pos, n, found, items) ==
    ReadItems(pos[1], n, found) = [at |-> pos[n + 1], item |-> items]

(* All of them. *)
LEMMA Items ==
    ASSUME NEW n \in Nat, NEW found, NEW D, NEW items \in Seq(D), Len(items) = n,
           NEW pos \in [Nat -> Nat], ItemsAt(found, pos, items, n)
    PROVE  ReadsItems(pos, n, found, items)
<1> DEFINE Step(f) ==
              [k \in 0 .. n |->
                 IF k = 0 THEN [at |-> pos[1], item |-> <<>>]
                 ELSE IF f[k - 1] = Short \/ found[f[k - 1].at] = Short THEN Short
                 ELSE [at   |-> found[f[k - 1].at].at,
                       item |-> Append(f[k - 1].item, found[f[k - 1].at].item)]]
           F == CHOOSE f : f = Step(f)
           W(k) == [at |-> pos[k + 1], item |-> SubSeq(items, 1, k)]
           w == [k \in 0 .. n |-> W(k)]
<1>1. ReadItems(pos[1], n, found) = F[n]
  BY DEF ReadItems
<1>2. ASSUME NEW k \in 0 .. n
      PROVE  W(k) # Short /\ pos[k + 1] \in Nat
  <2>0. k + 1 \in Nat /\ -1 \notin Nat
    OBVIOUS
  <2>1. pos[k + 1] \in Nat
    BY <2>0
  <2>2. W(k).at = pos[k + 1] /\ Short.at = -1
    BY DEF Short
  <2> HIDE DEF W
  <2> QED
    BY <2>0, <2>1, <2>2, Zenon
<1>3. SubSeq(items, 1, 0) = <<>> /\ 0 + 1 = 1
  BY EmptySeq
<1>4. ASSUME NEW k \in 1 .. n
      PROVE  /\ k - 1 \in 0 .. n
             /\ found[W(k - 1).at] # Short
             /\ W(k) = [at   |-> found[W(k - 1).at].at,
                        item |-> Append(W(k - 1).item, found[W(k - 1).at].item)]
  <2>1. k - 1 \in 0 .. n /\ k - 1 + 1 = k /\ k \in 0 .. n
    BY Below, Zenon
  <2>2. W(k - 1).at = pos[k] /\ W(k - 1).item = SubSeq(items, 1, k - 1)
    BY <2>1
  <2>3. found[pos[k]] = [at |-> pos[k + 1], item |-> items[k]]
    BY Zenon DEF ItemsAt
  <2>4. Append(SubSeq(items, 1, k - 1), items[k]) = SubSeq(items, 1, k)
    OBVIOUS
  <2>5. found[pos[k]] # Short
    <3>0. k + 1 \in Nat /\ -1 \notin Nat
      OBVIOUS
    <3>1. found[pos[k]].at = pos[k + 1]
      BY <2>3
    <3>2. pos[k + 1] \in Nat /\ Short.at = -1
      BY <3>0 DEF Short
    <3> QED
      BY <3>0, <3>1, <3>2, Zenon
  <2>6. found[pos[k]].at = pos[k + 1] /\ found[pos[k]].item = items[k]
    BY <2>3
  <2>7. W(k) = [at |-> pos[k + 1], item |-> SubSeq(items, 1, k)]
    OBVIOUS
  <2> HIDE DEF W
  <2> QED
    BY <2>1, <2>2, <2>4, <2>5, <2>6, <2>7, Zenon
<1>5. W(0) = [at |-> pos[1], item |-> <<>>]
  BY <1>3
<1> HIDE DEF W
<1>6. w = Step(w)
  <2>1. ASSUME NEW k \in 0 .. n
        PROVE  w[k] = IF k = 0 THEN [at |-> pos[1], item |-> <<>>]
                      ELSE IF w[k - 1] = Short \/ found[w[k - 1].at] = Short THEN Short
                      ELSE [at   |-> found[w[k - 1].at].at,
                            item |-> Append(w[k - 1].item, found[w[k - 1].at].item)]
    <3>1. CASE k = 0
      BY <1>5, <3>1
    <3>2. CASE k # 0
      <4>1. k \in 1 .. n /\ k - 1 \in 0 .. n
        BY <3>2
      <4>2. w[k] = W(k) /\ w[k - 1] = W(k - 1)
        BY <4>1
      <4> HIDE DEF w
      <4> QED
        BY <1>2, <1>4, <3>2, <4>1, <4>2, Zenon
    <3> QED
      BY <3>1, <3>2
  <2> QED
    BY <2>1
<1>7. F = Step(F)
  <2> HIDE DEF Step, w
  <2> QED
    BY <1>6
<1> HIDE DEF F
<1>8. \A k \in 0 .. n :
         F[k] = IF k = 0 THEN [at |-> pos[1], item |-> <<>>]
                ELSE IF F[k - 1] = Short \/ found[F[k - 1].at] = Short THEN Short
                ELSE [at   |-> found[F[k - 1].at].at,
                      item |-> Append(F[k - 1].item, found[F[k - 1].at].item)]
  BY <1>7
<1> DEFINE S == {k \in 0 .. n : F[k] = W(k)}
<1>9. 0 \in S
  <2>1. 0 \in 0 .. n
    OBVIOUS
  <2> QED
    BY <1>5, <1>8, <2>1, Zenon
<1>10. ASSUME NEW k \in 0 .. n, k \in S, k < n
       PROVE  k + 1 \in S
  <2>2. F[k] = W(k)
    BY <1>10
  <2> HIDE DEF S
  <2>1. k + 1 \in 0 .. n /\ k + 1 # 0 /\ k + 1 \in 1 .. n /\ (k + 1) - 1 = k
    BY <1>10
  <2>3. W(k) # Short
    BY <1>2
  <2>4. /\ found[W(k).at] # Short
        /\ W(k + 1) = [at   |-> found[W(k).at].at,
                       item |-> Append(W(k).item, found[W(k).at].item)]
    BY <1>4, <2>1, Zenon
  <2>5. F[k + 1] = IF F[k] = Short \/ found[F[k].at] = Short THEN Short
                   ELSE [at   |-> found[F[k].at].at,
                         item |-> Append(F[k].item, found[F[k].at].item)]
    BY <1>8, <2>1, Zenon
  <2>6. F[k + 1] = W(k + 1)
    BY <2>2, <2>3, <2>4, <2>5, Zenon
  <2> QED
    BY <2>1, <2>6 DEF S
<1> HIDE DEF S
<1>11. \A k \in 0 .. n : k \in S
  BY <1>9, <1>10, NatSet
<1>12. n \in 0 .. n
  OBVIOUS
<1>13. F[n] = W(n)
  BY <1>11, <1>12 DEF S
<1>14. SubSeq(items, 1, n) = items
  OBVIOUS
<1> QED
  BY <1>1, <1>13, <1>14 DEF W, ReadsItems

(* What part of the bytes holds, they hold further on. *)
LEMMA HoldsIn ==
    ASSUME NEW p \in Bytes, NEW a \in Nat, NEW s \in Bytes, Holds(p, a, s),
           NEW b \in Nat, NEW t \in Bytes, Holds(s, b, t)
    PROVE  Holds(p, a + b, t)
<1>1. Len(p) \in Nat /\ Len(s) \in Nat /\ Len(t) \in Nat
  BY HoldsSelf
<1>2. /\ a + Len(s) <= Len(p) /\ \A i \in 1 .. Len(s) : p[a + i] = s[i]
      /\ b + Len(t) <= Len(s) /\ \A i \in 1 .. Len(t) : s[b + i] = t[i]
  BY DEF Holds
<1>3. ASSUME NEW i \in 1 .. Len(t) PROVE p[(a + b) + i] = t[i]
  <2>1. b + i \in 1 .. Len(s) /\ (a + b) + i = a + (b + i)
    <3>1. \A x, y \in Nat : \A k \in 1 .. x :
             b + x <= y => b + k \in 1 .. y /\ (a + b) + k = a + (b + k)
      OBVIOUS
    <3> QED
      BY <1>1, <1>2, <3>1, Zenon
  <2>2. p[a + (b + i)] = s[b + i] /\ s[b + i] = t[i]
    BY <1>2, <2>1, Zenon
  <2> QED
    BY <2>1, <2>2, Zenon
<1>4. (a + b) + Len(t) <= Len(p)
  <2>1. \A x, y, z \in Nat : b + x <= y /\ a + y <= z => (a + b) + x <= z
    OBVIOUS
  <2> QED
    BY <1>1, <1>2, <2>1, Zenon
<1> QED
  BY <1>3, <1>4, Zenon DEF Holds

(* Where the parts are. *)
LEMMA FlatParts ==
    ASSUME NEW n \in Nat, NEW parts \in [1 .. n -> Bytes], NEW flat, flat = FlattenSeq(parts)
    PROVE  /\ flat \in Bytes
           /\ \E al \in [Nat -> Nat] :
                 /\ al[1] = 0 /\ al[n + 1] = Len(flat)
                 /\ \A i \in 1 .. n : /\ al[i + 1] = al[i] + Len(parts[i])
                                      /\ Holds(flat, al[i], parts[i])
<1>1. Aligned(flat, parts, 0, n, TRUE)
  BY Flattened, Zenon
<1>2. PICK al : Placed(al, flat, parts, 0, n, TRUE)
  BY <1>1, Zenon DEF Aligned
<1>3. 0 + 1 = 1
  OBVIOUS
<1>4. /\ flat \in Bytes /\ al \in [Nat -> Nat] /\ al[1] = 0 /\ Len(flat) = al[n + 1]
      /\ \A i \in 1 .. n : parts[i] \in Bytes /\ al[i + 1] = al[i] + Len(parts[i])
      /\ \A i \in 1 .. n + 1 : \A j \in i .. n + 1 : al[i] <= al[j]
      /\ \A i \in 1 .. n : \A j \in 1 .. Len(parts[i]) :
            al[i] + j <= Len(flat) => flat[al[i] + j] = parts[i][j]
  BY <1>2, <1>3, Zenon DEF Placed
<1>5. ASSUME NEW i \in 1 .. n PROVE Holds(flat, al[i], parts[i])
  <2>1. i + 1 \in 1 .. n + 1 /\ n + 1 \in i + 1 .. n + 1 /\ i \in Nat
    OBVIOUS
  <2>2. al[i + 1] <= al[n + 1] /\ al[i + 1] = al[i] + Len(parts[i])
    BY <1>4, <2>1, Zenon
  <2>3. al[i] + Len(parts[i]) <= Len(flat)
    BY <1>4, <2>2, Zenon
  <2>4. al[i] \in Nat /\ Len(parts[i]) \in Nat /\ Len(flat) \in Nat
    BY <1>4, <2>1, HoldsSelf, Zenon
  <2>5. \A x, y, z \in Nat : x + y <= z => \A j \in 1 .. y : x + j <= z
    OBVIOUS
  <2>6. \A j \in 1 .. Len(parts[i]) : al[i] + j <= Len(flat)
    BY <2>3, <2>4, <2>5, Zenon
  <2> QED
    BY <1>4, <2>3, <2>6, Zenon DEF Holds
<1> QED
  BY <1>4, <1>5, Zenon

(* A part is no longer than all of them together, and nor is their number. *)
LEMMA FlatLength ==
    ASSUME NEW n \in Nat, NEW parts \in [1 .. n -> Bytes], NEW flat, flat = FlattenSeq(parts)
    PROVE  /\ \A i \in 1 .. n : Len(parts[i]) <= Len(flat)
           /\ (\A i \in 1 .. n : 1 <= Len(parts[i])) => n <= Len(flat)
<1>1. PICK al \in [Nat -> Nat] :
         /\ al[1] = 0 /\ al[n + 1] = Len(flat)
         /\ \A i \in 1 .. n : /\ al[i + 1] = al[i] + Len(parts[i])
                              /\ Holds(flat, al[i], parts[i])
  BY FlatParts, ZenonT(60)
<1>2. ASSUME NEW i \in 1 .. n PROVE Len(parts[i]) <= Len(flat)
  <2>1. i \in Nat
    OBVIOUS
  <2>2. al[i] + Len(parts[i]) <= Len(flat)
    BY <1>1, Zenon DEF Holds
  <2>3. al[i] \in Nat /\ Len(parts[i]) \in Nat /\ flat \in Bytes
    BY <2>1, HoldsSelf, FlatParts, Zenon
  <2>4. Len(flat) \in Nat
    BY <2>3, HoldsSelf, Zenon
  <2>5. \A x, y, z \in Nat : x + y <= z => y <= z
    OBVIOUS
  <2> QED
    BY <2>2, <2>3, <2>4, <2>5, Zenon
<1>3. ASSUME \A i \in 1 .. n : 1 <= Len(parts[i])
      PROVE  n <= Len(flat)
  <2> DEFINE S == {k \in 0 .. n : k <= al[k + 1]}
  <2>1. 0 \in S
    <3>1. 0 <= al[1] /\ 0 + 1 = 1 /\ 0 \in 0 .. n
      BY <1>1
    <3> QED
      BY <3>1, Zenon
  <2>2. ASSUME NEW k \in 0 .. n, k \in S, k < n
        PROVE  k + 1 \in S
    <3>1. k <= al[k + 1]
      BY <2>2
    <3> HIDE DEF S
    <3>2. k + 1 \in 1 .. n /\ k + 1 \in 0 .. n /\ k \in Nat /\ k + 1 \in Nat
      BY <2>2
    <3>3. al[(k + 1) + 1] = al[k + 1] + Len(parts[k + 1]) /\ 1 <= Len(parts[k + 1])
      BY <1>1, <1>3, <3>2, Zenon
    <3>4. al[k + 1] \in Nat /\ Len(parts[k + 1]) \in Nat
      BY <3>2, HoldsSelf, Zenon
    <3>5. \A x, y, z \in Nat : x <= y /\ 1 <= z => x + 1 <= y + z
      OBVIOUS
    <3>6. k + 1 <= al[k + 1] + Len(parts[k + 1])
      BY <3>1, <3>2, <3>3, <3>4, <3>5, Zenon
    <3> QED
      BY <3>2, <3>3, <3>6, Zenon DEF S
  <2> HIDE DEF S
  <2>3. \A k \in 0 .. n : k \in S
    BY <2>1, <2>2, NatSet
  <2>4. n \in 0 .. n
    OBVIOUS
  <2>5. n \in S
    BY <2>3, <2>4, Zenon
  <2> QED
    BY <1>1, <2>5, Zenon DEF S
<1> QED
  BY <1>2, <1>3, Zenon

(* A list in bytes. *)
LEMMA ListBytes ==
    ASSUME NEW n \in Nat, NEW parts \in [1 .. n -> Bytes],
           NEW b, b = Put(n, 2) \o FlattenSeq(parts)
    PROVE  /\ b \in Bytes /\ Len(b) \in Nat /\ 2 <= Len(b)
           /\ \A i \in 1 .. n : Len(parts[i]) <= Len(b)
           /\ (\A i \in 1 .. n : 1 <= Len(parts[i])) => n <= Len(b)
<1> DEFINE a == Put(n, 2)
           f == FlattenSeq(parts)
<1>1. a \in Bytes /\ Len(a) = 2
  BY Put2
<1>2. f \in Bytes
  BY FlatParts, Zenon
<1>3. /\ \A i \in 1 .. n : Len(parts[i]) <= Len(f)
      /\ (\A i \in 1 .. n : 1 <= Len(parts[i])) => n <= Len(f)
  BY FlatLength, Zenon
<1>4. b = a \o f
  OBVIOUS
<1> HIDE DEF a, f
<1>5. b \in Bytes /\ Len(b) = 2 + Len(f) /\ Len(f) \in Nat
  <2>1. a \o f \in Bytes /\ Len(a \o f) = Len(a) + Len(f) /\ Len(f) \in Nat
    BY <1>1, <1>2, Cat2, Zenon
  <2> QED
    BY <1>1, <1>4, <2>1, Zenon
<1>6. \A x \in Nat : 2 + x \in Nat /\ 2 <= 2 + x /\ \A y \in Nat : y <= x => y <= 2 + x
  OBVIOUS
<1>7. \A i \in 1 .. n : Len(parts[i]) \in Nat
  BY HoldsSelf
<1> QED
  BY <1>3, <1>5, <1>6, <1>7, Zenon

(* found gives the item that these bytes are, wherever they are in p. *)
Finds(p, found, part, item) ==
    \A a \in 0 .. Len(p) :
        Holds(p, a, part) => found[a] = [at |-> a + Len(part), item |-> item]

ReadsList(p, at, b, found, items) ==
    /\ ~ (at + 2 > Len(p))
    /\ ReadItems(at + 2, Get(p, at, 2), found) = [at |-> at + Len(b), item |-> items]

(* A list is read as it was written, when each of its items is. *)
LEMMA ListRead ==
    ASSUME NEW n \in Nat, n \in U16, NEW parts \in [1 .. n -> Bytes], NEW D,
           NEW items \in Seq(D), Len(items) = n, NEW p \in Bytes, NEW at \in Nat,
           NEW b, b = Put(n, 2) \o FlattenSeq(parts), Holds(p, at, b), NEW found,
           \A i \in 1 .. n : Finds(p, found, parts[i], items[i])
    PROVE  ReadsList(p, at, b, found, items)
<1> DEFINE c == Put(n, 2)
           f == FlattenSeq(parts)
<1>1. c \in Bytes /\ Len(c) = 2
  BY Put2
<1>2. f \in Bytes
  BY FlatParts, Zenon
<1>3. PICK al \in [Nat -> Nat] :
         /\ al[1] = 0 /\ al[n + 1] = Len(f)
         /\ \A i \in 1 .. n : al[i + 1] = al[i] + Len(parts[i]) /\ Holds(f, al[i], parts[i])
  BY FlatParts, Zenon
<1>4. b = c \o f
  OBVIOUS
<1>5. c = Put(n, 2)
  OBVIOUS
<1> HIDE DEF c, f
<1>6. Holds(p, at, c) /\ Holds(p, at + 2, f)
  <2>1. Holds(p, at, c \o f)
    BY <1>4, Zenon
  <2>2. Holds(p, at, c) /\ Holds(p, at + Len(c), f)
    BY <1>1, <1>2, <2>1, Holds2, Zenon
  <2> QED
    BY <1>1, <2>2, Zenon
<1>7. Len(b) = 2 + Len(f) /\ Len(f) \in Nat /\ Len(p) \in Nat
  <2>1. Len(c \o f) = Len(c) + Len(f) /\ Len(f) \in Nat
    BY <1>1, <1>2, Cat2, Zenon
  <2>2. Len(p) \in Nat
    BY HoldsSelf, Zenon
  <2> QED
    BY <1>1, <1>4, <2>1, <2>2, Zenon
<1>8. Get(p, at, 2) = n
  BY <1>5, <1>6, Get2, Zenon
<1>9. ~ (at + 2 > Len(p))
  <2>1. at + 2 <= Len(p)
    BY <1>1, <1>6, Zenon DEF Holds
  <2> QED
    BY <1>7, <2>1
<1> DEFINE pos == [i \in Nat |-> (at + 2) + al[i]]
<1>10. pos \in [Nat -> Nat] /\ \A i \in Nat : pos[i] = (at + 2) + al[i]
  <2>1. \A i \in Nat : (at + 2) + al[i] \in Nat
    <3>1. \A x \in Nat : (at + 2) + x \in Nat
      OBVIOUS
    <3> QED
      BY <3>1, Zenon
  <2> QED
    BY <2>1
<1> HIDE DEF pos
<1>11. ASSUME NEW i \in 1 .. n
       PROVE  found[pos[i]] = [at |-> pos[i + 1], item |-> items[i]]
  <2>1. i \in Nat /\ i + 1 \in Nat /\ at + 2 \in Nat
    OBVIOUS
  <2>2. al[i] \in Nat /\ Len(parts[i]) \in Nat /\ parts[i] \in Bytes
    BY <2>1, HoldsSelf, Zenon
  <2>3. al[i + 1] = al[i] + Len(parts[i]) /\ Holds(f, al[i], parts[i])
    BY <1>3, Zenon
  <2>4. Holds(p, (at + 2) + al[i], parts[i])
    BY <1>2, <1>6, <2>1, <2>2, <2>3, HoldsIn, Zenon
  <2>5. pos[i] = (at + 2) + al[i] /\ pos[i + 1] = (at + 2) + al[i + 1] /\ pos[i] \in Nat
    BY <1>10, <2>1, Zenon
  <2>6. pos[i + 1] = pos[i] + Len(parts[i])
    <3>1. \A x, y \in Nat : (at + 2) + (x + y) = ((at + 2) + x) + y
      OBVIOUS
    <3> QED
      <4>1. pos[i + 1] = (at + 2) + (al[i] + Len(parts[i]))
        BY <2>3, <2>5, Zenon
      <4>2. pos[i] + Len(parts[i]) = ((at + 2) + al[i]) + Len(parts[i])
        BY <2>5, Zenon
      <4> QED
        BY <2>2, <3>1, <4>1, <4>2, Zenon
  <2>7. Holds(p, pos[i], parts[i])
    BY <2>4, <2>5, Zenon
  <2>8. pos[i] \in 0 .. Len(p)
    <3>1. pos[i] + Len(parts[i]) <= Len(p)
      BY <2>7, Zenon DEF Holds
    <3>2. \A x, y, z \in Nat : x + y <= z => x \in 0 .. z
      OBVIOUS
    <3> QED
      BY <1>7, <2>2, <2>5, <3>1, <3>2, Zenon
  <2> QED
    BY <2>6, <2>7, <2>8, Zenon DEF Finds
<1>12. ReadItems(pos[1], n, found) = [at |-> pos[n + 1], item |-> items]
  <2>1. ItemsAt(found, pos, items, n)
    BY <1>11, Zenon DEF ItemsAt
  <2> QED
    <3>1. ReadsItems(pos, n, found, items)
      BY <1>10, <2>1, Items, Zenon
    <3> QED
      BY <3>1, Zenon DEF ReadsItems
<1>13. pos[1] = at + 2 /\ pos[n + 1] = at + Len(b)
  <2>1. 1 \in Nat /\ n + 1 \in Nat /\ (at + 2) + 0 = at + 2
    OBVIOUS
  <2>2. \A x \in Nat : (at + 2) + x = at + (2 + x)
    OBVIOUS
  <2> QED
    BY <1>3, <1>7, <1>10, <2>1, <2>2, ZenonT(60)
<1> QED
  BY <1>8, <1>9, <1>12, <1>13, Zenon DEF ReadsList

(* What a reader makes of the bytes b at position a. *)
ReadsAs(result, a, b, item) == result = [at |-> a + Len(b), item |-> item]

(* ... and of six. *)
LEMMA Cat6 ==
    ASSUME NEW s \in Bytes, NEW t \in Bytes, NEW u \in Bytes, NEW v \in Bytes,
           NEW w \in Bytes, NEW x \in Bytes
    PROVE  /\ s \o t \o u \o v \o w \o x \in Bytes
           /\ Len(s \o t \o u \o v \o w \o x) =
                 Len(s) + Len(t) + Len(u) + Len(v) + Len(w) + Len(x)
<1> DEFINE c == s \o t \o u \o v \o w
<1>1. c \in Bytes /\ Len(c) = Len(s) + Len(t) + Len(u) + Len(v) + Len(w)
  BY Cat5
<1> HIDE DEF c
<1>2. c \o x \in Bytes /\ Len(c \o x) = Len(c) + Len(x)
  BY <1>1, Cat2, Zenon
<1> QED
  BY <1>1, <1>2, Zenon DEF c

(* The items of lists: topic ids, ... *)
LEMMA U16Read ==
    ASSUME NEW r \in U16
    PROVE  /\ PutU16(r) \in Bytes /\ 1 <= Len(PutU16(r))
           /\ \A p \in Bytes, a \in Nat :
                 Holds(p, a, PutU16(r)) /\ Len(PutU16(r)) <= MaxU16 =>
                     ReadsAs(ReadU16(p, a), a, PutU16(r), r)
<1> DEFINE c1 == Put(r, 2)
           b == c1
<1>1. /\ r \in Nat /\ r \in U16
  BY Types, HoldsSelf
<1>2. /\ c1 \in Bytes /\ Len(c1) = 2
  BY <1>1, Put2
<1> HIDE DEF c1
<1>3. b \in Bytes /\ Len(b) = 2
  BY <1>2
<1>4. b = PutU16(r)
  BY Zenon DEF PutU16, c1
<1>5. ASSUME NEW p \in Bytes, NEW a \in Nat, Holds(p, a, b), Len(b) <= MaxU16
      PROVE  ReadsAs(ReadU16(p, a), a, b, r)
  <2>1. Holds(p, a, c1)
    BY <1>5
  <2> HIDE DEF b
  <2>2. /\ Len(p) \in Nat /\ MaxU16 \in Nat /\ a + Len(b) <= Len(p)
    BY <1>5, HoldsSelf, Types, Zenon DEF Holds
  <2>3. Get(p, a, 2) = r
    BY <1>1, <2>1, Get2 DEF c1
  <2>4. ~ (a + 2 > Len(p))
    BY <1>3, <2>2
  <2>5. ReadU16(p, a) = [at |-> a + 2, item |-> r]
    BY <2>3, <2>4, Zenon DEF ReadU16
  <2> QED
    BY <1>3, <2>5, Zenon DEF ReadsAs
<1>6. 1 <= Len(b)
  BY <1>2, <1>3
<1> HIDE DEF b
<1> QED
  BY <1>3, <1>4, <1>5, <1>6, Zenon

(* Lists of them. *)
LEMMA U16ListWritten ==
    ASSUME NEW list \in Seq(U16), NEW b, b = PutU16s(list)
    PROVE  /\ b \in Bytes /\ Len(b) \in Nat /\ 2 <= Len(b)
           /\ Len(list) \in Nat /\ Len(list) <= Len(b)
           /\ \A i \in 1 .. Len(list) : Len(PutU16(list[i])) <= Len(b)
<1> DEFINE n     == Len(list)
           parts == [i \in 1 .. n |-> PutU16(list[i])]
<1>1. n \in Nat /\ DOMAIN list = 1 .. n /\ \A i \in 1 .. n : list[i] \in U16
  BY LenProperties, ElementOfSeq
<1>2. \A i \in 1 .. n : PutU16(list[i]) \in Bytes /\ 1 <= Len(PutU16(list[i]))
  BY <1>1, U16Read, Zenon
<1>3. parts \in [1 .. n -> Bytes] /\ \A i \in 1 .. n : parts[i] = PutU16(list[i])
  BY <1>2
<1>4. b = Put(n, 2) \o FlattenSeq(parts)
  BY <1>1, Zenon DEF PutU16s, PutList
<1> HIDE DEF parts, n
<1>5. \A i \in 1 .. n : 1 <= Len(parts[i])
  BY <1>2, <1>3, Zenon
<1>6. /\ b \in Bytes /\ Len(b) \in Nat /\ 2 <= Len(b)
      /\ \A i \in 1 .. n : Len(parts[i]) <= Len(b)
      /\ n <= Len(b)
  BY <1>1, <1>3, <1>4, <1>5, ListBytes, Zenon
<1> QED
  BY <1>1, <1>3, <1>6, Zenon DEF n

(* Reading the list gives it back. *)
LEMMA U16ListRead ==
    ASSUME NEW list \in Seq(U16), Len(list) \in U16,
           \A i \in 1 .. Len(list) : Len(PutU16(list[i])) <= MaxU16,
           NEW b, b = PutU16s(list),
           NEW p \in Bytes, NEW at \in Nat, Holds(p, at, b)
    PROVE  ReadsAs(ReadU16s(p, at), at, b, list)
<1> DEFINE n     == Len(list)
           parts == [i \in 1 .. n |-> PutU16(list[i])]
           found == [a \in 0 .. Len(p) |-> ReadU16(p, a)]
<1>1. n \in Nat /\ DOMAIN list = 1 .. n /\ \A i \in 1 .. n : list[i] \in U16
  BY LenProperties, ElementOfSeq
<1>2. \A i \in 1 .. n : PutU16(list[i]) \in Bytes
  BY <1>1, U16Read, Zenon
<1>3. parts \in [1 .. n -> Bytes] /\ \A i \in 1 .. n : parts[i] = PutU16(list[i])
  BY <1>2
<1>4. b = Put(n, 2) \o FlattenSeq(parts)
  BY <1>1, Zenon DEF PutU16s, PutList
<1>5. ReadU16s(p, at) =
         IF at + 2 > Len(p) THEN Short ELSE ReadItems(at + 2, Get(p, at, 2), found)
  BY Zenon DEF ReadU16s, ReadList
<1>6. \A a \in 0 .. Len(p) : found[a] = ReadU16(p, a) /\ a \in Nat
  OBVIOUS
<1> HIDE DEF parts, found
<1>7. ASSUME NEW i \in 1 .. n PROVE Finds(p, found, parts[i], list[i])
  <2> SUFFICES ASSUME NEW a \in 0 .. Len(p), Holds(p, a, parts[i])
               PROVE  found[a] = [at |-> a + Len(parts[i]), item |-> list[i]]
    BY Zenon DEF Finds
  <2>1. list[i] \in U16 /\ Len(PutU16(list[i])) <= MaxU16
    BY <1>1, Zenon
  <2>2. Holds(p, a, PutU16(list[i])) /\ a \in Nat
    BY <1>3, <1>6, Zenon
  <2>3. ReadsAs(ReadU16(p, a), a, PutU16(list[i]), list[i])
    BY <2>1, <2>2, U16Read, Zenon
  <2> QED
    BY <1>3, <1>6, <2>3, Zenon DEF ReadsAs
<1> HIDE DEF n
<1>8. Len(list) = n /\ n \in U16
  BY DEF n
<1>9. ReadsList(p, at, b, found, list)
  BY <1>1, <1>3, <1>4, <1>7, <1>8, ListRead, Zenon
<1> QED
  BY <1>5, <1>9, Zenon DEF ReadsList, ReadsAs

(* ... the lag of a partition, ... *)
LEMMA LagRead ==
    ASSUME NEW r \in [partition : U16, committed : Number, end : Number, lag : Number]
    PROVE  /\ encode_lag(r) \in Bytes /\ 1 <= Len(encode_lag(r))
           /\ \A p \in Bytes, a \in Nat :
                 Holds(p, a, encode_lag(r)) /\ Len(encode_lag(r)) <= MaxU16 =>
                     ReadsAs(read_lag(p, a), a, encode_lag(r), r)
<1> DEFINE c1 == Put(r.partition, 2)
           c2 == Put(r.committed, 8)
           c3 == Put(r.end, 8)
           c4 == Put(r.lag, 8)
           b == c1 \o c2 \o c3 \o c4
<1>1. /\ r.partition \in Nat /\ r.partition \in U16
      /\ Word(r.committed)
      /\ Word(r.end)
      /\ Word(r.lag)
  BY Types, HoldsSelf
<1>2. /\ c1 \in Bytes /\ Len(c1) = 2
      /\ c2 \in Bytes /\ Len(c2) = 8
      /\ c3 \in Bytes /\ Len(c3) = 8
      /\ c4 \in Bytes /\ Len(c4) = 8
  BY <1>1, Put2, Put8
<1> HIDE DEF c1, c2, c3, c4
<1>3. b \in Bytes /\ Len(b) = 26
  <2>1. b \in Bytes /\ Len(b) = Len(c1) + Len(c2) + Len(c3) + Len(c4)
    <3>1. c1 \in Bytes /\ c2 \in Bytes /\ c3 \in Bytes /\ c4 \in Bytes
      BY <1>2, Zenon
    <3> QED
      BY <3>1, Cat4
  <2> QED
    BY <1>2, <2>1
<1>4. b = encode_lag(r)
  BY Zenon DEF encode_lag, c1, c2, c3, c4
<1>5. ASSUME NEW p \in Bytes, NEW a \in Nat, Holds(p, a, b), Len(b) <= MaxU16
      PROVE  ReadsAs(read_lag(p, a), a, b, r)
  <2>1. /\ Holds(p, a, c1)
        /\ Holds(p, a + 2, c2)
        /\ Holds(p, a + 10, c3)
        /\ Holds(p, a + 18, c4)
    <3>0. Holds(p, a, c1 \o c2 \o c3 \o c4)
      BY <1>5, Zenon
    <3> HIDE DEF b
    <3>1. /\ Holds(p, a, c1)
          /\ Holds(p, a + Len(c1), c2)
          /\ Holds(p, a + Len(c1) + Len(c2), c3)
          /\ Holds(p, a + Len(c1) + Len(c2) + Len(c3), c4)
      <4>1. c1 \in Bytes /\ c2 \in Bytes /\ c3 \in Bytes /\ c4 \in Bytes
        BY <1>2, Zenon
      <4> QED
        BY <3>0, <4>1, Holds4, Zenon
    <3>2. /\ a + Len(c1) = a + 2
          /\ a + Len(c1) + Len(c2) = a + 10
          /\ a + Len(c1) + Len(c2) + Len(c3) = a + 18
      BY <1>2
    <3> QED
      BY <3>1, <3>2, Zenon
  <2> HIDE DEF b
  <2>2. /\ Len(p) \in Nat /\ MaxU16 \in Nat /\ a + Len(b) <= Len(p)
    BY <1>5, HoldsSelf, Types, Zenon DEF Holds
  <2>9. a + 2 \in Nat /\ a + 10 \in Nat /\ a + 18 \in Nat
    OBVIOUS
  <2>3. Get(p, a, 2) = r.partition
    BY <1>1, <2>1, <2>9, Get2 DEF c1
  <2>4. Get(p, a + 2, 8) = r.committed
    BY <1>1, <2>1, <2>9, Get8 DEF c2
  <2>5. Get(p, a + 10, 8) = r.end
    BY <1>1, <2>1, <2>9, Get8 DEF c3
  <2>6. Get(p, a + 18, 8) = r.lag
    BY <1>1, <2>1, <2>9, Get8 DEF c4
  <2>7. ~ (a + 26 > Len(p))
    BY <1>3, <2>2
  <2>8. read_lag(p, a) = [at |-> a + 26, item |-> r]
    <3>1. r = [partition |-> r.partition, committed |-> r.committed, end |-> r.end,
               lag |-> r.lag]
      OBVIOUS
    <3> QED
      BY <2>3, <2>4, <2>5, <2>6, <2>7, <3>1, Zenon DEF read_lag
  <2> QED
    BY <1>3, <2>8, Zenon DEF ReadsAs
<1>6. 1 <= Len(b)
  BY <1>2, <1>3
<1> HIDE DEF b
<1> QED
  BY <1>3, <1>4, <1>5, <1>6, Zenon

(* Lists of them. *)
LEMMA LagListWritten ==
    ASSUME NEW list \in Seq([partition : U16, committed : Number, end : Number, lag : Number]),
           NEW b, b = encode_lags(list)
    PROVE  /\ b \in Bytes /\ Len(b) \in Nat /\ 2 <= Len(b)
           /\ Len(list) \in Nat /\ Len(list) <= Len(b)
           /\ \A i \in 1 .. Len(list) : Len(encode_lag(list[i])) <= Len(b)
<1> DEFINE n     == Len(list)
           parts == [i \in 1 .. n |-> encode_lag(list[i])]
<1>1. n \in Nat /\ DOMAIN list = 1 .. n
      /\ \A i \in 1 .. n :
              list[i] \in [partition : U16, committed : Number, end : Number, lag : Number]
  BY LenProperties, ElementOfSeq
<1>2. \A i \in 1 .. n : encode_lag(list[i]) \in Bytes /\ 1 <= Len(encode_lag(list[i]))
  BY <1>1, LagRead, Zenon
<1>3. parts \in [1 .. n -> Bytes] /\ \A i \in 1 .. n : parts[i] = encode_lag(list[i])
  BY <1>2
<1>4. b = Put(n, 2) \o FlattenSeq(parts)
  BY <1>1, Zenon DEF encode_lags, PutList
<1> HIDE DEF parts, n
<1>5. \A i \in 1 .. n : 1 <= Len(parts[i])
  BY <1>2, <1>3, Zenon
<1>6. /\ b \in Bytes /\ Len(b) \in Nat /\ 2 <= Len(b)
      /\ \A i \in 1 .. n : Len(parts[i]) <= Len(b)
      /\ n <= Len(b)
  BY <1>1, <1>3, <1>4, <1>5, ListBytes, Zenon
<1> QED
  BY <1>1, <1>3, <1>6, Zenon DEF n

(* Reading the list gives it back. *)
LEMMA LagListRead ==
    ASSUME NEW list \in Seq([partition : U16, committed : Number, end : Number, lag : Number]),
           Len(list) \in U16,
           \A i \in 1 .. Len(list) : Len(encode_lag(list[i])) <= MaxU16,
           NEW b, b = encode_lags(list),
           NEW p \in Bytes, Holds(p, 0, b)
    PROVE  ReadsAs(decode_lags(p), 0, b, list)
<1> DEFINE n     == Len(list)
           parts == [i \in 1 .. n |-> encode_lag(list[i])]
           found == [a \in 0 .. Len(p) |-> read_lag(p, a)]
<1>1. n \in Nat /\ DOMAIN list = 1 .. n
      /\ \A i \in 1 .. n :
              list[i] \in [partition : U16, committed : Number, end : Number, lag : Number]
  BY LenProperties, ElementOfSeq
<1>2. \A i \in 1 .. n : encode_lag(list[i]) \in Bytes
  BY <1>1, LagRead, Zenon
<1>3. parts \in [1 .. n -> Bytes] /\ \A i \in 1 .. n : parts[i] = encode_lag(list[i])
  BY <1>2
<1>4. b = Put(n, 2) \o FlattenSeq(parts)
  BY <1>1, Zenon DEF encode_lags, PutList
<1>5. decode_lags(p) =
         IF 0 + 2 > Len(p) THEN Short ELSE ReadItems(0 + 2, Get(p, 0, 2), found)
  BY Zenon DEF decode_lags, ReadList
<1>6. \A a \in 0 .. Len(p) : found[a] = read_lag(p, a) /\ a \in Nat
  OBVIOUS
<1> HIDE DEF parts, found
<1>7. ASSUME NEW i \in 1 .. n PROVE Finds(p, found, parts[i], list[i])
  <2> SUFFICES ASSUME NEW a \in 0 .. Len(p), Holds(p, a, parts[i])
               PROVE  found[a] = [at |-> a + Len(parts[i]), item |-> list[i]]
    BY Zenon DEF Finds
  <2>1. list[i] \in [partition : U16, committed : Number, end : Number, lag : Number]
        /\ Len(encode_lag(list[i])) <= MaxU16
    BY <1>1, Zenon
  <2>2. Holds(p, a, encode_lag(list[i])) /\ a \in Nat
    BY <1>3, <1>6, Zenon
  <2>3. ReadsAs(read_lag(p, a), a, encode_lag(list[i]), list[i])
    BY <2>1, <2>2, LagRead, Zenon
  <2> QED
    BY <1>3, <1>6, <2>3, Zenon DEF ReadsAs
<1> HIDE DEF n
<1>8. Len(list) = n /\ n \in U16
  BY DEF n
<1>9. ReadsList(p, 0, b, found, list)
  BY 0 \in Nat, <1>1, <1>3, <1>4, <1>7, <1>8, ListRead, Zenon
<1> QED
  BY <1>5, <1>9, Zenon DEF ReadsList, ReadsAs

(* ... a last-seen time, ... *)
LEMMA SeenRead ==
    ASSUME NEW r \in [id : U16, at : Number]
    PROVE  /\ encode_seen(r) \in Bytes /\ 1 <= Len(encode_seen(r))
           /\ \A p \in Bytes, a \in Nat :
                 Holds(p, a, encode_seen(r)) /\ Len(encode_seen(r)) <= MaxU16 =>
                     ReadsAs(read_seen(p, a), a, encode_seen(r), r)
<1> DEFINE c1 == Put(r.id, 2)
           c2 == Put(r.at, 8)
           b == c1 \o c2
<1>1. /\ r.id \in Nat /\ r.id \in U16
      /\ Word(r.at)
  BY Types, HoldsSelf
<1>2. /\ c1 \in Bytes /\ Len(c1) = 2
      /\ c2 \in Bytes /\ Len(c2) = 8
  BY <1>1, Put2, Put8
<1> HIDE DEF c1, c2
<1>3. b \in Bytes /\ Len(b) = 10
  <2>1. b \in Bytes /\ Len(b) = Len(c1) + Len(c2)
    <3>1. c1 \in Bytes /\ c2 \in Bytes
      BY <1>2, Zenon
    <3> QED
      BY <3>1, Cat2
  <2> QED
    BY <1>2, <2>1
<1>4. b = encode_seen(r)
  BY Zenon DEF encode_seen, c1, c2
<1>5. ASSUME NEW p \in Bytes, NEW a \in Nat, Holds(p, a, b), Len(b) <= MaxU16
      PROVE  ReadsAs(read_seen(p, a), a, b, r)
  <2>1. /\ Holds(p, a, c1)
        /\ Holds(p, a + 2, c2)
    <3>0. Holds(p, a, c1 \o c2)
      BY <1>5, Zenon
    <3> HIDE DEF b
    <3>1. /\ Holds(p, a, c1)
          /\ Holds(p, a + Len(c1), c2)
      <4>1. c1 \in Bytes /\ c2 \in Bytes
        BY <1>2, Zenon
      <4> QED
        BY <3>0, <4>1, Holds2, Zenon
    <3>2. /\ a + Len(c1) = a + 2
      BY <1>2
    <3> QED
      BY <3>1, <3>2, Zenon
  <2> HIDE DEF b
  <2>2. /\ Len(p) \in Nat /\ MaxU16 \in Nat /\ a + Len(b) <= Len(p)
    BY <1>5, HoldsSelf, Types, Zenon DEF Holds
  <2>9. a + 2 \in Nat
    OBVIOUS
  <2>3. Get(p, a, 2) = r.id
    BY <1>1, <2>1, <2>9, Get2 DEF c1
  <2>4. Get(p, a + 2, 8) = r.at
    BY <1>1, <2>1, <2>9, Get8 DEF c2
  <2>7. ~ (a + 10 > Len(p))
    BY <1>3, <2>2
  <2>8. read_seen(p, a) = [at |-> a + 10, item |-> r]
    <3>1. r = [id |-> r.id, at |-> r.at]
      OBVIOUS
    <3> QED
      BY <2>3, <2>4, <2>7, <3>1, Zenon DEF read_seen
  <2> QED
    BY <1>3, <2>8, Zenon DEF ReadsAs
<1>6. 1 <= Len(b)
  BY <1>2, <1>3
<1> HIDE DEF b
<1> QED
  BY <1>3, <1>4, <1>5, <1>6, Zenon

(* Lists of them. *)
LEMMA SeenListWritten ==
    ASSUME NEW list \in Seq([id : U16, at : Number]), NEW b, b = encode_seen_list(list)
    PROVE  /\ b \in Bytes /\ Len(b) \in Nat /\ 2 <= Len(b)
           /\ Len(list) \in Nat /\ Len(list) <= Len(b)
           /\ \A i \in 1 .. Len(list) : Len(encode_seen(list[i])) <= Len(b)
<1> DEFINE n     == Len(list)
           parts == [i \in 1 .. n |-> encode_seen(list[i])]
<1>1. n \in Nat /\ DOMAIN list = 1 .. n /\ \A i \in 1 .. n : list[i] \in [id : U16, at : Number]
  BY LenProperties, ElementOfSeq
<1>2. \A i \in 1 .. n : encode_seen(list[i]) \in Bytes /\ 1 <= Len(encode_seen(list[i]))
  BY <1>1, SeenRead, Zenon
<1>3. parts \in [1 .. n -> Bytes] /\ \A i \in 1 .. n : parts[i] = encode_seen(list[i])
  BY <1>2
<1>4. b = Put(n, 2) \o FlattenSeq(parts)
  BY <1>1, Zenon DEF encode_seen_list, PutList
<1> HIDE DEF parts, n
<1>5. \A i \in 1 .. n : 1 <= Len(parts[i])
  BY <1>2, <1>3, Zenon
<1>6. /\ b \in Bytes /\ Len(b) \in Nat /\ 2 <= Len(b)
      /\ \A i \in 1 .. n : Len(parts[i]) <= Len(b)
      /\ n <= Len(b)
  BY <1>1, <1>3, <1>4, <1>5, ListBytes, Zenon
<1> QED
  BY <1>1, <1>3, <1>6, Zenon DEF n

(* Reading the list gives it back. *)
LEMMA SeenListRead ==
    ASSUME NEW list \in Seq([id : U16, at : Number]), Len(list) \in U16,
           \A i \in 1 .. Len(list) : Len(encode_seen(list[i])) <= MaxU16,
           NEW b, b = encode_seen_list(list),
           NEW p \in Bytes, NEW at \in Nat, Holds(p, at, b)
    PROVE  ReadsAs(read_seen_list(p, at), at, b, list)
<1> DEFINE n     == Len(list)
           parts == [i \in 1 .. n |-> encode_seen(list[i])]
           found == [a \in 0 .. Len(p) |-> read_seen(p, a)]
<1>1. n \in Nat /\ DOMAIN list = 1 .. n /\ \A i \in 1 .. n : list[i] \in [id : U16, at : Number]
  BY LenProperties, ElementOfSeq
<1>2. \A i \in 1 .. n : encode_seen(list[i]) \in Bytes
  BY <1>1, SeenRead, Zenon
<1>3. parts \in [1 .. n -> Bytes] /\ \A i \in 1 .. n : parts[i] = encode_seen(list[i])
  BY <1>2
<1>4. b = Put(n, 2) \o FlattenSeq(parts)
  BY <1>1, Zenon DEF encode_seen_list, PutList
<1>5. read_seen_list(p, at) =
         IF at + 2 > Len(p) THEN Short ELSE ReadItems(at + 2, Get(p, at, 2), found)
  BY Zenon DEF read_seen_list, ReadList
<1>6. \A a \in 0 .. Len(p) : found[a] = read_seen(p, a) /\ a \in Nat
  OBVIOUS
<1> HIDE DEF parts, found
<1>7. ASSUME NEW i \in 1 .. n PROVE Finds(p, found, parts[i], list[i])
  <2> SUFFICES ASSUME NEW a \in 0 .. Len(p), Holds(p, a, parts[i])
               PROVE  found[a] = [at |-> a + Len(parts[i]), item |-> list[i]]
    BY Zenon DEF Finds
  <2>1. list[i] \in [id : U16, at : Number] /\ Len(encode_seen(list[i])) <= MaxU16
    BY <1>1, Zenon
  <2>2. Holds(p, a, encode_seen(list[i])) /\ a \in Nat
    BY <1>3, <1>6, Zenon
  <2>3. ReadsAs(read_seen(p, a), a, encode_seen(list[i]), list[i])
    BY <2>1, <2>2, SeenRead, Zenon
  <2> QED
    BY <1>3, <1>6, <2>3, Zenon DEF ReadsAs
<1> HIDE DEF n
<1>8. Len(list) = n /\ n \in U16
  BY DEF n
<1>9. ReadsList(p, at, b, found, list)
  BY <1>1, <1>3, <1>4, <1>7, <1>8, ListRead, Zenon
<1> QED
  BY <1>5, <1>9, Zenon DEF ReadsList, ReadsAs

(* ... a record, ... *)
LEMMA RecordRead ==
    ASSUME NEW r \in [offset : Number, payload : Bytes]
    PROVE  /\ encode_record(r) \in Bytes /\ 1 <= Len(encode_record(r))
           /\ \A p \in Bytes, a \in Nat :
                 Holds(p, a, encode_record(r)) /\ Len(encode_record(r)) <= MaxU16 =>
                     ReadsAs(read_record(p, a), a, encode_record(r), r)
<1> DEFINE c1 == Put(r.offset, 8)
           c2 == Put(Len(r.payload), 2)
           c3 == r.payload
           b == c1 \o c2 \o c3
<1>1. /\ Word(r.offset)
      /\ Len(r.payload) \in Nat
      /\ r.payload \in Bytes /\ Len(r.payload) \in Nat
  BY Types, HoldsSelf
<1>2. /\ c1 \in Bytes /\ Len(c1) = 8
      /\ c2 \in Bytes /\ Len(c2) = 2
      /\ c3 \in Bytes /\ Len(c3) \in Nat
  BY <1>1, Put2, Put8
<1> HIDE DEF c1, c2, c3
<1>3. b \in Bytes /\ Len(b) = 10 + Len(c3)
  <2>1. b \in Bytes /\ Len(b) = Len(c1) + Len(c2) + Len(c3)
    <3>1. c1 \in Bytes /\ c2 \in Bytes /\ c3 \in Bytes
      BY <1>2, Zenon
    <3> QED
      BY <3>1, Cat3
  <2> QED
    BY <1>2, <2>1
<1>4. b = encode_record(r)
  BY Zenon DEF encode_record, c1, c2, c3
<1>5. ASSUME NEW p \in Bytes, NEW a \in Nat, Holds(p, a, b), Len(b) <= MaxU16
      PROVE  ReadsAs(read_record(p, a), a, b, r)
  <2>1. /\ Holds(p, a, c1)
        /\ Holds(p, a + 8, c2)
        /\ Holds(p, a + 10, c3)
    <3>0. Holds(p, a, c1 \o c2 \o c3)
      BY <1>5, Zenon
    <3> HIDE DEF b
    <3>1. /\ Holds(p, a, c1)
          /\ Holds(p, a + Len(c1), c2)
          /\ Holds(p, a + Len(c1) + Len(c2), c3)
      <4>1. c1 \in Bytes /\ c2 \in Bytes /\ c3 \in Bytes
        BY <1>2, Zenon
      <4> QED
        BY <3>0, <4>1, Holds3, Zenon
    <3>2. /\ a + Len(c1) = a + 8
          /\ a + Len(c1) + Len(c2) = a + 10
      BY <1>2
    <3> QED
      BY <3>1, <3>2, Zenon
  <2> HIDE DEF b
  <2>2. /\ Len(p) \in Nat /\ MaxU16 \in Nat /\ a + Len(b) <= Len(p)
    BY <1>5, HoldsSelf, Types, Zenon DEF Holds
  <2>9. a + 8 \in Nat /\ a + 10 \in Nat
    OBVIOUS
  <2>3. Get(p, a, 8) = r.offset
    BY <1>1, <2>1, Get8 DEF c1
  <2>4. c3 = r.payload /\ Len(c3) \in U16
    <3>1. Len(c3) <= MaxU16
      BY <1>2, <1>3, <1>5, <2>2
    <3> QED
      BY <1>2, <3>1, Types DEF c3
  <2>5. Get(p, a + 8, 2) = Len(c3)
    BY <2>1, <2>4, <2>9, Get2, Zenon DEF c2
  <2>6. Slice(p, a + 10, Len(c3)) = c3
    BY <1>2, <2>1, <2>9, HoldsSlice, Zenon
  <2>7. ~ (a + 10 > Len(p)) /\ ~ (a + 10 + Len(c3) > Len(p))
    BY <1>2, <1>3, <2>2
  <2>8. read_record(p, a) = [at |-> a + 10 + Len(c3), item |-> r]
    <3>1. r = [offset |-> r.offset, payload |-> r.payload]
      OBVIOUS
    <3> QED
      BY <2>3, <2>4, <2>5, <2>6, <2>7, <3>1, Zenon DEF read_record
  <2>10. a + 10 + Len(c3) = a + Len(b)
    BY <1>2, <1>3
  <2> QED
    BY <2>8, <2>10, Zenon DEF ReadsAs
<1>6. 1 <= Len(b)
  BY <1>2, <1>3
<1> HIDE DEF b
<1> QED
  BY <1>3, <1>4, <1>5, <1>6, Zenon

(* Lists of them. *)
LEMMA RecordListWritten ==
    ASSUME NEW list \in Seq([offset : Number, payload : Bytes]), NEW b, b = encode_records(list)
    PROVE  /\ b \in Bytes /\ Len(b) \in Nat /\ 2 <= Len(b)
           /\ Len(list) \in Nat /\ Len(list) <= Len(b)
           /\ \A i \in 1 .. Len(list) : Len(encode_record(list[i])) <= Len(b)
<1> DEFINE n     == Len(list)
           parts == [i \in 1 .. n |-> encode_record(list[i])]
<1>1. n \in Nat /\ DOMAIN list = 1 .. n
      /\ \A i \in 1 .. n : list[i] \in [offset : Number, payload : Bytes]
  BY LenProperties, ElementOfSeq
<1>2. \A i \in 1 .. n : encode_record(list[i]) \in Bytes /\ 1 <= Len(encode_record(list[i]))
  BY <1>1, RecordRead, Zenon
<1>3. parts \in [1 .. n -> Bytes] /\ \A i \in 1 .. n : parts[i] = encode_record(list[i])
  BY <1>2
<1>4. b = Put(n, 2) \o FlattenSeq(parts)
  BY <1>1, Zenon DEF encode_records, PutList
<1> HIDE DEF parts, n
<1>5. \A i \in 1 .. n : 1 <= Len(parts[i])
  BY <1>2, <1>3, Zenon
<1>6. /\ b \in Bytes /\ Len(b) \in Nat /\ 2 <= Len(b)
      /\ \A i \in 1 .. n : Len(parts[i]) <= Len(b)
      /\ n <= Len(b)
  BY <1>1, <1>3, <1>4, <1>5, ListBytes, Zenon
<1> QED
  BY <1>1, <1>3, <1>6, Zenon DEF n

(* Reading the list gives it back. *)
LEMMA RecordListRead ==
    ASSUME NEW list \in Seq([offset : Number, payload : Bytes]), Len(list) \in U16,
           \A i \in 1 .. Len(list) : Len(encode_record(list[i])) <= MaxU16,
           NEW b, b = encode_records(list),
           NEW p \in Bytes, Holds(p, 0, b)
    PROVE  ReadsAs(decode_records(p), 0, b, list)
<1> DEFINE n     == Len(list)
           parts == [i \in 1 .. n |-> encode_record(list[i])]
           found == [a \in 0 .. Len(p) |-> read_record(p, a)]
<1>1. n \in Nat /\ DOMAIN list = 1 .. n
      /\ \A i \in 1 .. n : list[i] \in [offset : Number, payload : Bytes]
  BY LenProperties, ElementOfSeq
<1>2. \A i \in 1 .. n : encode_record(list[i]) \in Bytes
  BY <1>1, RecordRead, Zenon
<1>3. parts \in [1 .. n -> Bytes] /\ \A i \in 1 .. n : parts[i] = encode_record(list[i])
  BY <1>2
<1>4. b = Put(n, 2) \o FlattenSeq(parts)
  BY <1>1, Zenon DEF encode_records, PutList
<1>5. decode_records(p) =
         IF 0 + 2 > Len(p) THEN Short ELSE ReadItems(0 + 2, Get(p, 0, 2), found)
  BY Zenon DEF decode_records, ReadList
<1>6. \A a \in 0 .. Len(p) : found[a] = read_record(p, a) /\ a \in Nat
  OBVIOUS
<1> HIDE DEF parts, found
<1>7. ASSUME NEW i \in 1 .. n PROVE Finds(p, found, parts[i], list[i])
  <2> SUFFICES ASSUME NEW a \in 0 .. Len(p), Holds(p, a, parts[i])
               PROVE  found[a] = [at |-> a + Len(parts[i]), item |-> list[i]]
    BY Zenon DEF Finds
  <2>1. list[i] \in [offset : Number, payload : Bytes] /\ Len(encode_record(list[i])) <= MaxU16
    BY <1>1, Zenon
  <2>2. Holds(p, a, encode_record(list[i])) /\ a \in Nat
    BY <1>3, <1>6, Zenon
  <2>3. ReadsAs(read_record(p, a), a, encode_record(list[i]), list[i])
    BY <2>1, <2>2, RecordRead, Zenon
  <2> QED
    BY <1>3, <1>6, <2>3, Zenon DEF ReadsAs
<1> HIDE DEF n
<1>8. Len(list) = n /\ n \in U16
  BY DEF n
<1>9. ReadsList(p, 0, b, found, list)
  BY 0 \in Nat, <1>1, <1>3, <1>4, <1>7, <1>8, ListRead, Zenon
<1> QED
  BY <1>5, <1>9, Zenon DEF ReadsList, ReadsAs

(* ... a partition in a description, ... *)
LEMMA PartitionRead ==
    ASSUME NEW r \in [partition : U16, base : Number, next : Number, count : Number,
                  leader : U16, replicas : Seq(U16)]
    PROVE  /\ encode_partition(r) \in Bytes /\ 1 <= Len(encode_partition(r))
           /\ \A p \in Bytes, a \in Nat :
                 Holds(p, a, encode_partition(r)) /\ Len(encode_partition(r)) <= MaxU16 =>
                     ReadsAs(read_partition(p, a), a, encode_partition(r), r)
<1> DEFINE c1 == Put(r.partition, 2)
           c2 == Put(r.base, 8)
           c3 == Put(r.next, 8)
           c4 == Put(r.count, 4)
           c5 == Put(r.leader, 2)
           c6 == PutU16s(r.replicas)
           b == c1 \o c2 \o c3 \o c4 \o c5 \o c6
<1>1. /\ r.partition \in Nat /\ r.partition \in U16
      /\ Word(r.base)
      /\ Word(r.next)
      /\ Word(r.count)
      /\ r.leader \in Nat /\ r.leader \in U16
      /\ PutU16s(r.replicas) \in Bytes
            /\ Len(PutU16s(r.replicas)) \in Nat /\ 2 <= Len(PutU16s(r.replicas))
  BY Types, HoldsSelf, U16ListWritten
<1>2. /\ c1 \in Bytes /\ Len(c1) = 2
      /\ c2 \in Bytes /\ Len(c2) = 8
      /\ c3 \in Bytes /\ Len(c3) = 8
      /\ c4 \in Bytes /\ Len(c4) = 4
      /\ c5 \in Bytes /\ Len(c5) = 2
      /\ c6 \in Bytes /\ Len(c6) \in Nat
  <2>1. c1 \in Bytes /\ Len(c1) = 2
    BY <1>1, Put2, SMT
  <2>2. c2 \in Bytes /\ Len(c2) = 8
    BY <1>1, Put8, SMT
  <2>3. c3 \in Bytes /\ Len(c3) = 8
    BY <1>1, Put8, SMT
  <2>4. c4 \in Bytes /\ Len(c4) = 4
    BY <1>1, Put4, SMT
  <2>5. c5 \in Bytes /\ Len(c5) = 2
    BY <1>1, Put2, SMT
  <2>6. c6 \in Bytes /\ Len(c6) \in Nat
    BY <1>1, Zenon
  <2> QED
    BY <2>1, <2>2, <2>3, <2>4, <2>5, <2>6, Zenon
<1> HIDE DEF c1, c2, c3, c4, c5, c6
<1>3. b \in Bytes /\ Len(b) = 24 + Len(c6)
  <2>1. b \in Bytes /\ Len(b) = Len(c1) + Len(c2) + Len(c3) + Len(c4) + Len(c5) + Len(c6)
    <3>1. c1 \in Bytes /\ c2 \in Bytes /\ c3 \in Bytes
          /\ c4 \in Bytes /\ c5 \in Bytes /\ c6 \in Bytes
      BY <1>2, Zenon
    <3> QED
      BY <3>1, Cat6
  <2> QED
    BY <1>2, <2>1
<1>4. b = encode_partition(r)
  BY Zenon DEF encode_partition, c1, c2, c3, c4, c5, c6
<1>5. ASSUME NEW p \in Bytes, NEW a \in Nat, Holds(p, a, b), Len(b) <= MaxU16
      PROVE  ReadsAs(read_partition(p, a), a, b, r)
  <2>1. /\ Holds(p, a, c1)
        /\ Holds(p, a + 2, c2)
        /\ Holds(p, a + 10, c3)
        /\ Holds(p, a + 18, c4)
        /\ Holds(p, a + 22, c5)
        /\ Holds(p, a + 24, c6)
    <3>0. Holds(p, a, c1 \o c2 \o c3 \o c4 \o c5 \o c6)
      BY <1>5, Zenon
    <3> HIDE DEF b
    <3>1. /\ Holds(p, a, c1)
          /\ Holds(p, a + Len(c1), c2)
          /\ Holds(p, a + Len(c1) + Len(c2), c3)
          /\ Holds(p, a + Len(c1) + Len(c2) + Len(c3), c4)
          /\ Holds(p, a + Len(c1) + Len(c2) + Len(c3) + Len(c4), c5)
          /\ Holds(p, a + Len(c1) + Len(c2) + Len(c3) + Len(c4) + Len(c5), c6)
      <4> DEFINE front == c1 \o c2 \o c3 \o c4 \o c5
      <4>1. c1 \in Bytes /\ c2 \in Bytes /\ c3 \in Bytes /\ c4 \in Bytes /\ c5 \in Bytes
        BY <1>2, Zenon
      <4>2. front \in Bytes /\ Len(front) = Len(c1) + Len(c2) + Len(c3) + Len(c4) + Len(c5)
        BY <4>1, Cat5
      <4>3. Holds(p, a, front \o c6)
        BY <3>0, Zenon
      <4> HIDE DEF front
      <4>4. Holds(p, a, front) /\ Holds(p, a + Len(front), c6)
        BY <1>2, <4>2, <4>3, Holds2, Zenon
      <4>5. /\ Holds(p, a, c1)
            /\ Holds(p, a + Len(c1), c2)
            /\ Holds(p, a + Len(c1) + Len(c2), c3)
            /\ Holds(p, a + Len(c1) + Len(c2) + Len(c3), c4)
            /\ Holds(p, a + Len(c1) + Len(c2) + Len(c3) + Len(c4), c5)
        <5>1. Holds(p, a, c1 \o c2 \o c3 \o c4 \o c5)
          BY <4>4, Zenon DEF front
        <5> QED
          BY <4>1, <5>1, Holds5, ZenonT(60)
      <4>6. a + Len(front) = a + Len(c1) + Len(c2) + Len(c3) + Len(c4) + Len(c5)
        BY <1>2, <4>2
      <4> QED
        BY <4>4, <4>5, <4>6, Zenon
    <3>2. /\ a + Len(c1) = a + 2
          /\ a + Len(c1) + Len(c2) = a + 10
          /\ a + Len(c1) + Len(c2) + Len(c3) = a + 18
          /\ a + Len(c1) + Len(c2) + Len(c3) + Len(c4) = a + 22
          /\ a + Len(c1) + Len(c2) + Len(c3) + Len(c4) + Len(c5) = a + 24
      BY <1>2
    <3> QED
      BY <3>1, <3>2, Zenon
  <2> HIDE DEF b
  <2>2. /\ Len(p) \in Nat /\ MaxU16 \in Nat /\ a + Len(b) <= Len(p)
    BY <1>5, HoldsSelf, Types, Zenon DEF Holds
  <2>9. /\ a + 2 \in Nat /\ a + 10 \in Nat /\ a + 18 \in Nat /\ a + 22 \in Nat /\ a + 24 \in Nat
    OBVIOUS
  <2>3. Get(p, a, 2) = r.partition
    BY <1>1, <2>1, <2>9, Get2 DEF c1
  <2>4. Get(p, a + 2, 8) = r.base
    BY <1>1, <2>1, <2>9, Get8 DEF c2
  <2>5. Get(p, a + 10, 8) = r.next
    BY <1>1, <2>1, <2>9, Get8 DEF c3
  <2>6. Get(p, a + 18, 4) = r.count
    BY <1>1, <2>1, <2>9, Get4 DEF c4
  <2>7. Get(p, a + 22, 2) = r.leader
    BY <1>1, <2>1, <2>9, Get2 DEF c5
  <2>10. Len(r.replicas) \in U16
        /\ \A i \in 1 .. Len(r.replicas) : Len(PutU16(r.replicas[i])) <= MaxU16
    <3>1. /\ Len(r.replicas) \in Nat /\ Len(r.replicas) <= Len(c6)
          /\ \A i \in 1 .. Len(r.replicas) : Len(PutU16(r.replicas[i])) <= Len(c6)
      BY <1>1, U16ListWritten DEF c6
    <3>2. Len(c6) <= MaxU16
      BY <1>2, <1>3, <1>5, <2>2
    <3>3. \A i \in 1 .. Len(r.replicas) : r.replicas[i] \in U16
      BY <1>1, ElementOfSeq
    <3>4. \A i \in 1 .. Len(r.replicas) : Len(PutU16(r.replicas[i])) \in Nat
      BY <3>3, U16Read, HoldsSelf, Zenon
    <3>5. \A x \in Nat : x <= Len(c6) => x <= MaxU16
      BY <1>2, <2>2, <3>2
    <3>6. Len(r.replicas) \in U16
      BY <3>1, <3>5, Types, Zenon
    <3> QED
      BY <3>1, <3>4, <3>5, <3>6, Zenon

  <2>11. ReadsAs(ReadU16s(p, a + 24), a + 24, c6, r.replicas)
    <3>1. c6 = PutU16s(r.replicas) /\ r.replicas \in Seq(U16)
      BY DEF c6
    <3> QED
      BY <2>1, <2>9, <2>10, <3>1, U16ListRead, Zenon
  <2> DEFINE found == ReadU16s(p, a + 24)
  <2>12. found = [at |-> (a + 24) + Len(c6), item |-> r.replicas]
    BY <2>11, Zenon DEF ReadsAs
  <2> HIDE DEF found
  <2>13. found.at = (a + 24) + Len(c6) /\ found.item = r.replicas
    BY <2>12
  <2>14. found # Short
    <3>1. (a + 24) + Len(c6) # -1 /\ Short.at = -1
      BY <1>2 DEF Short
    <3> QED
      BY <2>13, <3>1, Zenon
  <2>15. ~ (a + 26 > Len(p))
    <3>1. 2 <= Len(c6)
      BY <1>1 DEF c6
    <3> QED
      BY <1>2, <1>3, <2>2, <3>1
  <2>16. read_partition(p, a) = [at |-> found.at, item |-> r]
    <3>1. r = [partition |-> r.partition, base |-> r.base, next |-> r.next, count |-> r.count,
               leader |-> r.leader, replicas |-> r.replicas]
      OBVIOUS
    <3>2. read_partition(p, a) =
             [at |-> found.at,
              item |-> [partition |-> Get(p, a, 2), base |-> Get(p, a + 2, 8),
                        next |-> Get(p, a + 10, 8), count |-> Get(p, a + 18, 4),
                        leader |-> Get(p, a + 22, 2), replicas |-> found.item]]
      BY <2>14, <2>15, Zenon DEF read_partition, found
    <3> QED
      BY <2>3, <2>4, <2>5, <2>6, <2>7, <2>13, <3>1, <3>2, Zenon
  <2>17. found.at = a + Len(b)
    <3>1. (a + 24) + Len(c6) = a + (24 + Len(c6))
      BY <1>2
    <3> QED
      BY <1>3, <2>13, <3>1, Zenon
  <2> QED
    BY <2>16, <2>17, Zenon DEF ReadsAs
<1>6. 1 <= Len(b)
  BY <1>2, <1>3
<1> HIDE DEF b
<1> QED
  BY <1>3, <1>4, <1>5, <1>6, Zenon

(* Lists of them. *)
LEMMA PartitionListWritten ==
    ASSUME NEW list \in Seq([partition : U16, base : Number, next : Number, count : Number,
                           leader : U16, replicas : Seq(U16)]), NEW b, b = encode_description(list)
    PROVE  /\ b \in Bytes /\ Len(b) \in Nat /\ 2 <= Len(b)
           /\ Len(list) \in Nat /\ Len(list) <= Len(b)
           /\ \A i \in 1 .. Len(list) : Len(encode_partition(list[i])) <= Len(b)
<1> DEFINE n     == Len(list)
           parts == [i \in 1 .. n |-> encode_partition(list[i])]
<1>1. n \in Nat /\ DOMAIN list = 1 .. n
      /\ \A i \in 1 .. n :
              list[i] \in [partition : U16, base : Number, next : Number, count : Number,
                           leader : U16, replicas : Seq(U16)]
  BY LenProperties, ElementOfSeq
<1>2. \A i \in 1 .. n : encode_partition(list[i]) \in Bytes /\ 1 <= Len(encode_partition(list[i]))
  BY <1>1, PartitionRead, Zenon
<1>3. parts \in [1 .. n -> Bytes] /\ \A i \in 1 .. n : parts[i] = encode_partition(list[i])
  BY <1>2
<1>4. b = Put(n, 2) \o FlattenSeq(parts)
  BY <1>1, Zenon DEF encode_description, PutList
<1> HIDE DEF parts, n
<1>5. \A i \in 1 .. n : 1 <= Len(parts[i])
  BY <1>2, <1>3, Zenon
<1>6. /\ b \in Bytes /\ Len(b) \in Nat /\ 2 <= Len(b)
      /\ \A i \in 1 .. n : Len(parts[i]) <= Len(b)
      /\ n <= Len(b)
  BY <1>1, <1>3, <1>4, <1>5, ListBytes, Zenon
<1> QED
  BY <1>1, <1>3, <1>6, Zenon DEF n

(* Reading the list gives it back. *)
LEMMA PartitionListRead ==
    ASSUME NEW list \in Seq([partition : U16, base : Number, next : Number, count : Number,
                           leader : U16, replicas : Seq(U16)]), Len(list) \in U16,
           \A i \in 1 .. Len(list) : Len(encode_partition(list[i])) <= MaxU16,
           NEW b, b = encode_description(list),
           NEW p \in Bytes, Holds(p, 0, b)
    PROVE  ReadsAs(decode_description(p), 0, b, list)
<1> DEFINE n     == Len(list)
           parts == [i \in 1 .. n |-> encode_partition(list[i])]
           found == [a \in 0 .. Len(p) |-> read_partition(p, a)]
<1>1. n \in Nat /\ DOMAIN list = 1 .. n
      /\ \A i \in 1 .. n :
              list[i] \in [partition : U16, base : Number, next : Number, count : Number,
                           leader : U16, replicas : Seq(U16)]
  BY LenProperties, ElementOfSeq
<1>2. \A i \in 1 .. n : encode_partition(list[i]) \in Bytes
  BY <1>1, PartitionRead, Zenon
<1>3. parts \in [1 .. n -> Bytes] /\ \A i \in 1 .. n : parts[i] = encode_partition(list[i])
  BY <1>2
<1>4. b = Put(n, 2) \o FlattenSeq(parts)
  BY <1>1, Zenon DEF encode_description, PutList
<1>5. decode_description(p) =
         IF 0 + 2 > Len(p) THEN Short ELSE ReadItems(0 + 2, Get(p, 0, 2), found)
  BY Zenon DEF decode_description, ReadList
<1>6. \A a \in 0 .. Len(p) : found[a] = read_partition(p, a) /\ a \in Nat
  OBVIOUS
<1> HIDE DEF parts, found
<1>7. ASSUME NEW i \in 1 .. n PROVE Finds(p, found, parts[i], list[i])
  <2> SUFFICES ASSUME NEW a \in 0 .. Len(p), Holds(p, a, parts[i])
               PROVE  found[a] = [at |-> a + Len(parts[i]), item |-> list[i]]
    BY Zenon DEF Finds
  <2>1. list[i] \in [partition : U16, base : Number, next : Number, count : Number,
                           leader : U16, replicas : Seq(U16)]
                                 /\ Len(encode_partition(list[i])) <= MaxU16
    BY <1>1, Zenon
  <2>2. Holds(p, a, encode_partition(list[i])) /\ a \in Nat
    BY <1>3, <1>6, Zenon
  <2>3. ReadsAs(read_partition(p, a), a, encode_partition(list[i]), list[i])
    BY <2>1, <2>2, PartitionRead, Zenon
  <2> QED
    BY <1>3, <1>6, <2>3, Zenon DEF ReadsAs
<1> HIDE DEF n
<1>8. Len(list) = n /\ n \in U16
  BY DEF n
<1>9. ReadsList(p, 0, b, found, list)
  BY 0 \in Nat, <1>1, <1>3, <1>4, <1>7, <1>8, ListRead, Zenon
<1> QED
  BY <1>5, <1>9, Zenon DEF ReadsList, ReadsAs

(* ... the assignment of a partition, ... *)
LEMMA AssignmentRead ==
    ASSUME NEW r \in [topic_id : U16, partition_id : U16, leader : U16, replicas : Seq(U16),
                  leader_epoch : Number]
    PROVE  /\ encode_assignment(r) \in Bytes /\ 1 <= Len(encode_assignment(r))
           /\ \A p \in Bytes, a \in Nat :
                 Holds(p, a, encode_assignment(r)) /\ Len(encode_assignment(r)) <= MaxU16 =>
                     ReadsAs(read_assignment(p, a), a, encode_assignment(r), r)
<1> DEFINE c1 == Put(r.topic_id, 2)
           c2 == Put(r.partition_id, 2)
           c3 == Put(r.leader, 2)
           c4 == PutU16s(r.replicas)
           c5 == Put(r.leader_epoch, 8)
           b == c1 \o c2 \o c3 \o c4 \o c5
<1>1. /\ r.topic_id \in Nat /\ r.topic_id \in U16
      /\ r.partition_id \in Nat /\ r.partition_id \in U16
      /\ r.leader \in Nat /\ r.leader \in U16
      /\ PutU16s(r.replicas) \in Bytes
            /\ Len(PutU16s(r.replicas)) \in Nat /\ 2 <= Len(PutU16s(r.replicas))
      /\ Word(r.leader_epoch)
  BY Types, HoldsSelf, U16ListWritten
<1>2. /\ c1 \in Bytes /\ Len(c1) = 2
      /\ c2 \in Bytes /\ Len(c2) = 2
      /\ c3 \in Bytes /\ Len(c3) = 2
      /\ c4 \in Bytes /\ Len(c4) \in Nat
      /\ c5 \in Bytes /\ Len(c5) = 8
  <2>1. c1 \in Bytes /\ Len(c1) = 2
    BY <1>1, Put2, SMT
  <2>2. c2 \in Bytes /\ Len(c2) = 2
    BY <1>1, Put2, SMT
  <2>3. c3 \in Bytes /\ Len(c3) = 2
    BY <1>1, Put2, SMT
  <2>4. c4 \in Bytes /\ Len(c4) \in Nat
    BY <1>1, Zenon
  <2>5. c5 \in Bytes /\ Len(c5) = 8
    BY <1>1, Put8, SMT
  <2> QED
    BY <2>1, <2>2, <2>3, <2>4, <2>5, Zenon
<1> HIDE DEF c1, c2, c3, c4, c5
<1>3. b \in Bytes /\ Len(b) = 14 + Len(c4)
  <2>1. b \in Bytes /\ Len(b) = Len(c1) + Len(c2) + Len(c3) + Len(c4) + Len(c5)
    <3>1. c1 \in Bytes /\ c2 \in Bytes /\ c3 \in Bytes /\ c4 \in Bytes /\ c5 \in Bytes
      BY <1>2, Zenon
    <3> QED
      BY <3>1, Cat5
  <2> QED
    BY <1>2, <2>1
<1>4. b = encode_assignment(r)
  BY Zenon DEF encode_assignment, c1, c2, c3, c4, c5
<1>5. ASSUME NEW p \in Bytes, NEW a \in Nat, Holds(p, a, b), Len(b) <= MaxU16
      PROVE  ReadsAs(read_assignment(p, a), a, b, r)
  <2>1. /\ Holds(p, a, c1)
        /\ Holds(p, a + 2, c2)
        /\ Holds(p, a + 4, c3)
        /\ Holds(p, a + 6, c4)
        /\ Holds(p, a + 6 + Len(c4), c5)
    <3>0. Holds(p, a, c1 \o c2 \o c3 \o c4 \o c5)
      BY <1>5, Zenon
    <3> HIDE DEF b
    <3>1. /\ Holds(p, a, c1)
          /\ Holds(p, a + Len(c1), c2)
          /\ Holds(p, a + Len(c1) + Len(c2), c3)
          /\ Holds(p, a + Len(c1) + Len(c2) + Len(c3), c4)
          /\ Holds(p, a + Len(c1) + Len(c2) + Len(c3) + Len(c4), c5)
      <4>1. c1 \in Bytes /\ c2 \in Bytes /\ c3 \in Bytes /\ c4 \in Bytes /\ c5 \in Bytes
        BY <1>2, Zenon
      <4> QED
        BY <3>0, <4>1, Holds5, ZenonT(60)
    <3>2. /\ a + Len(c1) = a + 2
          /\ a + Len(c1) + Len(c2) = a + 4
          /\ a + Len(c1) + Len(c2) + Len(c3) = a + 6
          /\ a + Len(c1) + Len(c2) + Len(c3) + Len(c4) = a + 6 + Len(c4)
      BY <1>2
    <3> QED
      BY <3>1, <3>2, Zenon
  <2> HIDE DEF b
  <2>2. /\ Len(p) \in Nat /\ MaxU16 \in Nat /\ a + Len(b) <= Len(p)
    BY <1>5, HoldsSelf, Types, Zenon DEF Holds
  <2>9. a + 2 \in Nat /\ a + 4 \in Nat /\ a + 6 \in Nat /\ (a + 6) + Len(c4) \in Nat
    BY <1>2
  <2>3. Get(p, a, 2) = r.topic_id
    BY <1>1, <2>1, <2>9, Get2 DEF c1
  <2>4. Get(p, a + 2, 2) = r.partition_id
    BY <1>1, <2>1, <2>9, Get2 DEF c2
  <2>5. Get(p, a + 4, 2) = r.leader
    BY <1>1, <2>1, <2>9, Get2 DEF c3
  <2>6. Get(p, (a + 6) + Len(c4), 8) = r.leader_epoch
    BY <1>1, <2>1, <2>9, Get8 DEF c5
  <2>10. Len(r.replicas) \in U16
        /\ \A i \in 1 .. Len(r.replicas) : Len(PutU16(r.replicas[i])) <= MaxU16
    <3>1. /\ Len(r.replicas) \in Nat /\ Len(r.replicas) <= Len(c4)
          /\ \A i \in 1 .. Len(r.replicas) : Len(PutU16(r.replicas[i])) <= Len(c4)
      BY <1>1, U16ListWritten DEF c4
    <3>2. Len(c4) <= MaxU16
      BY <1>2, <1>3, <1>5, <2>2
    <3>3. \A i \in 1 .. Len(r.replicas) : r.replicas[i] \in U16
      BY <1>1, ElementOfSeq
    <3>4. \A i \in 1 .. Len(r.replicas) : Len(PutU16(r.replicas[i])) \in Nat
      BY <3>3, U16Read, HoldsSelf, Zenon
    <3>5. \A x \in Nat : x <= Len(c4) => x <= MaxU16
      BY <1>2, <2>2, <3>2
    <3>6. Len(r.replicas) \in U16
      BY <3>1, <3>5, Types, Zenon
    <3> QED
      BY <3>1, <3>4, <3>5, <3>6, Zenon

  <2>11. ReadsAs(ReadU16s(p, a + 6), a + 6, c4, r.replicas)
    <3>1. c4 = PutU16s(r.replicas) /\ r.replicas \in Seq(U16)
      BY DEF c4
    <3> QED
      BY <2>1, <2>9, <2>10, <3>1, U16ListRead, Zenon
  <2> DEFINE found == ReadU16s(p, a + 6)
  <2>12. found = [at |-> (a + 6) + Len(c4), item |-> r.replicas]
    BY <2>11, Zenon DEF ReadsAs
  <2> HIDE DEF found
  <2>13. found.at = (a + 6) + Len(c4) /\ found.item = r.replicas
    BY <2>12
  <2>14. found # Short
    <3>1. (a + 6) + Len(c4) # -1 /\ Short.at = -1
      BY <1>2 DEF Short
    <3> QED
      BY <2>13, <3>1, Zenon
  <2>15. ~ (a + 8 > Len(p)) /\ ~ (found.at + 8 > Len(p))
    <3>1. 2 <= Len(c4)
      BY <1>1 DEF c4
    <3>2. ~ (a + 8 > Len(p)) /\ ~ (((a + 6) + Len(c4)) + 8 > Len(p))
      BY <1>2, <1>3, <2>2, <3>1
    <3> QED
      BY <2>13, <3>2, Zenon
  <2>16. read_assignment(p, a) = [at |-> found.at + 8, item |-> r]
    <3>1. r = [topic_id |-> r.topic_id, partition_id |-> r.partition_id, leader |-> r.leader,
               replicas |-> r.replicas, leader_epoch |-> r.leader_epoch]
      OBVIOUS
    <3>2. read_assignment(p, a) =
             [at |-> found.at + 8,
              item |-> [topic_id |-> Get(p, a, 2), partition_id |-> Get(p, a + 2, 2),
                        leader |-> Get(p, a + 4, 2), replicas |-> found.item,
                        leader_epoch |-> Get(p, found.at, 8)]]
      BY <2>14, <2>15, Zenon DEF read_assignment, found
    <3> QED
      BY <2>3, <2>4, <2>5, <2>6, <2>13, <3>1, <3>2, Zenon
  <2>17. found.at + 8 = a + Len(b)
    <3>1. ((a + 6) + Len(c4)) + 8 = a + (14 + Len(c4))
      BY <1>2
    <3> QED
      BY <1>3, <2>13, <3>1, Zenon
  <2> QED
    BY <2>16, <2>17, Zenon DEF ReadsAs
<1>6. 1 <= Len(b)
  BY <1>2, <1>3
<1> HIDE DEF b
<1> QED
  BY <1>3, <1>4, <1>5, <1>6, Zenon

(* Lists of them. *)
LEMMA AssignmentListWritten ==
    ASSUME NEW list \in Seq([topic_id : U16, partition_id : U16, leader : U16, replicas : Seq(U16),
                           leader_epoch : Number]), NEW b, b = encode_assignments(list)
    PROVE  /\ b \in Bytes /\ Len(b) \in Nat /\ 2 <= Len(b)
           /\ Len(list) \in Nat /\ Len(list) <= Len(b)
           /\ \A i \in 1 .. Len(list) : Len(encode_assignment(list[i])) <= Len(b)
<1> DEFINE n     == Len(list)
           parts == [i \in 1 .. n |-> encode_assignment(list[i])]
<1>1. n \in Nat /\ DOMAIN list = 1 .. n
      /\ \A i \in 1 .. n :
              list[i] \in [topic_id : U16, partition_id : U16, leader : U16, replicas : Seq(U16),
                           leader_epoch : Number]
  BY LenProperties, ElementOfSeq
<1>2. \A i \in 1 .. n : encode_assignment(list[i]) \in Bytes /\ 1 <= Len(encode_assignment(list[i]))
  BY <1>1, AssignmentRead, Zenon
<1>3. parts \in [1 .. n -> Bytes] /\ \A i \in 1 .. n : parts[i] = encode_assignment(list[i])
  BY <1>2
<1>4. b = Put(n, 2) \o FlattenSeq(parts)
  BY <1>1, Zenon DEF encode_assignments, PutList
<1> HIDE DEF parts, n
<1>5. \A i \in 1 .. n : 1 <= Len(parts[i])
  BY <1>2, <1>3, Zenon
<1>6. /\ b \in Bytes /\ Len(b) \in Nat /\ 2 <= Len(b)
      /\ \A i \in 1 .. n : Len(parts[i]) <= Len(b)
      /\ n <= Len(b)
  BY <1>1, <1>3, <1>4, <1>5, ListBytes, Zenon
<1> QED
  BY <1>1, <1>3, <1>6, Zenon DEF n

(* Reading the list gives it back. *)
LEMMA AssignmentListRead ==
    ASSUME NEW list \in Seq([topic_id : U16, partition_id : U16, leader : U16, replicas : Seq(U16),
                           leader_epoch : Number]), Len(list) \in U16,
           \A i \in 1 .. Len(list) : Len(encode_assignment(list[i])) <= MaxU16,
           NEW b, b = encode_assignments(list),
           NEW p \in Bytes, NEW at \in Nat, Holds(p, at, b)
    PROVE  ReadsAs(read_assignments(p, at), at, b, list)
<1> DEFINE n     == Len(list)
           parts == [i \in 1 .. n |-> encode_assignment(list[i])]
           found == [a \in 0 .. Len(p) |-> read_assignment(p, a)]
<1>1. n \in Nat /\ DOMAIN list = 1 .. n
      /\ \A i \in 1 .. n :
              list[i] \in [topic_id : U16, partition_id : U16, leader : U16, replicas : Seq(U16),
                           leader_epoch : Number]
  BY LenProperties, ElementOfSeq
<1>2. \A i \in 1 .. n : encode_assignment(list[i]) \in Bytes
  BY <1>1, AssignmentRead, Zenon
<1>3. parts \in [1 .. n -> Bytes] /\ \A i \in 1 .. n : parts[i] = encode_assignment(list[i])
  BY <1>2
<1>4. b = Put(n, 2) \o FlattenSeq(parts)
  BY <1>1, Zenon DEF encode_assignments, PutList
<1>5. read_assignments(p, at) =
         IF at + 2 > Len(p) THEN Short ELSE ReadItems(at + 2, Get(p, at, 2), found)
  BY Zenon DEF read_assignments, ReadList
<1>6. \A a \in 0 .. Len(p) : found[a] = read_assignment(p, a) /\ a \in Nat
  OBVIOUS
<1> HIDE DEF parts, found
<1>7. ASSUME NEW i \in 1 .. n PROVE Finds(p, found, parts[i], list[i])
  <2> SUFFICES ASSUME NEW a \in 0 .. Len(p), Holds(p, a, parts[i])
               PROVE  found[a] = [at |-> a + Len(parts[i]), item |-> list[i]]
    BY Zenon DEF Finds
  <2>1. list[i] \in [topic_id : U16, partition_id : U16, leader : U16, replicas : Seq(U16),
                           leader_epoch : Number] /\ Len(encode_assignment(list[i])) <= MaxU16
    BY <1>1, Zenon
  <2>2. Holds(p, a, encode_assignment(list[i])) /\ a \in Nat
    BY <1>3, <1>6, Zenon
  <2>3. ReadsAs(read_assignment(p, a), a, encode_assignment(list[i]), list[i])
    BY <2>1, <2>2, AssignmentRead, Zenon
  <2> QED
    BY <1>3, <1>6, <2>3, Zenon DEF ReadsAs
<1> HIDE DEF n
<1>8. Len(list) = n /\ n \in U16
  BY DEF n
<1>9. ReadsList(p, at, b, found, list)
  BY <1>1, <1>3, <1>4, <1>7, <1>8, ListRead, Zenon
<1> QED
  BY <1>5, <1>9, Zenon DEF ReadsList, ReadsAs

(* ... and a broker whose host name is not cut. *)
BrokerEntries == {r \in [id : U16, host : Bytes, port : U16] : Len(r.host) \in Byte}

(* Reading it gives it back. *)
LEMMA BrokerRead ==
    ASSUME NEW r \in BrokerEntries
    PROVE  /\ encode_broker(r) \in Bytes /\ 1 <= Len(encode_broker(r))
           /\ \A p \in Bytes, a \in Nat :
                 Holds(p, a, encode_broker(r)) /\ Len(encode_broker(r)) <= MaxU16 =>
                     ReadsAs(read_broker(p, a), a, encode_broker(r), r)
<1> DEFINE c1 == Put(r.id, 2)
           c2 == <<Len(r.host)>>
           c3 == r.host
           c4 == Put(r.port, 2)
           b == c1 \o c2 \o c3 \o c4
<1>0. r \in [id : U16, host : Bytes, port : U16] /\ Len(r.host) \in Byte /\ Len(r.host) <= MaxHost
  BY Types DEF BrokerEntries, MaxHost
<1>1. /\ r.id \in Nat /\ r.id \in U16
      /\ Len(r.host) \in Byte
      /\ r.host \in Bytes /\ Len(r.host) \in Nat
      /\ r.port \in Nat /\ r.port \in U16
  BY <1>0, Types, HoldsSelf
<1>2. /\ c1 \in Bytes /\ Len(c1) = 2
      /\ c2 \in Bytes /\ Len(c2) = 1
      /\ c3 \in Bytes /\ Len(c3) \in Nat
      /\ c4 \in Bytes /\ Len(c4) = 2
  BY <1>1, Put2, FewBytes, ZenonT(60)
<1> HIDE DEF c1, c2, c3, c4
<1>3. b \in Bytes /\ Len(b) = 5 + Len(c3)
  <2>1. b \in Bytes /\ Len(b) = Len(c1) + Len(c2) + Len(c3) + Len(c4)
    <3>1. c1 \in Bytes /\ c2 \in Bytes /\ c3 \in Bytes /\ c4 \in Bytes
      BY <1>2, Zenon
    <3> QED
      BY <3>1, Cat4
  <2> QED
    BY <1>2, <2>1
<1>4. b = encode_broker(r)
  BY <1>0, Zenon DEF encode_broker, c1, c2, c3, c4
<1>5. ASSUME NEW p \in Bytes, NEW a \in Nat, Holds(p, a, b), Len(b) <= MaxU16
      PROVE  ReadsAs(read_broker(p, a), a, b, r)
  <2>1. /\ Holds(p, a, c1)
        /\ Holds(p, a + 2, c2)
        /\ Holds(p, a + 3, c3)
        /\ Holds(p, a + 3 + Len(c3), c4)
    <3>0. Holds(p, a, c1 \o c2 \o c3 \o c4)
      BY <1>5, Zenon
    <3> HIDE DEF b
    <3>1. /\ Holds(p, a, c1)
          /\ Holds(p, a + Len(c1), c2)
          /\ Holds(p, a + Len(c1) + Len(c2), c3)
          /\ Holds(p, a + Len(c1) + Len(c2) + Len(c3), c4)
      <4>1. c1 \in Bytes /\ c2 \in Bytes /\ c3 \in Bytes /\ c4 \in Bytes
        BY <1>2, Zenon
      <4> QED
        BY <3>0, <4>1, Holds4, Zenon
    <3>2. /\ a + Len(c1) = a + 2
          /\ a + Len(c1) + Len(c2) = a + 3
          /\ a + Len(c1) + Len(c2) + Len(c3) = a + 3 + Len(c3)
      BY <1>2
    <3> QED
      BY <3>1, <3>2, Zenon
  <2> HIDE DEF b
  <2>2. /\ Len(p) \in Nat /\ MaxU16 \in Nat /\ a + Len(b) <= Len(p)
    BY <1>5, HoldsSelf, Types, Zenon DEF Holds
  <2>9. a + 2 \in Nat /\ a + 3 \in Nat /\ (a + 3) + Len(c3) \in Nat /\ (a + 2) + 1 = a + 3
    BY <1>2
  <2>3. Get(p, a, 2) = r.id
    BY <1>1, <2>1, <2>9, Get2 DEF c1
  <2>4. Get(p, (a + 3) + Len(c3), 2) = r.port
    BY <1>1, <2>1, <2>9, Get2 DEF c4
  <2>5. p[a + 3] = Len(c3) /\ c3 = r.host
    <3>1. 1 \in 1 .. Len(c2) /\ c2[1] = Len(c3)
      BY <1>2 DEF c2, c3
    <3>2. p[(a + 2) + 1] = c2[1]
      BY <2>1, <3>1, Zenon DEF Holds
    <3> QED
      BY <2>9, <3>1, <3>2, Zenon DEF c3
  <2>6. Slice(p, a + 3, Len(c3)) = c3
    BY <1>2, <2>1, <2>9, HoldsSlice, Zenon
  <2>7. ~ (a + 3 > Len(p)) /\ ~ (a + 5 + Len(c3) > Len(p))
    BY <1>2, <1>3, <2>2
  <2>8. read_broker(p, a) = [at |-> a + 5 + Len(c3), item |-> r]
    <3>1. r = [id |-> r.id, host |-> r.host, port |-> r.port]
      BY DEF BrokerEntries
    <3>2. read_broker(p, a) =
             [at |-> a + 5 + Len(c3),
              item |-> [id |-> Get(p, a, 2), host |-> Slice(p, a + 3, Len(c3)),
                        port |-> Get(p, (a + 3) + Len(c3), 2)]]
      BY <2>5, <2>7, Zenon DEF read_broker
    <3> QED
      BY <2>3, <2>4, <2>5, <2>6, <3>1, <3>2, Zenon
  <2>10. a + 5 + Len(c3) = a + Len(b)
    BY <1>2, <1>3
  <2> QED
    BY <2>8, <2>10, Zenon DEF ReadsAs
<1>6. 1 <= Len(b)
  BY <1>2, <1>3
<1> HIDE DEF b
<1> QED
  BY <1>3, <1>4, <1>5, <1>6, Zenon

(* Lists of them. *)
LEMMA BrokerListWritten ==
    ASSUME NEW list \in Seq(BrokerEntries), NEW b, b = encode_brokers(list)
    PROVE  /\ b \in Bytes /\ Len(b) \in Nat /\ 2 <= Len(b)
           /\ Len(list) \in Nat /\ Len(list) <= Len(b)
           /\ \A i \in 1 .. Len(list) : Len(encode_broker(list[i])) <= Len(b)
<1> DEFINE n     == Len(list)
           parts == [i \in 1 .. n |-> encode_broker(list[i])]
<1>1. n \in Nat /\ DOMAIN list = 1 .. n /\ \A i \in 1 .. n : list[i] \in BrokerEntries
  BY LenProperties, ElementOfSeq
<1>2. \A i \in 1 .. n : encode_broker(list[i]) \in Bytes /\ 1 <= Len(encode_broker(list[i]))
  BY <1>1, BrokerRead, Zenon
<1>3. parts \in [1 .. n -> Bytes] /\ \A i \in 1 .. n : parts[i] = encode_broker(list[i])
  BY <1>2
<1>4. b = Put(n, 2) \o FlattenSeq(parts)
  BY <1>1, Zenon DEF encode_brokers, PutList
<1> HIDE DEF parts, n
<1>5. \A i \in 1 .. n : 1 <= Len(parts[i])
  BY <1>2, <1>3, Zenon
<1>6. /\ b \in Bytes /\ Len(b) \in Nat /\ 2 <= Len(b)
      /\ \A i \in 1 .. n : Len(parts[i]) <= Len(b)
      /\ n <= Len(b)
  BY <1>1, <1>3, <1>4, <1>5, ListBytes, Zenon
<1> QED
  BY <1>1, <1>3, <1>6, Zenon DEF n

(* Reading the list gives it back. *)
LEMMA BrokerListRead ==
    ASSUME NEW list \in Seq(BrokerEntries), Len(list) \in U16,
           \A i \in 1 .. Len(list) : Len(encode_broker(list[i])) <= MaxU16,
           NEW b, b = encode_brokers(list),
           NEW p \in Bytes, NEW at \in Nat, Holds(p, at, b)
    PROVE  ReadsAs(read_brokers(p, at), at, b, list)
<1> DEFINE n     == Len(list)
           parts == [i \in 1 .. n |-> encode_broker(list[i])]
           found == [a \in 0 .. Len(p) |-> read_broker(p, a)]
<1>1. n \in Nat /\ DOMAIN list = 1 .. n /\ \A i \in 1 .. n : list[i] \in BrokerEntries
  BY LenProperties, ElementOfSeq
<1>2. \A i \in 1 .. n : encode_broker(list[i]) \in Bytes
  BY <1>1, BrokerRead, Zenon
<1>3. parts \in [1 .. n -> Bytes] /\ \A i \in 1 .. n : parts[i] = encode_broker(list[i])
  BY <1>2
<1>4. b = Put(n, 2) \o FlattenSeq(parts)
  BY <1>1, Zenon DEF encode_brokers, PutList
<1>5. read_brokers(p, at) =
         IF at + 2 > Len(p) THEN Short ELSE ReadItems(at + 2, Get(p, at, 2), found)
  BY Zenon DEF read_brokers, ReadList
<1>6. \A a \in 0 .. Len(p) : found[a] = read_broker(p, a) /\ a \in Nat
  OBVIOUS
<1> HIDE DEF parts, found
<1>7. ASSUME NEW i \in 1 .. n PROVE Finds(p, found, parts[i], list[i])
  <2> SUFFICES ASSUME NEW a \in 0 .. Len(p), Holds(p, a, parts[i])
               PROVE  found[a] = [at |-> a + Len(parts[i]), item |-> list[i]]
    BY Zenon DEF Finds
  <2>1. list[i] \in BrokerEntries /\ Len(encode_broker(list[i])) <= MaxU16
    BY <1>1, Zenon
  <2>2. Holds(p, a, encode_broker(list[i])) /\ a \in Nat
    BY <1>3, <1>6, Zenon
  <2>3. ReadsAs(read_broker(p, a), a, encode_broker(list[i]), list[i])
    BY <2>1, <2>2, BrokerRead, Zenon
  <2> QED
    BY <1>3, <1>6, <2>3, Zenon DEF ReadsAs
<1> HIDE DEF n
<1>8. Len(list) = n /\ n \in U16
  BY DEF n
<1>9. ReadsList(p, at, b, found, list)
  BY <1>1, <1>3, <1>4, <1>7, <1>8, ListRead, Zenon
<1> QED
  BY <1>5, <1>9, Zenon DEF ReadsList, ReadsAs

-----------------------------------------------------------------------------
(* Answers: the client reads what the broker gave. *)

Records      == [offset : Number, payload : Bytes]
Descriptions == [partition : U16, base : Number, next : Number, count : Number,
                 leader : U16, replicas : Seq(U16)]
Lags         == [partition : U16, committed : Number, end : Number, lag : Number]
Assignments  == [topic_id : U16, partition_id : U16, leader : U16, replicas : Seq(U16),
                 leader_epoch : Number]
Seens        == [id : U16, at : Number]
Joins        == [code : Byte, member_id : Number, generation : Number, partitions : Seq(U16)]

(* An answer's bytes are the encoding of the data it carries. *)
Carries(m, data) ==
    /\ m.kind = "RFetch" => data \in Seq(Records) /\ m.bytes = encode_fetch_answer(data)
    /\ m.kind = "RListTopics" => data \in Seq(U16) /\ m.bytes = encode_topics(data)
    /\ m.kind = "RDescribeTopic" =>
          data \in Seq(Descriptions) /\ m.bytes = encode_description(data)
    /\ m.kind = "RGetLag" => data \in Seq(Lags) /\ m.bytes = encode_lags(data)
    /\ m.kind = "RGetCluster" => data \in ClusterStates /\ m.bytes = encode_cluster_info(data)

(* What answers may carry. *)
LEMMA DataTyped ==
    /\ Data["RNotLeader"] \subseteq U16
    /\ Data["RProduce"] \subseteq Number
    /\ Data["RFetch"] \subseteq Seq(Records)
    /\ Data["RListTopics"] \subseteq Seq(U16)
    /\ Data["RDescribeTopic"] \subseteq Seq(Descriptions)
    /\ Data["RGetLag"] \subseteq Seq(Lags)
    /\ Data["RGetCluster"] \subseteq ClusterStates
    /\ Data["RJoinGroup"] \subseteq Joins
<1>1. \A kind \in DOMAIN DataTypes : Data[kind] \subseteq DataTypes[kind]
  BY SessionAssumption
<1>2. DOMAIN DataTypes = {"RNotLeader", "RProduce", "RFetch", "RListTopics", "RDescribeTopic",
                          "RGetLag", "RGetCluster", "RJoinGroup"}
  BY DEF DataTypes
<1>3. /\ DataTypes["RNotLeader"] = U16
      /\ DataTypes["RProduce"] = Number
      /\ DataTypes["RFetch"] = Seq(Records)
      /\ DataTypes["RListTopics"] = Seq(U16)
  BY DEF DataTypes, Records
<1>4. /\ DataTypes["RDescribeTopic"] = Seq(Descriptions)
      /\ DataTypes["RGetLag"] = Seq(Lags)
      /\ DataTypes["RGetCluster"] = ClusterStates
      /\ DataTypes["RJoinGroup"] = Joins
  BY DEF DataTypes, Descriptions, Lags, Joins
<1> QED
  BY <1>1, <1>2, <1>3, <1>4

(* The encodings are bytes: of a batch, ... *)
LEMMA FetchBytes ==
    ASSUME NEW d \in Seq(Records)
    PROVE  /\ encode_records(d) \in Bytes /\ <<CODEC_NONE>> \in Bytes
           /\ encode_fetch_answer(d) = <<CODEC_NONE>> \o encode_records(d)
           /\ encode_fetch_answer(d) \in Bytes
<1>1. encode_records(d) \in Bytes
  BY RecordListWritten DEF Records
<1>2. <<CODEC_NONE>> \in Bytes
  BY FewBytes, Types DEF CODEC_NONE
<1>3. encode_fetch_answer(d) = <<CODEC_NONE>> \o encode_records(d)
  BY Zenon DEF encode_fetch_answer, wrap_batch
<1> QED
  BY <1>1, <1>2, <1>3, Cat2, Zenon

(* ... of topic ids, ... *)
LEMMA TopicsBytes ==
    ASSUME NEW d \in Seq(U16)
    PROVE  encode_topics(d) \in Bytes
BY U16ListWritten, Zenon DEF encode_topics

(* ... of a description, ... *)
LEMMA DescriptionBytes ==
    ASSUME NEW d \in Seq(Descriptions)
    PROVE  encode_description(d) \in Bytes
BY PartitionListWritten DEF Descriptions

(* ... of lags, ... *)
LEMMA LagsBytes ==
    ASSUME NEW d \in Seq(Lags)
    PROVE  encode_lags(d) \in Bytes
BY LagListWritten DEF Lags

(* The fields of a cluster state. *)
LEMMA StateFields ==
    ASSUME NEW d \in ClusterStates
    PROVE  /\ d.min_isr \in U16
           /\ d.brokers \in Seq(BrokerEntries)
           /\ d.assignments \in Seq(Assignments)
           /\ d.seen \in Seq(Seens) /\ Len(d.seen) \in U16
           /\ d = [kind |-> "ClusterState", min_isr |-> d.min_isr, brokers |-> d.brokers,
                   assignments |-> d.assignments, seen |-> d.seen]
<1> DEFINE B == [id : U16, host : Bytes, port : U16]
<1>1. /\ d \in [kind : {"ClusterState"}, min_isr : U16, brokers : Seq(B),
                assignments : Seq(Assignments), seen : Seq(Seens)]
      /\ Len(d.seen) \in U16
      /\ \A i \in DOMAIN d.brokers : Len(d.brokers[i].host) \in Byte
  BY DEF ClusterStates, Assignments, Seens
<1> HIDE DEF B
<1>2. /\ d.min_isr \in U16 /\ d.brokers \in Seq(B)
      /\ d.assignments \in Seq(Assignments) /\ d.seen \in Seq(Seens)
      /\ d = [kind |-> "ClusterState", min_isr |-> d.min_isr, brokers |-> d.brokers,
              assignments |-> d.assignments, seen |-> d.seen]
  BY <1>1
<1>3. d.brokers \in Seq(BrokerEntries)
  <2> DEFINE b == d.brokers
  <2>1. b \in Seq(B) /\ \A i \in DOMAIN b : Len(b[i].host) \in Byte
    BY <1>1, <1>2
  <2> HIDE DEF b
  <2>2. Len(b) \in Nat /\ DOMAIN b = 1 .. Len(b) /\ b \in [1 .. Len(b) -> B]
    BY <2>1, LenProperties
  <2>3. \A i \in 1 .. Len(b) : b[i] \in BrokerEntries
    BY <2>1, <2>2 DEF BrokerEntries, B
  <2>4. b \in [1 .. Len(b) -> BrokerEntries]
    BY <2>2, <2>3
  <2>5. b \in Seq(BrokerEntries)
    BY <2>2, <2>4, SeqDef
  <2> QED
    BY <2>5 DEF b
<1> QED
  BY <1>1, <1>2, <1>3, Zenon

(* The encoding of cluster metadata is bytes, ... *)
LEMMA InfoBytes ==
    ASSUME NEW d \in ClusterStates
    PROVE  /\ <<2>> \in Bytes /\ Len(<<2>>) = 1
           /\ Put(d.min_isr, 2) \in Bytes /\ Len(Put(d.min_isr, 2)) = 2
           /\ encode_brokers(d.brokers) \in Bytes /\ encode_assignments(d.assignments) \in Bytes
           /\ encode_cluster_info(d) \in Bytes
<1>1. <<2>> \in Bytes /\ Len(<<2>>) = 1
  BY FewBytes, Types
<1>2. Put(d.min_isr, 2) \in Bytes /\ Len(Put(d.min_isr, 2)) = 2
  BY StateFields, Types, Put2, SMTT(30)
<1>3. encode_brokers(d.brokers) \in Bytes
  BY StateFields, BrokerListWritten, Zenon
<1>4. encode_assignments(d.assignments) \in Bytes
  BY StateFields, AssignmentListWritten DEF Assignments
<1>5. encode_cluster_info(d) \in Bytes
  <2> DEFINE x == <<2>>
             y == Put(d.min_isr, 2)
             z == encode_brokers(d.brokers)
             w == encode_assignments(d.assignments)
  <2>1. x \in Bytes /\ y \in Bytes /\ z \in Bytes /\ w \in Bytes
    BY <1>1, <1>2, <1>3, <1>4, Zenon
  <2>2. encode_cluster_info(d) = x \o y \o z \o w
    BY Zenon DEF encode_cluster_info
  <2> HIDE DEF x, y, z, w
  <2>3. x \o y \o z \o w \in Bytes
    BY <2>1, Cat4
  <2> QED
    BY <2>2, <2>3, Zenon
<1> QED
  BY <1>1, <1>2, <1>3, <1>4, <1>5, Zenon

(* ... and so is that of a group's answer. *)
LEMMA JoinBytes ==
    ASSUME NEW d \in Joins
    PROVE  encode_join_answer(d) \in Bytes
<1>1. d.code \in Byte /\ Word(d.member_id) /\ Word(d.generation) /\ d.partitions \in Seq(U16)
  BY Types DEF Joins
<1> DEFINE x == <<d.code>>
           y == Put(d.member_id, 8)
           z == Put(d.generation, 4)
           w == PutU16s(d.partitions)
<1>2. x \in Bytes
  BY <1>1, FewBytes
<1>3. y \in Bytes
  BY <1>1, Put8, SMT
<1>4. z \in Bytes
  BY <1>1, Put4, SMT
<1>5. w \in Bytes
  BY <1>1, U16ListWritten, Zenon
<1>6. encode_join_answer(d) = x \o y \o z \o w
  BY Zenon DEF encode_join_answer, encode_join_group_response
<1> HIDE DEF x, y, z, w
<1>7. x \o y \o z \o w \in Bytes
  BY <1>2, <1>3, <1>4, <1>5, Cat4
<1> QED
  BY <1>6, <1>7, Zenon

(* An answer as the operations and gates give them. *)
Proper(a) == a = Nothing \/ (a.message \in AnswerMessage /\ Carries(a.message, a.data))

CodeKinds == {"RProducerRegister", "RConsumerRegister", "RCommitOffset", "RCreateTopic",
              "RReplicate", "RBrokerHeartbeat"}

(* Answers without data are proper, ... *)
LEMMA ProperAnswers ==
    /\ Proper(Nothing)
    /\ \A code \in Byte : Proper(RError(code))
    /\ \A kind \in CodeKinds, code \in Byte : Proper(Status(kind, code))
    /\ \A b \in Bytes : Proper(Answer([kind |-> "REcho", bytes |-> b]))
    /\ \A l \in U16 : Proper(Answer([kind |-> "RNotLeader", leader |-> l]))
    /\ \A o \in Number : Proper(Answer([kind |-> "RProduce", offset |-> o]))
    /\ \A c, f \in Byte : Proper(Answer([kind |-> "RGroupHeartbeat", code |-> c, flag |-> f]))
    /\ \A v \in U16 : Proper(Answer([kind |-> "RHandshake", code |-> 0, version |-> v]))
<1>1. ASSUME NEW m \in AnswerMessage,
             m.kind \notin {"RFetch", "RListTopics", "RDescribeTopic", "RGetLag", "RGetCluster"}
      PROVE  Proper(Answer(m))
  <2>1. Answer(m).message = m /\ Carries(m, Answer(m).data)
    BY <1>1 DEF Answer, Carries
  <2> QED
    BY <2>1, Zenon DEF Proper
<1>2. ASSUME NEW code \in Byte PROVE Proper(RError(code))
  <2> DEFINE m == [kind |-> "RError", code |-> code, bytes |-> <<>>]
  <2>1. m \in AnswerMessage
    BY FewBytes DEF AnswerMessage
  <2>2. m.kind \notin {"RFetch", "RListTopics", "RDescribeTopic", "RGetLag", "RGetCluster"}
    OBVIOUS
  <2>3. RError(code) = Answer(m)
    BY Zenon DEF RError
  <2> HIDE DEF m
  <2> QED
    BY <1>1, <2>1, <2>2, <2>3, Zenon
<1>3. ASSUME NEW kind \in CodeKinds, NEW code \in Byte PROVE Proper(Status(kind, code))
  <2> DEFINE m == [kind |-> kind, code |-> code]
  <2>1. m \in AnswerMessage
    BY DEF AnswerMessage, CodeKinds
  <2>2. m.kind \notin {"RFetch", "RListTopics", "RDescribeTopic", "RGetLag", "RGetCluster"}
    BY DEF CodeKinds
  <2>3. Status(kind, code) = Answer(m)
    BY Zenon DEF Status
  <2> HIDE DEF m
  <2> QED
    BY <1>1, <2>1, <2>2, <2>3, Zenon
<1>4. ASSUME NEW b \in Bytes PROVE Proper(Answer([kind |-> "REcho", bytes |-> b]))
  <2> DEFINE m == [kind |-> "REcho", bytes |-> b]
  <2>1. m \in AnswerMessage
    BY DEF AnswerMessage
  <2>2. m.kind \notin {"RFetch", "RListTopics", "RDescribeTopic", "RGetLag", "RGetCluster"}
    OBVIOUS
  <2>3. Answer([kind |-> "REcho", bytes |-> b]) = Answer(m)
    BY Zenon
  <2> HIDE DEF m
  <2> QED
    BY <1>1, <2>1, <2>2, <2>3, Zenon
<1>5. ASSUME NEW l \in U16 PROVE Proper(Answer([kind |-> "RNotLeader", leader |-> l]))
  <2> DEFINE m == [kind |-> "RNotLeader", leader |-> l]
  <2>1. m \in AnswerMessage
    BY DEF AnswerMessage
  <2>2. m.kind \notin {"RFetch", "RListTopics", "RDescribeTopic", "RGetLag", "RGetCluster"}
    OBVIOUS
  <2>3. Answer([kind |-> "RNotLeader", leader |-> l]) = Answer(m)
    BY Zenon
  <2> HIDE DEF m
  <2> QED
    BY <1>1, <2>1, <2>2, <2>3, Zenon
<1>6. ASSUME NEW o \in Number PROVE Proper(Answer([kind |-> "RProduce", offset |-> o]))
  <2> DEFINE m == [kind |-> "RProduce", offset |-> o]
  <2>1. m \in AnswerMessage
    BY DEF AnswerMessage
  <2>2. m.kind \notin {"RFetch", "RListTopics", "RDescribeTopic", "RGetLag", "RGetCluster"}
    OBVIOUS
  <2>3. Answer([kind |-> "RProduce", offset |-> o]) = Answer(m)
    BY Zenon
  <2> HIDE DEF m
  <2> QED
    BY <1>1, <2>1, <2>2, <2>3, Zenon
<1>7. ASSUME NEW c \in Byte, NEW f \in Byte
      PROVE Proper(Answer([kind |-> "RGroupHeartbeat", code |-> c, flag |-> f]))
  <2> DEFINE m == [kind |-> "RGroupHeartbeat", code |-> c, flag |-> f]
  <2>1. m \in AnswerMessage
    BY DEF AnswerMessage
  <2>2. m.kind \notin {"RFetch", "RListTopics", "RDescribeTopic", "RGetLag", "RGetCluster"}
    OBVIOUS
  <2>3. Answer([kind |-> "RGroupHeartbeat", code |-> c, flag |-> f]) = Answer(m)
    BY Zenon
  <2> HIDE DEF m
  <2> QED
    BY <1>1, <2>1, <2>2, <2>3, Zenon
<1>8. ASSUME NEW v \in U16 PROVE Proper(Answer([kind |-> "RHandshake", code |-> 0, version |-> v]))
  <2> DEFINE m == [kind |-> "RHandshake", code |-> 0, version |-> v]
  <2>1. m \in AnswerMessage
    BY Types DEF AnswerMessage
  <2>2. m.kind \notin {"RFetch", "RListTopics", "RDescribeTopic", "RGetLag", "RGetCluster"}
    OBVIOUS
  <2>3. Answer([kind |-> "RHandshake", code |-> 0, version |-> v]) = Answer(m)
    BY Zenon
  <2> HIDE DEF m
  <2> QED
    BY <1>1, <2>1, <2>2, <2>3, Zenon
<1> QED
  BY <1>2, <1>3, <1>4, <1>5, <1>6, <1>7, <1>8, Zenon DEF Proper

(* ... and so are those with data. *)
LEMMA ProperData ==
    /\ \A d \in Data["RFetch"] : Proper(WithData("RFetch", encode_fetch_answer(d), d))
    /\ \A d \in Data["RListTopics"] : Proper(WithData("RListTopics", encode_topics(d), d))
    /\ \A d \in Data["RDescribeTopic"] :
            Proper(WithData("RDescribeTopic", encode_description(d), d))
    /\ \A d \in Data["RGetLag"] : Proper(WithData("RGetLag", encode_lags(d), d))
    /\ \A d \in Data["RGetCluster"] : Proper(WithData("RGetCluster", encode_cluster_info(d), d))
    /\ \A d \in Data["RJoinGroup"] : Proper(WithData("RJoinGroup", encode_join_answer(d), d))
<1>1. ASSUME NEW kind \in {"RFetch", "RListTopics", "RDescribeTopic", "RGetLag", "RGetCluster",
                            "RJoinGroup"},
             NEW b \in Bytes, NEW d, Carries([kind |-> kind, bytes |-> b], d)
      PROVE  Proper(WithData(kind, b, d))
  <2> DEFINE m == [kind |-> kind, bytes |-> b]
  <2>1. m \in AnswerMessage
    BY DEF AnswerMessage
  <2> HIDE DEF m
  <2>2. WithData(kind, b, d).message = m /\ WithData(kind, b, d).data = d
    BY DEF WithData, m
  <2>3. Carries(m, d)
    BY <1>1 DEF m
  <2> QED
    BY <2>1, <2>2, <2>3, Zenon DEF Proper
<1>2. ASSUME NEW d \in Data["RFetch"] PROVE Proper(WithData("RFetch", encode_fetch_answer(d), d))
  <2>1. d \in Seq(Records)
    BY DataTyped
  <2>2. encode_fetch_answer(d) \in Bytes
    BY <2>1, FetchBytes, Zenon
  <2>3. Carries([kind |-> "RFetch", bytes |-> encode_fetch_answer(d)], d)
    BY <2>1 DEF Carries
  <2> QED
    BY <1>1, <2>2, <2>3
<1>3. ASSUME NEW d \in Data["RListTopics"]
      PROVE Proper(WithData("RListTopics", encode_topics(d), d))
  <2>1. d \in Seq(U16)
    BY DataTyped
  <2>2. encode_topics(d) \in Bytes
    BY <2>1, TopicsBytes, Zenon
  <2>3. Carries([kind |-> "RListTopics", bytes |-> encode_topics(d)], d)
    BY <2>1 DEF Carries
  <2> QED
    BY <1>1, <2>2, <2>3
<1>4. ASSUME NEW d \in Data["RDescribeTopic"]
      PROVE Proper(WithData("RDescribeTopic", encode_description(d), d))
  <2>1. d \in Seq(Descriptions)
    BY DataTyped
  <2>2. encode_description(d) \in Bytes
    BY <2>1, DescriptionBytes, Zenon
  <2>3. Carries([kind |-> "RDescribeTopic", bytes |-> encode_description(d)], d)
    BY <2>1 DEF Carries
  <2> QED
    BY <1>1, <2>2, <2>3
<1>5. ASSUME NEW d \in Data["RGetLag"] PROVE Proper(WithData("RGetLag", encode_lags(d), d))
  <2>1. d \in Seq(Lags)
    BY DataTyped
  <2>2. encode_lags(d) \in Bytes
    BY <2>1, LagsBytes, Zenon
  <2>3. Carries([kind |-> "RGetLag", bytes |-> encode_lags(d)], d)
    BY <2>1 DEF Carries
  <2> QED
    BY <1>1, <2>2, <2>3
<1>6. ASSUME NEW d \in Data["RGetCluster"]
      PROVE Proper(WithData("RGetCluster", encode_cluster_info(d), d))
  <2>1. d \in ClusterStates
    BY DataTyped
  <2>2. encode_cluster_info(d) \in Bytes
    BY <2>1, InfoBytes, Zenon
  <2>3. Carries([kind |-> "RGetCluster", bytes |-> encode_cluster_info(d)], d)
    BY <2>1 DEF Carries
  <2> QED
    BY <1>1, <2>2, <2>3
<1>7. ASSUME NEW d \in Data["RJoinGroup"]
      PROVE Proper(WithData("RJoinGroup", encode_join_answer(d), d))
  <2>1. d \in Joins
    BY DataTyped
  <2>2. encode_join_answer(d) \in Bytes
    BY <2>1, JoinBytes, Zenon
  <2>3. Carries([kind |-> "RJoinGroup", bytes |-> encode_join_answer(d)], d)
    BY <2>1 DEF Carries
  <2> QED
    BY <1>1, <2>2, <2>3
<1> QED
  BY <1>2, <1>3, <1>4, <1>5, <1>6, <1>7, Zenon

(* The greeting is bytes. *)
LEMMA GreetingBytes == Greeting \in Bytes
<1>1. 32 \in Byte /\ 17 \in Nat
  BY Types
<1>2. Greeting \in [1 .. 17 -> Byte]
  BY <1>1 DEF Greeting
<1> QED
  BY <1>1, <1>2, Written DEF Bytes

(* What an operation answers is proper. *)
LEMMA ProperOutcomes ==
    ASSUME NEW m, m.kind = "Echo" => m.bytes \in Bytes, NEW a \in Outcomes(m)
    PROVE  Proper(a)
<1>0. 0 \in Byte /\ 1 \in Byte
  BY Types
<1>1. CASE m.kind = "Echo"
  <2>1. a \in {Answer([kind |-> "REcho", bytes |-> Greeting \o m.bytes])}
    BY <1>1 DEF Outcomes
  <2>2. Greeting \o m.bytes \in Bytes
    BY <1>1, GreetingBytes, Cat2, Zenon
  <2>3. a = Answer([kind |-> "REcho", bytes |-> Greeting \o m.bytes])
    BY <2>1
  <2> QED
    BY <2>2, <2>3, ProperAnswers, Zenon
<1>2. CASE m.kind = "ProducerRegister"
  <2>1. a \in IF env.dialback THEN {Status("RProducerRegister", 0), Nothing} ELSE {RError(1)}
    BY <1>2 DEF Outcomes
  <2>2. a = Status("RProducerRegister", 0) \/ a = Nothing \/ a = RError(1)
    BY <2>1
  <2>3. "RProducerRegister" \in CodeKinds
    BY DEF CodeKinds
  <2> QED
    BY <1>0, <2>2, <2>3, ProperAnswers, Zenon
<1>3. CASE m.kind = "ConsumerRegister"
  <2>1. a \in IF env.dialback THEN {Status("RConsumerRegister", 0), Nothing} ELSE {RError(1)}
    BY <1>3 DEF Outcomes
  <2>2. a = Status("RConsumerRegister", 0) \/ a = Nothing \/ a = RError(1)
    BY <2>1
  <2>3. "RConsumerRegister" \in CodeKinds
    BY DEF CodeKinds
  <2> QED
    BY <1>0, <2>2, <2>3, ProperAnswers, Zenon
<1>4. CASE m.kind = "Fetch"
  <2>1. a \in Fetched(m)
    BY <1>4 DEF Outcomes
  <2>2. \/ \E l \in Data["RNotLeader"] : a = Answer([kind |-> "RNotLeader", leader |-> l])
        \/ \E d \in Data["RFetch"] : a = WithData("RFetch", encode_fetch_answer(d), d)
        \/ a = Nothing
    BY <2>1, Zenon DEF Fetched
  <2>3. \A l \in Data["RNotLeader"] : l \in U16
    BY DataTyped, Zenon
  <2> QED
    BY <2>2, <2>3, ProperData, ProperAnswers, Zenon
<1>5. CASE m.kind = "Produce"
  <2>1. a \in Produced(m)
    BY <1>5 DEF Outcomes
  <2>2. \/ \E l \in Data["RNotLeader"] : a = Answer([kind |-> "RNotLeader", leader |-> l])
        \/ \E o \in Data["RProduce"] : a = Answer([kind |-> "RProduce", offset |-> o])
        \/ a = Nothing
    BY <2>1, SMT DEF Produced
  <2>3. (\A l \in Data["RNotLeader"] : l \in U16) /\ (\A o \in Data["RProduce"] : o \in Number)
    BY DataTyped, Zenon
  <2> QED
    BY <2>2, <2>3, ProperAnswers, Zenon
<1>6. CASE m.kind = "IdempotentProduce"
  <2>1. a \in Produced(m)
    BY <1>6 DEF Outcomes
  <2>2. \/ \E l \in Data["RNotLeader"] : a = Answer([kind |-> "RNotLeader", leader |-> l])
        \/ \E o \in Data["RProduce"] : a = Answer([kind |-> "RProduce", offset |-> o])
        \/ a = Nothing
    BY <2>1, SMT DEF Produced
  <2>3. (\A l \in Data["RNotLeader"] : l \in U16) /\ (\A o \in Data["RProduce"] : o \in Number)
    BY DataTyped, Zenon
  <2> QED
    BY <2>2, <2>3, ProperAnswers, Zenon
<1>7. CASE m.kind = "CommitOffset"
  <2>1. a \in {Status("RCommitOffset", 0), Nothing}
    BY <1>7 DEF Outcomes
  <2>2. a = Status("RCommitOffset", 0) \/ a = Nothing
    BY <2>1
  <2>3. "RCommitOffset" \in CodeKinds
    BY DEF CodeKinds
  <2> QED
    BY <1>0, <2>2, <2>3, ProperAnswers, Zenon
<1>8. CASE m.kind = "CreateTopic"
  <2>1. a \in {Status("RCreateTopic", c) : c \in {0, 1}} \cup {Nothing}
    BY <1>8 DEF Outcomes
  <2>2. (\E c \in Byte : a = Status("RCreateTopic", c)) \/ a = Nothing
    BY <1>0, <2>1
  <2>3. "RCreateTopic" \in CodeKinds
    BY DEF CodeKinds
  <2> QED
    BY <2>2, <2>3, ProperAnswers, Zenon
<1>9. CASE m.kind = "DescribeTopic"
  <2>1. a \in {WithData("RDescribeTopic", encode_description(d), d) : d \in Data["RDescribeTopic"]}
    BY <1>9 DEF Outcomes
  <2> QED
    BY <2>1, ProperData, Zenon
<1>10. CASE m.kind = "ListTopics"
  <2>1. a \in {WithData("RListTopics", encode_topics(d), d) : d \in Data["RListTopics"]}
    BY <1>10 DEF Outcomes
  <2> QED
    BY <2>1, ProperData, Zenon
<1>11. CASE m.kind = "GetLag"
  <2>1. a \in {WithData("RGetLag", encode_lags(d), d) : d \in Data["RGetLag"]}
    BY <1>11 DEF Outcomes
  <2> QED
    BY <2>1, ProperData, Zenon
<1>12. CASE m.kind = "Replicate"
  <2>1. a \in {Status("RReplicate", c) : c \in {0, 1}}
    BY <1>12 DEF Outcomes
  <2>2. (\E c \in Byte : a = Status("RReplicate", c))
    BY <1>0, <2>1
  <2>3. "RReplicate" \in CodeKinds
    BY DEF CodeKinds
  <2> QED
    BY <2>2, <2>3, ProperAnswers, Zenon
<1>13. CASE m.kind = "GetCluster"
  <2>1. a \in {WithData("RGetCluster", encode_cluster_info(d), d) : d \in Data["RGetCluster"]}
    BY <1>13 DEF Outcomes
  <2> QED
    BY <2>1, ProperData, Zenon
<1>14. CASE m.kind = "BrokerHeartbeat"
  <2>1. a \in {Status("RBrokerHeartbeat", c) : c \in {0, 1}}
    BY <1>14 DEF Outcomes
  <2>2. (\E c \in Byte : a = Status("RBrokerHeartbeat", c))
    BY <1>0, <2>1
  <2>3. "RBrokerHeartbeat" \in CodeKinds
    BY DEF CodeKinds
  <2> QED
    BY <2>2, <2>3, ProperAnswers, Zenon
<1>15. CASE m.kind = "JoinGroup"
  <2>1. a \in {WithData("RJoinGroup", encode_join_answer(d), d) : d \in Data["RJoinGroup"]}
    BY <1>15 DEF Outcomes
  <2> QED
    BY <2>1, ProperData, Zenon
<1>16. CASE m.kind = "GroupHeartbeat"
  <2>1. a \in {Answer([kind |-> "RGroupHeartbeat", code |-> c, flag |-> f]) : c, f \in {0, 1}}
    BY <1>16 DEF Outcomes
  <2>2. PICK c, f \in {0, 1} :
           a = Answer([kind |-> "RGroupHeartbeat", code |-> c, flag |-> f])
    BY <2>1, SMT
  <2>3. c \in Byte /\ f \in Byte
    BY <1>0
  <2> QED
    BY <2>2, <2>3, ProperAnswers, Zenon
<1>17. CASE m.kind \notin {"Echo", "ProducerRegister", "ConsumerRegister", "Fetch", "Produce",
                        "IdempotentProduce", "CommitOffset", "CreateTopic", "DescribeTopic", "ListTopics", "GetLag",
                        "Replicate", "GetCluster", "BrokerHeartbeat", "JoinGroup", "GroupHeartbeat"}
  <2>1. a = Nothing
    BY <1>17 DEF Outcomes
  <2> QED
    BY <2>1, ProperAnswers, Zenon
<1> QED
  BY <1>1, <1>2, <1>3, <1>4, <1>5, <1>6, <1>7, <1>8, <1>9, <1>10, <1>11, <1>12, <1>13, <1>14,
       <1>15, <1>16, <1>17

(* What dispatch_message answers can be encoded, and carries its data.      *)
LEMMA AnswerGiven ==
    ASSUME NEW s, NEW m, m.kind = "Echo" => m.bytes \in Bytes,
           NEW out \in dispatch_message(s, m), out.answer # Nothing
    PROVE  /\ out.answer.message \in AnswerMessage
           /\ Carries(out.answer.message, out.answer.data)
<1> SUFFICES Proper(out.answer)
  BY Zenon DEF Proper
<1>0. 1 \in Byte /\ 2 \in Byte /\ 3 \in Byte /\ 1 \in U16 /\ 2 \in U16
  <2>1. 1 <= MaxU16 /\ 2 <= MaxU16
    BY SMT DEF MaxU16
  <2> QED
    BY <2>1, Types
<1>1. CASE m.kind = "Handshake"
  <2> DEFINE code == process_handshake(m)
  <2>1. IF code = 0
        THEN out \in {[session |-> Handshaken(s, m), ran |-> FALSE,
                      answer |-> Answer([kind |-> "RHandshake", code |-> 0,
                                         version |-> m.protocol_version])]}
        ELSE out \in {[session |-> s, ran |-> FALSE, answer |-> RError(code)]}
    BY <1>1, Zenon DEF dispatch_message
  <2>2. /\ code \in {0, 1, 2}
        /\ code = 0 => m.protocol_version \in {1, 2}
    BY DEF process_handshake, validate_protocol_version
  <2> HIDE DEF code
  <2>3. CASE code = 0
    <3>1. out.answer = Answer([kind |-> "RHandshake", code |-> 0, version |-> m.protocol_version])
      BY <2>1, <2>3
    <3>2. m.protocol_version \in U16
      BY <1>0, <2>2, <2>3
    <3> QED
      BY <3>1, <3>2, ProperAnswers, Zenon
  <2>4. CASE code # 0
    <3>1. out.answer = RError(code)
      BY <2>1, <2>4
    <3>2. code \in Byte
      BY <1>0, <2>2, <2>4
    <3> QED
      BY <3>1, <3>2, ProperAnswers, Zenon
  <2> QED
    BY <2>3, <2>4
<1>2. CASE m.kind # "Handshake" /\ Blocked(s, m)
  <2>1. out = [session |-> s, ran |-> FALSE, answer |-> RError(1)]
    BY <1>2, Zenon DEF dispatch_message
  <2>2. out.answer = RError(1)
    BY <2>1
  <2> QED
    BY <1>0, <2>2, ProperAnswers, Zenon
<1>3. CASE m.kind # "Handshake" /\ ~ Blocked(s, m) /\ Denied(s, m)
  <2>1. out = [session |-> s, ran |-> FALSE, answer |-> RError(3)]
    BY <1>3, Zenon DEF dispatch_message
  <2>2. out.answer = RError(3)
    BY <2>1
  <2> QED
    BY <1>0, <2>2, ProperAnswers, Zenon
<1>4. CASE m.kind # "Handshake" /\ ~ Blocked(s, m) /\ ~ Denied(s, m)
  <2>1. out \in {[session |-> s, ran |-> TRUE, answer |-> a] : a \in Outcomes(m)}
    BY <1>4, Zenon DEF dispatch_message
  <2>2. PICK a \in Outcomes(m) : out = [session |-> s, ran |-> TRUE, answer |-> a]
    BY <2>1, Zenon
  <2>3. out.answer = a
    BY <2>2
  <2> QED
    BY <2>3, ProperOutcomes, Zenon
<1> QED
  BY <1>1, <1>2, <1>3, <1>4, Zenon

(* What the broker gives to the request it dispatched as e. *)
IsAnswer(a, e) ==
    /\ e.format \in {"V1", "V2"}
    /\ \E id \in Nat, m \in AnswerMessage :
          /\ Word(id) /\ (e.format = "V1" => id = 0)
          /\ a.frame = FrameOf(id, m) /\ e.frame.correlation_id = id
          /\ Carries(m, a.data)

AnswerBytes(g, h) == [j \in DOMAIN g |-> write_frame(g[j].frame, h[j].format)]

(* The first i requests and their answers fit into frames. *)
Fit(s, g, j) == RequestFits(s[j]) /\ AnswerFits(g[j], s[j].format)
FitUpTo(s, g, i) == \A j \in 1 .. i : Fit(s, g, j)

Got(rec, g, s) ==
    \A i \in 1 .. Len(rec) : FitUpTo(s, g, i) => i <= Len(g) /\ rec[i] = g[i].frame

(* Until something that does not fit has been read, what is under way is    *)
(* what the client has still to read of the answers.                        *)
OnTrack(rec, g, h, bytes, whole) ==
    Len(rec) <= Len(g) /\ Aligned(bytes, AnswerBytes(g, h), Len(rec), Len(g), whole)

Garbled(rec, g, s) == \E k \in 1 .. Len(rec) : k <= Len(g) /\ ~ Fit(s, g, k)

AnswersInv ==
    /\ toClient \in Bytes
    /\ \E D : given \in Seq(D)
    /\ \E D : received \in Seq(D)
    /\ Len(given) <= Len(handled)
    /\ open => Len(given) = Len(handled)
    /\ Len(received) <= Len(sent)
    /\ \A j \in 1 .. Len(given) : IsAnswer(given[j], handled[j])
    /\ Got(received, given, sent)
    /\ OnTrack(received, given, handled, toClient, ~ broken) \/ Garbled(received, given, sent)

(* An answer is written as bytes. *)
LEMMA AnswerWritten ==
    ASSUME NEW a, NEW e, IsAnswer(a, e), NEW format
    PROVE  write_frame(a.frame, format) \in Bytes
<1>1. PICK id \in Nat, m \in AnswerMessage : Word(id) /\ a.frame = FrameOf(id, m)
  BY Zenon DEF IsAnswer
<1>2. Survives(m)
  BY AnswersSurvive
<1> QED
  BY <1>1, <1>2, FrameBytes, Zenon

(* The client reads an answer that fits as it was given, or waits for it.   *)
LEMMA AnswerFound ==
    ASSUME NEW a, NEW e, IsAnswer(a, e), AnswerFits(a, e.format), NEW s \in Bytes,
           NEW b, b = write_frame(a.frame, e.format), InFront(s, b),
           NEW found, found = IF e.format = "V1" THEN read_message(s) ELSE read_frame(s),
           found.status = "frame"
    PROVE  Len(b) <= Len(s) /\ found.frame = a.frame /\ found.used = Len(b)
<1>1. PICK id \in Nat, m \in AnswerMessage :
         Word(id) /\ (e.format = "V1" => id = 0) /\ a.frame = FrameOf(id, m)
  BY Zenon DEF IsAnswer
<1> DEFINE format == e.format
<1>2. format \in {"V1", "V2"} /\ a.frame.message = m
  BY <1>1 DEF IsAnswer, FrameOf
<1>3. Fitting(m, format, 255)
  BY <1>2, Zenon DEF AnswerFits, Fitting
<1>4. Survives(m)
  BY AnswersSurvive
<1>5. b = write_frame(FrameOf(id, m), format)
  BY <1>1, Zenon
<1>6. (format = "V1" => id = 0) /\ found = IF format = "V1" THEN read_message(s) ELSE read_frame(s)
  BY <1>1
<1> HIDE DEF format
<1>7. /\ Len(b) <= Len(s) => found = ReadAs(id, m, format, Len(b))
      /\ Len(s) < Len(b) => found = Wait
  BY <1>1, <1>2, <1>3, <1>4, <1>5, <1>6, AnswerRead
<1>8. Len(b) <= Len(s)
  <2>1. found # Wait
    BY DEF Wait
  <2>2. b \in Bytes
    BY AnswerWritten, Zenon
  <2>3. Len(b) \in Nat /\ Len(s) \in Nat
    BY <2>2, HoldsSelf
  <2>4. ~ (Len(s) < Len(b))
    BY <1>7, <2>1, Zenon
  <2> HIDE <1>7, <1>6
  <2> QED
    BY <2>3, <2>4
<1>9. found = ReadAs(id, m, format, Len(b))
  BY <1>7, <1>8, Zenon
<1> QED
  BY <1>1, <1>8, <1>9 DEF ReadAs

(* More requests and more answers change nothing about those received.      *)
LEMMA Kept ==
    ASSUME NEW rec, Len(rec) \in Nat, NEW g, Len(g) \in Nat, NEW s,
           NEW g2, Len(g2) \in Nat, Len(g) <= Len(g2), \A j \in 1 .. Len(g) : g2[j] = g[j],
           NEW s2, \A j \in 1 .. Len(rec) : s2[j] = s[j],
           Got(rec, g, s), Len(rec) <= Len(g) \/ Garbled(rec, g, s)
    PROVE  Got(rec, g2, s2) /\ (Garbled(rec, g, s) => Garbled(rec, g2, s2))
<1>1. ASSUME Garbled(rec, g, s) PROVE Garbled(rec, g2, s2)
  <2>1. PICK k \in 1 .. Len(rec) : k <= Len(g) /\ ~ Fit(s, g, k)
    BY <1>1, Zenon DEF Garbled
  <2>2. k \in 1 .. Len(g) /\ k <= Len(g2)
    BY <2>1
  <2>3. ~ Fit(s2, g2, k)
    BY <2>1, <2>2, Zenon DEF Fit
  <2> QED
    BY <2>2, <2>3, Zenon DEF Garbled
<1>2. ASSUME NEW i \in 1 .. Len(rec), FitUpTo(s2, g2, i)
      PROVE  i <= Len(g2) /\ rec[i] = g2[i].frame
  <2>0. i \in Nat /\ 1 <= i /\ i <= Len(rec)
    OBVIOUS
  <2>1. i <= Len(g)
    <3>1. CASE Len(rec) <= Len(g)
      BY <2>0, <3>1
    <3>2. CASE Garbled(rec, g, s)
      <4>1. PICK k \in 1 .. Len(rec) : k <= Len(g) /\ ~ Fit(s, g, k)
        BY <3>2, Zenon DEF Garbled
      <4>2. k \in 1 .. Len(g) /\ k \in Nat /\ 1 <= k
        BY <4>1
      <4>3. ~ Fit(s2, g2, k)
        BY <4>1, <4>2, Zenon DEF Fit
      <4>4. k \notin 1 .. i
        BY <1>2, <4>3, Zenon DEF FitUpTo
      <4> QED
        BY <2>0, <4>1, <4>2, <4>4
    <3> QED
      BY <3>1, <3>2
  <2>2. \A j \in 1 .. i : j \in 1 .. Len(g) /\ j \in 1 .. Len(rec)
    BY <2>0, <2>1
  <2>3. FitUpTo(s, g, i)
    <3> SUFFICES ASSUME NEW j \in 1 .. i PROVE Fit(s, g, j)
      BY Zenon DEF FitUpTo
    <3>1. g2[j] = g[j] /\ s2[j] = s[j] /\ Fit(s2, g2, j)
      BY <1>2, <2>2, Zenon DEF FitUpTo
    <3> QED
      BY <3>1, Zenon DEF Fit
  <2>4. rec[i] = g[i].frame
    BY <2>3, Zenon DEF Got
  <2>5. i \in 1 .. Len(g) /\ i <= Len(g2)
    BY <2>0, <2>1
  <2> QED
    BY <2>4, <2>5, Zenon
<1> QED
  BY <1>1, <1>2, Zenon DEF Got

(* At first nothing was answered. *)
LEMMA AnswersInit == Init => AnswersInv
<1> SUFFICES ASSUME Init PROVE AnswersInv
  OBVIOUS
<1>1. /\ broken = FALSE /\ toClient = <<>> /\ sent = <<>> /\ handled = <<>>
      /\ given = <<>> /\ received = <<>>
  BY DEF Init
<1>2. /\ given \in Seq({}) /\ Len(given) = 0 /\ received \in Seq({}) /\ Len(received) = 0
      /\ Len(sent) = 0 /\ Len(handled) = 0
      /\ 1 .. 0 = {} /\ toClient \in Bytes /\ 0 <= 0
  BY <1>1, FewBytes
<1>3. OnTrack(received, given, handled, toClient, ~ broken)
  <2>1. Aligned(<<>>, AnswerBytes(given, handled), 0, 0, ~ broken)
    BY AlignedEmpty, Zenon
  <2> QED
    BY <1>1, <1>2, <2>1 DEF OnTrack
<1>4. Got(received, given, sent)
  BY <1>2 DEF Got
<1>5. \A j \in 1 .. Len(given) : IsAnswer(given[j], handled[j])
  BY <1>2
<1> QED
  BY <1>2, <1>3, <1>4, <1>5, Zenon DEF AnswersInv

(* A request more changes nothing about the answers. *)
LEMMA AnswersSend ==
    ASSUME NEW format \in {"V1", "V2"}, SentInv, AnswersInv, Send(format)
    PROVE  AnswersInv'
<1>1. PICK r : sent' = Append(sent, r)
  BY SentSend, Zenon
<1>2. UNCHANGED <<open, broken, toClient, handled, given, received>>
  BY DEF Send
<1>3. PICK E : sent \in Seq(E)
  BY DEF SentInv
<1>4. (\E D : given \in Seq(D)) /\ (\E D : received \in Seq(D))
  BY DEF AnswersInv
<1>5. Len(given) \in Nat /\ Len(received) \in Nat /\ Len(received) <= Len(sent)
  BY <1>4, LenProperties DEF AnswersInv
<1>6. /\ sent \in Seq(E \cup {r}) /\ Len(sent) \in Nat /\ Len(sent') = Len(sent) + 1
      /\ \A i \in 1 .. Len(sent) : sent'[i] = sent[i]
  <2>1. sent \in Seq(E \cup {r}) /\ r \in E \cup {r}
    BY <1>3
  <2> QED
    BY <1>1, <2>1, AppendProperties, LenProperties
<1>7. (\A j \in 1 .. Len(received) : sent'[j] = sent[j]) /\ Len(received) <= Len(sent')
  BY <1>5, <1>6
<1>8. Len(received) <= Len(given) \/ Garbled(received, given, sent)
  BY Zenon DEF AnswersInv, OnTrack
<1>9. Got(received, given, sent)
  BY Zenon DEF AnswersInv
<1>10. Len(given) <= Len(given) /\ \A j \in 1 .. Len(given) : given[j] = given[j]
  BY <1>5
<1>11. /\ Got(received, given, sent')
       /\ Garbled(received, given, sent) => Garbled(received, given, sent')
  BY <1>5, <1>7, <1>8, <1>9, <1>10, Kept, Zenon
<1> QED
  BY <1>2, <1>7, <1>11, Zenon DEF AnswersInv

(* The stream to the client is cut. *)
LEMMA AnswersBreak ==
    ASSUME AnswersInv, Break
    PROVE  AnswersInv'
<1>1. /\ broken' = TRUE /\ toClient' \in Cuts(toClient)
      /\ UNCHANGED <<open, sent, handled, given, received>>
  BY DEF Break
<1>2. toClient \in Bytes
  BY DEF AnswersInv
<1>3. PICK k \in 0 .. Len(toClient) :
         toClient' = SubSeq(toClient, 1, k) /\ toClient' \in Bytes
  BY <1>1, <1>2, CutBytes
<1>4. (\E D : given \in Seq(D)) /\ (\E D : received \in Seq(D))
  BY DEF AnswersInv
<1>5. Len(given) \in Nat /\ Len(received) \in Nat /\ (~ broken') = FALSE
  BY <1>1, <1>4, LenProperties
<1>6. ASSUME OnTrack(received, given, handled, toClient, ~ broken)
      PROVE  OnTrack(received', given', handled', toClient', ~ broken')
  <2>1. /\ Len(received) <= Len(given)
        /\ Aligned(toClient, AnswerBytes(given, handled), Len(received), Len(given), ~ broken)
    BY <1>6, Zenon DEF OnTrack
  <2>2. Aligned(SubSeq(toClient, 1, k), AnswerBytes(given, handled), Len(received), Len(given),
                FALSE)
    BY <1>5, <2>1, AlignedCut, Zenon
  <2> QED
    BY <1>1, <1>3, <1>5, <2>1, <2>2, Zenon DEF OnTrack
<1>7. \/ OnTrack(received', given', handled', toClient', ~ broken')
      \/ Garbled(received', given', sent')
  BY <1>1, <1>6, Zenon DEF AnswersInv
<1> QED
  BY <1>1, <1>3, <1>7, Zenon DEF AnswersInv

(* Only the writes that are under way matter. *)
LEMMA AlignedSame ==
    ASSUME NEW s, NEW B, NEW h \in Nat, NEW n \in Nat, NEW whole, Aligned(s, B, h, n, whole),
           NEW C, \A i \in h + 1 .. n : C[i] = B[i]
    PROVE  Aligned(s, C, h, n, whole)
<1>1. PICK at : Placed(at, s, B, h, n, whole)
  BY Zenon DEF Aligned
<1>2. Placed(at, s, C, h, n, whole)
  <2>1. \A i \in h + 1 .. n : C[i] \in Bytes /\ at[i + 1] = at[i] + Len(C[i])
    BY <1>1, Zenon DEF Placed
  <2>2. \A i \in h + 1 .. n : \A j \in 1 .. Len(C[i]) :
          at[i] + j <= Len(s) => s[at[i] + j] = C[i][j]
    BY <1>1, ZenonT(60) DEF Placed
  <2> QED
    BY <1>1, <2>1, <2>2, Zenon DEF Placed
<1> QED
  BY <1>2, Zenon DEF Aligned

(* One round of the broker: it answers what it read, or ends.               *)
LEMMA ServeAnswers ==
    ASSUME SentInv, ArrivesInv, Serve
    PROVE  \E e : /\ handled' = Append(handled, e)
                  /\ \/ /\ given' = given /\ toClient' = toClient /\ open' = FALSE
                     \/ \E a : /\ IsAnswer(a, e) /\ broken = FALSE
                               /\ given' = Append(given, a)
                               /\ toClient' = toClient \o write_frame(a.frame, e.format)
<1> DEFINE next == read_frame(toBroker)
           s    == [session EXCEPT !.wire_format = next.format]
<1>1. PICK out \in dispatch_message(s, next.frame.message) :
         LET written == out.answer # Nothing /\ ~ broken
             frame   == [correlation_id |-> next.frame.correlation_id,
                         message |-> out.answer.message]
         IN
         /\ handled' = Append(handled, [frame |-> next.frame, format |-> next.format,
                                        ran |-> out.ran])
         /\ open' = (written /\ Continues(out.session, next.frame.message))
         /\ given' = IF written THEN Append(given, [frame |-> frame, data |-> out.answer.data])
                     ELSE given
         /\ toClient' = IF written THEN toClient \o write_frame(frame, next.format)
                        ELSE toClient
  BY Zenon DEF Serve
<1>2. next.status = "frame" /\ toBroker \in Bytes /\ broken \in BOOLEAN
  BY Zenon DEF Serve, ArrivesInv
<1>3. IsRead(next, toBroker)
  BY <1>2, ReadFrame, Zenon
<1>4. PICK id, m, format, used :
         /\ next = ReadAs(id, m, format, used) /\ Word(id) /\ format \in {"V1", "V2"}
         /\ format = "V1" => id = 0
         /\ m.kind = "Echo" => m.bytes \in Bytes
  BY <1>3, Zenon DEF IsRead
<1>5. next.frame = FrameOf(id, m) /\ next.format = format
  BY <1>4 DEF ReadAs
<1>6. next.frame.message = m /\ next.frame.correlation_id = id
  BY <1>5 DEF FrameOf
<1> HIDE DEF next, s
<1> DEFINE e == [frame |-> next.frame, format |-> next.format, ran |-> out.ran]
           a == [frame |-> FrameOf(id, out.answer.message), data |-> out.answer.data]
<1>7. e.frame.correlation_id = id /\ e.format = format /\ handled' = Append(handled, e)
  BY <1>1, <1>5, <1>6
<1>8. CASE out.answer # Nothing /\ ~ broken
  <2>1. out.answer.message \in AnswerMessage /\ Carries(out.answer.message, out.answer.data)
    BY <1>4, <1>6, <1>8, AnswerGiven, Zenon
  <2>2. a.frame = FrameOf(id, out.answer.message) /\ a.data = out.answer.data
    OBVIOUS
  <2>3. /\ given' = Append(given, a)
        /\ toClient' = toClient \o write_frame(FrameOf(id, out.answer.message), format)
    BY <1>1, <1>5, <1>6, <1>8, Zenon DEF FrameOf
  <2> HIDE DEF e, a
  <2>4. IsAnswer(a, e)
    <3>1. id \in Nat
      BY <1>4 DEF Word
    <3> QED
      BY <1>4, <1>7, <2>1, <2>2, <3>1, Zenon DEF IsAnswer
  <2>5. broken = FALSE
    BY <1>2, <1>8
  <2> QED
    BY <1>7, <2>2, <2>3, <2>4, <2>5, Zenon
<1>9. CASE ~ (out.answer # Nothing /\ ~ broken)
  <2>1. given' = given /\ toClient' = toClient /\ open' = FALSE
    BY <1>1, <1>9, Zenon
  <2> HIDE DEF e
  <2> QED
    BY <1>7, <2>1, Zenon
<1> QED
  BY <1>8, <1>9

(* The bytes of the j-th answer. *)
LEMMA AnswerBytesOf ==
    ASSUME NEW D, NEW g \in Seq(D), NEW h, NEW j \in 1 .. Len(g)
    PROVE  AnswerBytes(g, h)[j] = write_frame(g[j].frame, h[j].format)
BY DEF AnswerBytes

(* The broker answers, or ends. *)
LEMMA AnswersServe ==
    ASSUME SentInv, ArrivesInv, AnswersInv, Serve
    PROVE  AnswersInv'
<1> DEFINE h == Len(handled)
           g == Len(given)
           r == Len(received)
<1>1. PICK e : /\ handled' = Append(handled, e)
               /\ \/ /\ given' = given /\ toClient' = toClient /\ open' = FALSE
                  \/ \E a : /\ IsAnswer(a, e) /\ broken = FALSE
                            /\ given' = Append(given, a)
                            /\ toClient' = toClient \o write_frame(a.frame, e.format)
  BY ServeAnswers, Zenon
<1>2. open /\ UNCHANGED <<broken, sent, received>>
  BY DEF Serve
<1>3. PICK D : handled \in Seq(D)
  BY DEF ArrivesInv
<1>4. PICK E : given \in Seq(E)
  BY DEF AnswersInv
<1>5. PICK F : received \in Seq(F)
  BY DEF AnswersInv
<1>6. /\ handled' \in Seq(D \cup {e}) /\ Len(handled') = h + 1 /\ handled'[h + 1] = e
      /\ \A i \in 1 .. h : handled'[i] = handled[i]
      /\ h \in Nat /\ g \in Nat /\ r \in Nat
  <2>1. handled \in Seq(D \cup {e}) /\ e \in D \cup {e}
    BY <1>3
  <2> QED
    BY <1>1, <1>4, <1>5, <2>1, AppendProperties, LenProperties
<1>7. g = h /\ r <= Len(sent) /\ toClient \in Bytes
  BY <1>2 DEF AnswersInv
<1>8. /\ \A j \in 1 .. g : IsAnswer(given[j], handled[j])
      /\ Got(received, given, sent)
      /\ OnTrack(received, given, handled, toClient, ~ broken) \/ Garbled(received, given, sent)
  BY Zenon DEF AnswersInv
<1>9. \A j \in 1 .. g : handled'[j] = handled[j]
  BY <1>6, <1>7
<1>10. r <= g \/ Garbled(received, given, sent)
  BY <1>8, Zenon DEF OnTrack
<1>11. \A B \in {AnswerBytes(given, handled')} : \A j \in r + 1 .. g :
          B[j] = AnswerBytes(given, handled)[j]
  <2> SUFFICES ASSUME NEW j \in r + 1 .. g
               PROVE  AnswerBytes(given, handled')[j] = AnswerBytes(given, handled)[j]
    OBVIOUS
  <2>1. j \in 1 .. g
    BY <1>6
  <2>2. AnswerBytes(given, handled')[j] = write_frame(given[j].frame, handled'[j].format)
    BY <1>4, <2>1, AnswerBytesOf
  <2>3. AnswerBytes(given, handled)[j] = write_frame(given[j].frame, handled[j].format)
    BY <1>4, <2>1, AnswerBytesOf
  <2> QED
    BY <1>9, <2>1, <2>2, <2>3, Zenon
(* Nothing is written, and the task ends. *)
<1>12. CASE given' = given /\ toClient' = toClient /\ open' = FALSE
  <2>1. Len(given') <= Len(handled') /\ (open' => Len(given') = Len(handled'))
    BY <1>6, <1>7, <1>12
  <2>2. \A j \in 1 .. Len(given') : IsAnswer(given'[j], handled'[j])
    BY <1>8, <1>9, <1>12, Zenon
  <2>3. ASSUME OnTrack(received, given, handled, toClient, ~ broken)
        PROVE  OnTrack(received', given', handled', toClient', ~ broken')
    <3>1. r <= g /\ Aligned(toClient, AnswerBytes(given, handled), r, g, ~ broken)
      BY <2>3, Zenon DEF OnTrack
    <3>2. Aligned(toClient, AnswerBytes(given, handled'), r, g, ~ broken)
      BY <1>6, <1>11, <3>1, AlignedSame, Zenon
    <3> QED
      BY <1>2, <1>12, <3>1, <3>2, Zenon DEF OnTrack
  <2> QED
    BY <1>2, <1>4, <1>5, <1>7, <1>8, <1>12, <2>1, <2>2, <2>3, Zenon DEF AnswersInv
(* An answer is written. *)
<1>13. ASSUME NEW a, IsAnswer(a, e), broken = FALSE, given' = Append(given, a),
              toClient' = toClient \o write_frame(a.frame, e.format)
       PROVE  AnswersInv'
  <2> DEFINE b == write_frame(a.frame, e.format)
  <2>1. b \in Bytes
    BY <1>13, AnswerWritten, Zenon
  <2>2. /\ given' \in Seq(E \cup {a}) /\ Len(given') = g + 1 /\ given'[g + 1] = a
        /\ \A i \in 1 .. g : given'[i] = given[i]
    <3>1. given \in Seq(E \cup {a}) /\ a \in E \cup {a}
      BY <1>4
    <3> QED
      BY <1>13, <3>1, AppendProperties
  <2>3. toClient' = toClient \o b
    BY <1>13
  <2> HIDE DEF b
  <2>4. toClient' \in Bytes
    BY <1>7, <2>1, <2>3, Cat2, Zenon
  <2>5. Len(given') <= Len(handled') /\ Len(given') = Len(handled')
    BY <1>6, <1>7, <2>2
  <2>6. \A j \in 1 .. Len(given') : IsAnswer(given'[j], handled'[j])
    <3>1. \A j \in 1 .. g + 1 : j \in 1 .. g \/ j = g + 1
      BY <1>6
    <3>2. handled'[g + 1] = e
      BY <1>6, <1>7
    <3> QED
      BY <1>8, <1>9, <1>13, <2>2, <3>1, <3>2, Zenon
  <2>7. /\ Got(received, given', sent)
        /\ Garbled(received, given, sent) => Garbled(received, given', sent)
    <3>1. Len(given') \in Nat /\ g <= Len(given')
      BY <1>6, <2>2
    <3>2. \A j \in 1 .. r : sent[j] = sent[j]
      OBVIOUS
    <3> QED
      BY <1>6, <1>8, <1>10, <2>2, <3>1, <3>2, Kept, Zenon
  <2>8. ASSUME OnTrack(received, given, handled, toClient, ~ broken)
        PROVE  OnTrack(received', given', handled', toClient', ~ broken')
    <3>1. r <= g /\ Aligned(toClient, AnswerBytes(given, handled), r, g, ~ broken)
      BY <2>8, Zenon DEF OnTrack
    <3>2. Aligned(toClient, AnswerBytes(given, handled), r, g, TRUE)
      BY <1>13, <3>1
    <3>3. \A i \in r + 1 .. g : AnswerBytes(given', handled')[i] = AnswerBytes(given, handled)[i]
      <4> SUFFICES ASSUME NEW i \in r + 1 .. g
                   PROVE  AnswerBytes(given', handled')[i] = AnswerBytes(given, handled)[i]
        OBVIOUS
      <4>1. i \in 1 .. g /\ i \in 1 .. g + 1
        BY <1>6
      <4>2. AnswerBytes(given', handled')[i] = write_frame(given'[i].frame, handled'[i].format)
        BY <2>2, <4>1, AnswerBytesOf
      <4>3. AnswerBytes(given, handled)[i] = write_frame(given[i].frame, handled[i].format)
        BY <1>4, <4>1, AnswerBytesOf
      <4> QED
        BY <1>9, <2>2, <4>1, <4>2, <4>3, Zenon
    <3>4. AnswerBytes(given', handled')[g + 1] = b
      <4>1. g + 1 \in 1 .. g + 1
        BY <1>6
      <4>2. AnswerBytes(given', handled')[g + 1] =
               write_frame(given'[g + 1].frame, handled'[g + 1].format)
        BY <2>2, <4>1, AnswerBytesOf
      <4> QED
        BY <1>6, <1>7, <2>2, <4>2, Zenon DEF b
    <3>5. Aligned(toClient \o b, AnswerBytes(given', handled'), r, g + 1, TRUE)
      <4> HIDE DEF r, g
      <4> QED
        BY <1>6, <2>1, <3>1, <3>2, <3>3, <3>4, AlignedWrite
    <3>6. r <= g + 1 /\ (~ broken') = TRUE
      BY <1>2, <1>6, <1>13, <3>1
    <3> QED
      BY <1>2, <2>2, <2>3, <3>5, <3>6, Zenon DEF OnTrack
  <2>9. \E S : given' \in Seq(S)
    BY <2>2, Zenon
  <2> QED
    BY <1>2, <1>5, <1>7, <1>8, <2>4, <2>5, <2>6, <2>7, <2>8, <2>9, Zenon DEF AnswersInv
<1> QED
  BY <1>1, <1>12, <1>13, Zenon

(* The client reads an answer. *)
LEMMA AnswersReceive ==
    ASSUME SentInv, ArrivesInv, AnswersInv, Receive
    PROVE  AnswersInv'
<1> DEFINE g    == Len(given)
           r    == Len(received)
           next == IF sent[r + 1].format = "V1" THEN read_message(toClient)
                   ELSE read_frame(toClient)
<1>1. /\ r < Len(sent) /\ next.status = "frame"
      /\ toClient' = From(toClient, next.used) /\ received' = Append(received, next.frame)
  <2>1. r < Len(sent)
    BY DEF Receive
  <2>2. PICK x \in {next} :
           /\ x.status = "frame"
           /\ toClient' = From(toClient, x.used) /\ received' = Append(received, x.frame)
    BY DEF Receive
  <2>3. x = next
    BY <2>2, Zenon
  <2> QED
    BY <2>1, <2>2, <2>3, Zenon
<1>2. UNCHANGED <<open, broken, sent, handled, given>>
  BY DEF Receive
<1>3. PICK D : handled \in Seq(D)
  BY DEF ArrivesInv
<1>4. PICK E : given \in Seq(E)
  BY DEF AnswersInv
<1>5. PICK F : received \in Seq(F)
  BY DEF AnswersInv
<1>6. PICK G : sent \in Seq(G)
  BY DEF SentInv
<1>7. /\ toClient \in Bytes /\ g <= Len(handled)
      /\ \A j \in 1 .. g : IsAnswer(given[j], handled[j])
      /\ Got(received, given, sent)
      /\ OnTrack(received, given, handled, toClient, ~ broken) \/ Garbled(received, given, sent)
  BY Zenon DEF AnswersInv
<1>8. toClient' \in Bytes
  <2>1. IsRead(next, toClient)
    BY <1>1, <1>7, ReadFrame, ReadMessage, Zenon
  <2>2. PICK id, m, format, used :
           next = ReadAs(id, m, format, used) /\ used \in Nat /\ used <= Len(toClient)
    BY <2>1, Zenon DEF IsRead
  <2>3. next.used = used
    BY <2>2 DEF ReadAs
  <2> QED
    BY <1>1, <1>7, <2>2, <2>3, FromBytes, Zenon
<1>9. next = IF sent[r + 1].format = "V1" THEN read_message(toClient) ELSE read_frame(toClient)
  BY Zenon
<1> HIDE DEF next
<1>10. /\ received' \in Seq(F \cup {next.frame}) /\ Len(received') = r + 1
       /\ received'[r + 1] = next.frame
       /\ \A i \in 1 .. r : received'[i] = received[i]
       /\ g \in Nat /\ r \in Nat /\ Len(handled) \in Nat /\ Len(sent) \in Nat
  <2>1. received \in Seq(F \cup {next.frame}) /\ next.frame \in F \cup {next.frame}
    BY <1>5
  <2> QED
    BY <1>1, <1>3, <1>4, <1>6, <2>1, AppendProperties, LenProperties
<1>11. /\ \A i \in 1 .. r + 1 : i \in 1 .. r \/ i = r + 1
       /\ r + 1 \in 1 .. r + 1 /\ r + 1 <= Len(sent)
       /\ \A i \in 1 .. r : i \in 1 .. r + 1
  BY <1>1, <1>10
<1> HIDE DEF g, r
(* There is no answer under way: there is nothing to read. *)
<1>12. ASSUME OnTrack(received, given, handled, toClient, ~ broken)
       PROVE  r < g
  <2>1. r <= g /\ Aligned(toClient, AnswerBytes(given, handled), r, g, ~ broken)
    BY <1>12, Zenon DEF OnTrack, r, g
  <2>2. ASSUME r = g PROVE FALSE
    <3>1. toClient = <<>>
      BY <1>10, <2>1, <2>2, AlignedDone, Zenon
    <3>2. next = Wait
      BY <1>9, <3>1, Zenon DEF read_frame, read_message
    <3> QED
      BY <1>1, <3>2 DEF Wait
  <2> QED
    BY <1>10, <2>1, <2>2
(* Request and answer fit: it is read as it was given. *)
<1>13. ASSUME OnTrack(received, given, handled, toClient, ~ broken), FitUpTo(sent, given, r + 1)
       PROVE  /\ OnTrack(received', given', handled', toClient', ~ broken')
              /\ next.frame = given[r + 1].frame
  <2> DEFINE B == AnswerBytes(given, handled)
             a == given[r + 1]
             e == handled[r + 1]
             b == write_frame(a.frame, e.format)
  <2>1. r < g
    BY <1>12, <1>13, Zenon
  <2>2. r + 1 \in 1 .. g /\ r + 1 <= g /\ r + 1 \in 1 .. Len(handled)
    BY <1>7, <1>10, <2>1
  <2>3. B[r + 1] = b
    BY <1>4, <2>2, AnswerBytesOf DEF g
  <2>4. IsAnswer(a, e)
    BY <1>7, <2>2, Zenon
  <2>5. Aligned(toClient, B, r, g, ~ broken)
    BY <1>13, Zenon DEF OnTrack, r, g
  <2>6. e.format = sent[r + 1].format
    <3>1. AllFit(sent, r + 1)
      BY <1>13, Zenon DEF FitUpTo, Fit, AllFit
    <3> QED
      BY <1>11, <2>2, <3>1, Zenon DEF ArrivesInv, MatchUpTo
  <2>7. AnswerFits(a, e.format)
    BY <1>11, <1>13, <2>6, Zenon DEF FitUpTo, Fit
  <2>8. next = IF e.format = "V1" THEN read_message(toClient) ELSE read_frame(toClient)
    BY <1>9, <2>6, Zenon
  <2> HIDE DEF B, a, e
  <2>9. InFront(toClient, b)
    BY <1>10, <2>1, <2>3, <2>5, AlignedFront
  <2>10. b = write_frame(a.frame, e.format)
    OBVIOUS
  <2> HIDE DEF b
  <2>11. Len(b) <= Len(toClient) /\ next.frame = a.frame /\ next.used = Len(b)
    <3>1. toClient \in Bytes /\ next.status = "frame"
      BY <1>1, <1>7, Zenon
    <3> QED
      BY <2>4, <2>7, <2>8, <2>9, <2>10, <3>1, AnswerFound
  <2>12. Aligned(From(toClient, Len(b)), B, r + 1, g, ~ broken)
    BY <1>10, <2>1, <2>3, <2>5, <2>11, AlignedRead
  <2>13. OnTrack(received', given', handled', toClient', ~ broken')
    BY <1>1, <1>2, <1>10, <2>2, <2>11, <2>12, Zenon DEF OnTrack, g, B
  <2> QED
    BY <2>11, <2>13, Zenon DEF a
(* Something does not fit: from now on anything may be read. *)
<1>14. ASSUME OnTrack(received, given, handled, toClient, ~ broken),
              ~ FitUpTo(sent, given, r + 1)
       PROVE  Garbled(received', given', sent')
  <2>1. PICK k \in 1 .. r + 1 : ~ Fit(sent, given, k)
    BY <1>14, Zenon DEF FitUpTo
  <2>2. r < g
    BY <1>12, <1>14, Zenon
  <2>3. k <= g
    BY <1>10, <2>2
  <2> QED
    BY <1>2, <1>10, <2>1, <2>3, Zenon DEF Garbled, g
<1>15. ASSUME Garbled(received, given, sent)
       PROVE  Garbled(received', given', sent') /\ ~ FitUpTo(sent, given, r + 1)
  <2>1. PICK k \in 1 .. r : k <= g /\ ~ Fit(sent, given, k)
    BY <1>15, Zenon DEF Garbled, r, g
  <2> QED
    BY <1>2, <1>10, <1>11, <2>1, Zenon DEF Garbled, FitUpTo, g
<1>16. FitUpTo(sent, given, r + 1) => r + 1 <= g /\ next.frame = given[r + 1].frame
  <2>1. r < g => r + 1 <= g
    BY <1>10
  <2> QED
    BY <1>7, <1>12, <1>13, <1>15, <2>1, Zenon
<1>17. Got(received', given', sent')
  BY <1>2, <1>7, <1>10, <1>11, <1>16, Zenon DEF Got, g, r
<1>18. \/ OnTrack(received', given', handled', toClient', ~ broken')
       \/ Garbled(received', given', sent')
  BY <1>7, <1>13, <1>14, <1>15, Zenon
<1>19. \E S : received' \in Seq(S)
  BY <1>10, Zenon
<1> QED
  BY <1>2, <1>8, <1>10, <1>11, <1>17, <1>18, <1>19, Zenon DEF AnswersInv

(* What is behind a front. *)
LEMMA Behind ==
    ASSUME NEW x \in Bytes, NEW c \in Bytes
    PROVE  /\ x \o c \in Bytes /\ Len(x \o c) = Len(x) + Len(c)
           /\ Holds(x \o c, 0, x) /\ From(x \o c, Len(x)) = c
<1> DEFINE p == x \o c
<1>1. p \in Bytes /\ Len(p) = Len(x) + Len(c) /\ Len(x) \in Nat
  BY Cat2, HoldsSelf
<1>2. Holds(p, 0, p)
  BY <1>1, HoldsSelf, Zenon
<1>3. Holds(p, 0, x \o c) /\ 0 \in Nat
  BY <1>2
<1> HIDE DEF p
<1>4. Holds(p, 0, x) /\ Holds(p, 0 + Len(x), c)
  BY <1>1, <1>3, Holds2, Zenon
<1>5. 0 + Len(x) = Len(x)
  BY <1>1
<1>6. From(p, Len(x)) = c
  BY <1>1, <1>4, <1>5, HoldsFrom, Zenon
<1> QED
  BY <1>1, <1>4, <1>6, Zenon DEF p

(* A list that fits into a frame is read as it was written. *)
LEMMA RecordsFound ==
    ASSUME NEW d \in Seq(Records), NEW b, b = encode_records(d), Len(b) <= MaxU16
    PROVE  decode_records(b).item = d
<1>1. /\ b \in Bytes /\ Len(b) \in Nat /\ Len(d) \in Nat /\ Len(d) <= Len(b)
      /\ \A i \in 1 .. Len(d) : Len(encode_record(d[i])) <= Len(b)
  BY RecordListWritten DEF Records
<1>2. \A x \in Nat : x <= Len(b) => x <= MaxU16
  BY <1>1, Types
<1>3. Len(d) \in U16
  BY <1>1, <1>2, Types, Zenon
<1>4. \A i \in 1 .. Len(d) : Len(encode_record(d[i])) \in Nat
  <2> SUFFICES ASSUME NEW i \in 1 .. Len(d) PROVE Len(encode_record(d[i])) \in Nat
    OBVIOUS
  <2>1. d[i] \in Records
    BY ElementOfSeq
  <2>2. encode_record(d[i]) \in Bytes
    BY <2>1, RecordRead, Zenon DEF Records
  <2> QED
    BY <2>2, HoldsSelf, Zenon
<1>5. \A i \in 1 .. Len(d) : Len(encode_record(d[i])) <= MaxU16
  BY <1>1, <1>2, <1>4, Zenon
<1>6. Holds(b, 0, b)
  BY <1>1, HoldsSelf, Zenon
<1>7. ReadsAs(decode_records(b), 0, b, d)
  BY <1>1, <1>3, <1>5, <1>6, RecordListRead, Zenon DEF Records
<1> QED
  BY <1>7 DEF ReadsAs

(* The same of topic ids, ... *)
LEMMA U16sFound ==
    ASSUME NEW d \in Seq(U16), NEW b, b = encode_topics(d), Len(b) <= MaxU16
    PROVE  decode_topics(b).item = d
<1>1. /\ b \in Bytes /\ Len(b) \in Nat /\ Len(d) \in Nat /\ Len(d) <= Len(b)
      /\ \A i \in 1 .. Len(d) : Len(PutU16(d[i])) <= Len(b)
  BY U16ListWritten, Zenon DEF encode_topics
<1>2. \A x \in Nat : x <= Len(b) => x <= MaxU16
  BY <1>1, Types
<1>3. Len(d) \in U16
  BY <1>1, <1>2, Types, Zenon
<1>4. \A i \in 1 .. Len(d) : Len(PutU16(d[i])) \in Nat
  <2> SUFFICES ASSUME NEW i \in 1 .. Len(d) PROVE Len(PutU16(d[i])) \in Nat
    OBVIOUS
  <2>1. d[i] \in U16
    BY ElementOfSeq
  <2>2. PutU16(d[i]) \in Bytes
    BY <2>1, U16Read, Zenon
  <2> QED
    BY <2>2, HoldsSelf, Zenon
<1>5. \A i \in 1 .. Len(d) : Len(PutU16(d[i])) <= MaxU16
  BY <1>1, <1>2, <1>4, Zenon
<1>6. Holds(b, 0, b)
  BY <1>1, HoldsSelf, Zenon
<1>7. ReadsAs(decode_topics(b), 0, b, d)
  BY 0 \in Nat, <1>1, <1>3, <1>5, <1>6, U16ListRead, Zenon DEF encode_topics, decode_topics
<1> QED
  BY <1>7 DEF ReadsAs

(* ... of descriptions, ... *)
LEMMA PartitionsFound ==
    ASSUME NEW d \in Seq(Descriptions), NEW b, b = encode_description(d), Len(b) <= MaxU16
    PROVE  decode_description(b).item = d
<1>1. /\ b \in Bytes /\ Len(b) \in Nat /\ Len(d) \in Nat /\ Len(d) <= Len(b)
      /\ \A i \in 1 .. Len(d) : Len(encode_partition(d[i])) <= Len(b)
  BY PartitionListWritten DEF Descriptions
<1>2. \A x \in Nat : x <= Len(b) => x <= MaxU16
  BY <1>1, Types
<1>3. Len(d) \in U16
  BY <1>1, <1>2, Types, Zenon
<1>4. \A i \in 1 .. Len(d) : Len(encode_partition(d[i])) \in Nat
  <2> SUFFICES ASSUME NEW i \in 1 .. Len(d) PROVE Len(encode_partition(d[i])) \in Nat
    OBVIOUS
  <2>1. d[i] \in Descriptions
    BY ElementOfSeq
  <2>2. encode_partition(d[i]) \in Bytes
    BY <2>1, PartitionRead, Zenon DEF Descriptions
  <2> QED
    BY <2>2, HoldsSelf, Zenon
<1>5. \A i \in 1 .. Len(d) : Len(encode_partition(d[i])) <= MaxU16
  BY <1>1, <1>2, <1>4, Zenon
<1>6. Holds(b, 0, b)
  BY <1>1, HoldsSelf, Zenon
<1>7. ReadsAs(decode_description(b), 0, b, d)
  BY <1>1, <1>3, <1>5, <1>6, PartitionListRead, Zenon DEF Descriptions
<1> QED
  BY <1>7 DEF ReadsAs

(* ... and of lags. *)
LEMMA LagsFound ==
    ASSUME NEW d \in Seq(Lags), NEW b, b = encode_lags(d), Len(b) <= MaxU16
    PROVE  decode_lags(b).item = d
<1>1. /\ b \in Bytes /\ Len(b) \in Nat /\ Len(d) \in Nat /\ Len(d) <= Len(b)
      /\ \A i \in 1 .. Len(d) : Len(encode_lag(d[i])) <= Len(b)
  BY LagListWritten DEF Lags
<1>2. \A x \in Nat : x <= Len(b) => x <= MaxU16
  BY <1>1, Types
<1>3. Len(d) \in U16
  BY <1>1, <1>2, Types, Zenon
<1>4. \A i \in 1 .. Len(d) : Len(encode_lag(d[i])) \in Nat
  <2> SUFFICES ASSUME NEW i \in 1 .. Len(d) PROVE Len(encode_lag(d[i])) \in Nat
    OBVIOUS
  <2>1. d[i] \in Lags
    BY ElementOfSeq
  <2>2. encode_lag(d[i]) \in Bytes
    BY <2>1, LagRead, Zenon DEF Lags
  <2> QED
    BY <2>2, HoldsSelf, Zenon
<1>5. \A i \in 1 .. Len(d) : Len(encode_lag(d[i])) <= MaxU16
  BY <1>1, <1>2, <1>4, Zenon
<1>6. Holds(b, 0, b)
  BY <1>1, HoldsSelf, Zenon
<1>7. ReadsAs(decode_lags(b), 0, b, d)
  BY <1>1, <1>3, <1>5, <1>6, LagListRead, Zenon DEF Lags
<1> QED
  BY <1>7 DEF ReadsAs

(* A batch is read behind the byte that names its codec. *)
LEMMA FetchFound ==
    ASSUME NEW d \in Seq(Records), NEW b, b = encode_fetch_answer(d), Len(b) <= MaxU16
    PROVE  decode_records(unwrap_batch(b)).item = d
<1> DEFINE x == <<CODEC_NONE>>
           c == encode_records(d)
<1>1. x \in Bytes /\ c \in Bytes /\ b = x \o c
  BY FetchBytes, Zenon
<1>2. Len(x) = 1 /\ x[1] = CODEC_NONE
  OBVIOUS
<1> HIDE DEF x, c
<1>3. b \in Bytes /\ Len(b) = 1 + Len(c) /\ Holds(b, 0, x) /\ From(b, 1) = c
  BY <1>1, <1>2, Behind
<1>4. b # <<>> /\ b[1] = CODEC_NONE /\ Len(c) <= MaxU16
  <2>1. Len(c) \in Nat /\ Len(b) \in Nat /\ MaxU16 \in Nat
    BY <1>1, <1>3, HoldsSelf, Types
  <2>2. Len(b) # 0 /\ Len(c) <= MaxU16
    BY <1>3, <2>1
  <2>3. b # <<>>
    BY <2>2
  <2>4. b[0 + 1] = x[1] /\ 0 + 1 = 1
    <3>1. 1 \in 1 .. Len(x)
      BY <1>2
    <3> QED
      BY <1>3, <3>1 DEF Holds
  <2> QED
    BY <1>2, <2>2, <2>3, <2>4, Zenon
<1>5. unwrap_batch(b) = c
  BY <1>3, <1>4, Zenon DEF unwrap_batch
<1>6. decode_records(c).item = d
  BY <1>4, RecordsFound DEF c
<1> QED
  BY <1>5, <1>6, Zenon

(* The readers find the data in an answer that fits. *)
LEMMA DataFound ==
    ASSUME NEW m, NEW d, Carries(m, d), m.kind \in HaveReaders, Len(m.bytes) <= MaxU16
    PROVE  DataIn(m) = d
<1>1. CASE m.kind = "RFetch"
  <2>1. d \in Seq(Records) /\ m.bytes = encode_fetch_answer(d)
    BY <1>1 DEF Carries
  <2>2. decode_records(unwrap_batch(m.bytes)).item = d
    BY <2>1, FetchFound, Zenon
  <2> QED
    BY <1>1, <2>2 DEF DataIn
<1>2. CASE m.kind = "RListTopics"
  <2>1. d \in Seq(U16) /\ m.bytes = encode_topics(d)
    BY <1>2 DEF Carries
  <2>2. decode_topics(m.bytes).item = d
    BY <2>1, U16sFound, Zenon
  <2> QED
    BY <1>2, <2>2 DEF DataIn
<1>3. CASE m.kind = "RDescribeTopic"
  <2>1. d \in Seq(Descriptions) /\ m.bytes = encode_description(d)
    BY <1>3 DEF Carries
  <2>2. decode_description(m.bytes).item = d
    BY <2>1, PartitionsFound, Zenon
  <2> QED
    BY <1>3, <2>2 DEF DataIn
<1>4. CASE m.kind = "RGetLag"
  <2>1. d \in Seq(Lags) /\ m.bytes = encode_lags(d)
    BY <1>4 DEF Carries
  <2>2. decode_lags(m.bytes).item = d
    BY <2>1, LagsFound, Zenon
  <2> QED
    BY <1>4, <2>2 DEF DataIn
<1> QED
  BY <1>1, <1>2, <1>3, <1>4 DEF HaveReaders

(* An answer that fits has a payload that a u16 can count. *)
LEMMA BytesFit ==
    ASSUME NEW m \in AnswerMessage,
           m.kind \in {"RFetch", "RListTopics", "RDescribeTopic", "RGetLag", "RGetCluster"},
           NEW format, Fitting(m, format, 255)
    PROVE  m.bytes \in Bytes /\ Len(m.bytes) <= MaxU16
<1>1. m = [kind |-> m.kind, bytes |-> m.bytes] /\ m.bytes \in Bytes
  BY DEF AnswerMessage
<1>2. m.kind \in OfBytes /\ m.kind \in RequestKinds \cup AnswerKinds
  BY DEF OfBytes, AnswerKinds
<1>3. Sendable(m) /\ PayloadOf(m) = m.bytes
  BY <1>1, <1>2, PayloadOfKind, KnownTypes, SentMessage, Zenon
<1>4. Len(encode_message(m)) = 1 + Len(m.bytes) /\ Len(m.bytes) \in Nat
  BY <1>3, Zenon DEF Sendable
<1>5. Survives(m)
  BY AnswersSurvive
<1>6. LongestV2 <= MaxU16 /\ 255 <= MaxU16
  BY <1>5, Lengths, Zenon
<1>7. LongestV2 \in Nat /\ MaxU16 \in Nat
  BY SMT DEF LongestV2, MaxU16
<1>8. Len(encode_message(m)) <= 255 \/ Len(encode_message(m)) <= LongestV2
  BY Zenon DEF Fitting
<1> HIDE DEF Fitting
<1> QED
  BY <1>1, <1>4, <1>6, <1>7, <1>8, SMT

(* What the client has received, when all of it fits. *)
LEMMA ReceivedAnswer ==
    ASSUME SentInv, ArrivesInv, AnswersInv, NEW i \in DOMAIN received, FitsUpTo(i),
           \A j \in 1 .. i : AnswerFits(given[j], sent[j].format)
    PROVE  \E m \in AnswerMessage :
              /\ received[i] = given[i].frame /\ received[i].message = m
              /\ received[i].correlation_id = sent[i].frame.correlation_id
              /\ Carries(m, given[i].data) /\ Fitting(m, sent[i].format, 255)
<1>1. PICK E : given \in Seq(E)
  BY DEF AnswersInv
<1>2. PICK F : received \in Seq(F)
  BY DEF AnswersInv
<1>3. PICK D : handled \in Seq(D)
  BY DEF ArrivesInv
<1>4. PICK G : sent \in Seq(G)
  BY DEF SentInv
<1>5. /\ i \in 1 .. Len(received) /\ Len(received) \in Nat /\ Len(given) \in Nat
      /\ Len(handled) \in Nat /\ Len(sent) \in Nat
  BY <1>1, <1>2, <1>3, <1>4, LenProperties
<1>6. AllFit(sent, i) /\ FitUpTo(sent, given, i)
  BY FitsTerms, Zenon DEF AllFit, FitUpTo, Fit
<1>7. i <= Len(given) /\ received[i] = given[i].frame
  BY <1>5, <1>6, Zenon DEF AnswersInv, Got
<1>8. i \in 1 .. Len(given) /\ i \in 1 .. Len(handled) /\ i <= Len(sent) /\ i \in 1 .. i
  <2>1. Len(given) <= Len(handled) /\ Len(received) <= Len(sent)
    BY DEF AnswersInv
  <2> QED
    BY <1>5, <1>7, <2>1
<1>9. IsAnswer(given[i], handled[i])
  BY <1>8, Zenon DEF AnswersInv
<1>10. handled[i].frame = sent[i].frame
  BY <1>6, <1>8, Zenon DEF ArrivesInv, MatchUpTo
<1>11. PICK id \in Nat, m \in AnswerMessage :
          /\ given[i].frame = FrameOf(id, m) /\ handled[i].frame.correlation_id = id
          /\ Carries(m, given[i].data)
  BY <1>9, Zenon DEF IsAnswer
<1>12. given[i].frame.correlation_id = id /\ given[i].frame.message = m
  BY <1>11 DEF FrameOf
<1>13. Fitting(m, sent[i].format, 255)
  <2>1. AnswerFits(given[i], sent[i].format)
    BY <1>8, Zenon
  <2> QED
    BY <1>12, <2>1, Zenon DEF AnswerFits, Fitting
<1> QED
  BY <1>7, <1>10, <1>11, <1>12, <1>13, Zenon

(* The invariant has the property. *)
LEMMA AnswersProperty ==
    ASSUME SentInv, ArrivesInv, AnswersInv
    PROVE  AnswersMatch
<1> SUFFICES ASSUME NEW i \in DOMAIN received, FitsUpTo(i),
                    \A j \in 1 .. i : AnswerFits(given[j], sent[j].format)
             PROVE  /\ received[i] = given[i].frame
                    /\ received[i].correlation_id = sent[i].frame.correlation_id
                    /\ received[i].message.kind \in HaveReaders =>
                          DataIn(received[i].message) = given[i].data
  BY Zenon DEF AnswersMatch
<1>1. PICK m \in AnswerMessage :
         /\ received[i] = given[i].frame /\ received[i].message = m
         /\ received[i].correlation_id = sent[i].frame.correlation_id
         /\ Carries(m, given[i].data) /\ Fitting(m, sent[i].format, 255)
  BY ReceivedAnswer, Zenon
<1>2. ASSUME m.kind \in HaveReaders PROVE DataIn(m) = given[i].data
  <2>1. m.kind \in {"RFetch", "RListTopics", "RDescribeTopic", "RGetLag", "RGetCluster"}
    BY <1>2 DEF HaveReaders
  <2>2. Len(m.bytes) <= MaxU16
    BY <1>1, <2>1, BytesFit, Zenon
  <2> QED
    BY <1>1, <1>2, <2>2, DataFound, Zenon
<1> QED
  BY <1>1, <1>2, Zenon

(* The inductive invariant of the connection: what is under way in both     *)
(* directions is what has still to be read, until something did not fit.    *)
LEMMA SessionInduction == Spec => [](SentInv /\ ArrivesInv /\ AnswersInv)
<1> DEFINE Inv == SentInv /\ ArrivesInv /\ AnswersInv
<1>1. Init => Inv
  BY ArrivesInit, AnswersInit
<1>2. Inv /\ [Next]_vars => Inv'
  <2> SUFFICES ASSUME SentInv, ArrivesInv, AnswersInv, [Next]_vars PROVE Inv'
    OBVIOUS
  <2>1. ASSUME NEW format \in {"V1", "V2"}, Send(format) PROVE Inv'
    BY <2>1, SentSend, ArrivesSend, AnswersSend, Zenon
  <2>2. ASSUME UNCHANGED <<script, sent>> PROVE SentInv'
    BY <2>2 DEF SentInv
  <2>3. CASE Serve
    <3>1. UNCHANGED <<script, sent>>
      BY <2>3 DEF Serve
    <3> QED
      BY <2>2, <2>3, <3>1, ArrivesServe, AnswersServe
  <2>4. CASE Break
    <3>1. UNCHANGED <<script, sent>>
      BY <2>4 DEF Break
    <3> QED
      BY <2>2, <2>4, <3>1, ArrivesBreak, AnswersBreak
  <2>5. ASSUME UNCHANGED <<script, sent, handled, toBroker, broken>> PROVE SentInv' /\ ArrivesInv'
    <3>1. ArrivesInv'
      BY <2>5, Zenon DEF ArrivesInv
    <3> QED
      BY <2>2, <2>5, <3>1
  <2>6. CASE Receive
    <3>1. UNCHANGED <<script, sent, handled, toBroker, broken>>
      BY <2>6 DEF Receive
    <3> QED
      BY <2>5, <2>6, <3>1, AnswersReceive
  <2>7. CASE ReadFails \/ UNCHANGED vars
    <3>1. UNCHANGED <<script, sent, handled, toBroker, broken, toClient, given, received>>
      BY <2>7 DEF ReadFails, vars
    <3>2. open' => open
      BY <2>7 DEF ReadFails, vars
    <3>3. AnswersInv'
      BY <3>1, <3>2, Zenon DEF AnswersInv
    <3> QED
      BY <2>5, <3>1, <3>3
  <2> QED
    BY <2>1, <2>3, <2>4, <2>6, <2>7 DEF Next
<1> HIDE DEF Inv
<1>3. Spec => []Inv
  BY <1>1, <1>2, PTL DEF Spec
<1> QED
  BY <1>3 DEF Inv

(* What the broker dispatches is what the client sent, in that order and    *)
(* with every field, for any requests in either format, wherever the        *)
(* connection breaks, up to a request that does not fit into its frame.     *)
THEOREM ArrivesAsSentCorrect == Spec => []ArrivesAsSent
<1>1. SentInv /\ ArrivesInv /\ AnswersInv => ArrivesAsSent
  BY ArrivesProperty
<1> QED
  BY <1>1, SessionInduction, PTL

(* What the client reads is what the broker answered, under the id of the   *)
(* request, and the decoders find in it the data the broker put in, for any *)
(* records, topics, descriptions and lags that fit into a frame.            *)
THEOREM AnswersMatchCorrect == Spec => []AnswersMatch
<1>1. SentInv /\ ArrivesInv /\ AnswersInv => AnswersMatch
  BY AnswersProperty
<1> QED
  BY <1>1, SessionInduction, PTL

-----------------------------------------------------------------------------
(* Cluster metadata. *)

(* The lists of a state are as long as their encoding can tell. *)
Listed(d) ==
    /\ Len(d.brokers) \in U16
    /\ \A i \in 1 .. Len(d.brokers) : Len(encode_broker(d.brokers[i])) <= MaxU16
    /\ Len(d.assignments) \in U16
    /\ \A i \in 1 .. Len(d.assignments) : Len(encode_assignment(d.assignments[i])) <= MaxU16

(* A last-seen time has ten bytes. *)
LEMMA SeenListed ==
    ASSUME NEW list \in Seq(Seens)
    PROVE  \A i \in 1 .. Len(list) : Len(encode_seen(list[i])) <= MaxU16
<1> SUFFICES ASSUME NEW i \in 1 .. Len(list) PROVE Len(encode_seen(list[i])) <= MaxU16
  OBVIOUS
<1> DEFINE r == list[i]
           x == Put(r.id, 2)
           y == Put(r.at, 8)
<1>1. r \in Seens
  BY ElementOfSeq
<1>2. r.id \in U16 /\ r.id \in Nat /\ Word(r.at)
  BY <1>1, Types DEF Seens
<1> HIDE DEF r
<1>3. x \in Bytes /\ Len(x) = 2
  BY <1>2, Put2, ZenonT(60)
<1>4. y \in Bytes /\ Len(y) = 8
  BY <1>2, Put8, SMT
<1>5. encode_seen(r) = x \o y
  BY Zenon DEF encode_seen
<1> HIDE DEF x, y
<1>6. Len(x \o y) = 10
  <2>1. Len(x \o y) = Len(x) + Len(y)
    BY <1>3, <1>4, Cat2, Zenon
  <2> QED
    BY <1>3, <1>4, <2>1
<1>7. 10 <= MaxU16
  BY SMT DEF MaxU16
<1> QED
  BY <1>5, <1>6, <1>7, Zenon DEF r

(* What decode_body makes of the parts of a state. *)
LEMMA BodyRead ==
    ASSUME NEW d \in ClusterStates, Listed(d), NEW p \in Bytes,
           NEW z, z = encode_brokers(d.brokers),
           NEW w, w = encode_assignments(d.assignments),
           Holds(p, 0, Put(d.min_isr, 2)), Holds(p, 2, z), Holds(p, 2 + Len(z), w),
           NEW seen,
           \/ Len(p) = 2 + Len(z) + Len(w) /\ seen = <<>>
           \/ Holds(p, 2 + Len(z) + Len(w), encode_seen_list(d.seen)) /\ seen = d.seen
    PROVE  decode_body(p) = [kind |-> "ClusterState", min_isr |-> d.min_isr,
                             brokers |-> d.brokers, assignments |-> d.assignments,
                             seen |-> seen]
<1>1. /\ d.min_isr \in U16 /\ d.min_isr \in Nat
      /\ d.brokers \in Seq(BrokerEntries)
      /\ d.assignments \in Seq(Assignments)
      /\ d.seen \in Seq(Seens) /\ Len(d.seen) \in U16
  BY StateFields, Types, Zenon
<1>2. z \in Bytes /\ w \in Bytes
  BY InfoBytes, Zenon
<1>3. Len(z) \in Nat /\ Len(w) \in Nat /\ Len(p) \in Nat
  BY <1>2, HoldsSelf, Zenon
<1>4. 2 + Len(z) \in Nat /\ 2 + Len(z) + Len(w) \in Nat /\ 0 \in Nat /\ 2 \in Nat
  BY <1>3
<1> DEFINE brokers     == read_brokers(p, 2)
           assignments == read_assignments(p, brokers.at)
           found       == IF assignments.at + 2 > Len(p) THEN [at |-> Len(p), item |-> <<>>]
                          ELSE read_seen_list(p, assignments.at)
<1>5. Get(p, 0, 2) = d.min_isr
  BY <1>1, <1>4, Get2, Zenon
<1>6. brokers.at = 2 + Len(z) /\ brokers.item = d.brokers
  <2>1. ReadsAs(brokers, 2, z, d.brokers)
    BY <1>1, <1>4, BrokerListRead, Zenon DEF Listed
  <2> HIDE DEF brokers
  <2> QED
    BY <2>1 DEF ReadsAs
<1>7. assignments.at = 2 + Len(z) + Len(w) /\ assignments.item = d.assignments
  <2>1. ReadsAs(read_assignments(p, 2 + Len(z)), 2 + Len(z), w, d.assignments)
    BY <1>1, <1>4, AssignmentListRead, Zenon DEF Listed, Assignments
  <2>2. ReadsAs(assignments, 2 + Len(z), w, d.assignments)
    BY <1>6, <2>1, Zenon
  <2> HIDE DEF assignments
  <2> QED
    BY <2>2 DEF ReadsAs
<1>8. found # Short /\ found.item = seen
  <2>1. CASE Len(p) = 2 + Len(z) + Len(w) /\ seen = <<>>
    <3>1. assignments.at + 2 > Len(p)
      BY <1>3, <1>7, <2>1
    <3>2. found = [at |-> Len(p), item |-> <<>>]
      BY <3>1, Zenon
    <3> HIDE DEF found
    <3>3. found.at = Len(p) /\ found.item = <<>>
      BY <3>2
    <3>4. Len(p) # -1 /\ Short.at = -1
      BY <1>3 DEF Short
    <3> QED
      BY <2>1, <3>3, <3>4, Zenon
  <2>2. CASE Holds(p, 2 + Len(z) + Len(w), encode_seen_list(d.seen)) /\ seen = d.seen
    <3> DEFINE v == encode_seen_list(d.seen)
               a == 2 + Len(z) + Len(w)
    <3>1. v \in Bytes /\ Len(v) \in Nat /\ 2 <= Len(v)
      BY <1>1, SeenListWritten DEF Seens
    <3>2. a + Len(v) <= Len(p)
      BY <2>2, Zenon DEF Holds
    <3>3. ReadsAs(read_seen_list(p, a), a, v, d.seen)
      <4>1. \A i \in 1 .. Len(d.seen) : Len(encode_seen(d.seen[i])) <= MaxU16
        BY <1>1, SeenListed
      <4> QED
        BY <1>1, <1>4, <2>2, <4>1, SeenListRead, Zenon DEF Seens
    <3>4. a \in Nat
      BY <1>4
    <3> HIDE DEF v, a
    <3>5. ~ (a + 2 > Len(p)) /\ a + Len(v) # -1
      BY <1>3, <3>1, <3>2, <3>4
    <3>6. assignments.at = a
      BY <1>7 DEF a
    <3>7. found = read_seen_list(p, a)
      BY <3>5, <3>6, Zenon
    <3> HIDE DEF found
    <3>8. found.at = a + Len(v) /\ found.item = d.seen
      BY <3>3, <3>7 DEF ReadsAs
    <3>9. Short.at = -1
      BY DEF Short
    <3> QED
      BY <2>2, <3>5, <3>8, <3>9, Zenon
  <2> QED
    BY <2>1, <2>2
<1>9. brokers # Short /\ assignments # Short
  <2>1. 2 + Len(z) # -1 /\ 2 + Len(z) + Len(w) # -1 /\ Short.at = -1
    BY <1>3 DEF Short
  <2> QED
    BY <1>6, <1>7, <2>1, Zenon
<1>10. ~ (Len(p) < 2)
  <2>1. 2 + Len(z) <= Len(p)
    BY Zenon DEF Holds
  <2> QED
    BY <1>3, <2>1
<1>11. decode_body(p) = [kind |-> "ClusterState", min_isr |-> Get(p, 0, 2),
                         brokers |-> brokers.item, assignments |-> assignments.item,
                         seen |-> found.item]
  BY <1>8, <1>9, <1>10, Zenon DEF decode_body
<1> QED
  BY <1>5, <1>6, <1>7, <1>8, <1>11, Zenon

(* A part of the bytes behind the first k. *)
LEMMA BehindHolds ==
    ASSUME NEW p \in Bytes, NEW k \in Nat, k <= Len(p), NEW x \in Bytes, NEW a \in Nat,
           NEW a2, a2 = k + a, Holds(p, a2, x)
    PROVE  /\ From(p, k) \in Bytes /\ Len(From(p, k)) = Len(p) - k
           /\ Holds(From(p, k), a, x)
<1> DEFINE n == Len(p) - k
<1>1. Len(p) \in Nat /\ Len(x) \in Nat
  BY HoldsSelf
<1>2. a2 + Len(x) <= Len(p)
  BY Zenon DEF Holds
<1>3. n \in Nat /\ k + n <= Len(p) /\ a + Len(x) <= n /\ k + n = Len(p)
  BY <1>1, <1>2
<1>4. From(p, k) = Slice(p, k, n)
  BY <1>3, Zenon DEF From, Slice
<1> HIDE DEF n
<1>5. Slice(p, k, n) \in Bytes /\ Len(Slice(p, k, n)) = n
  BY <1>3, SliceFacts, Zenon
<1>6. Holds(Slice(p, k, n), a, x)
  BY <1>3, SliceHolds, Zenon
<1> QED
  BY <1>4, <1>5, <1>6, Zenon DEF n

(* A state without its last-seen times is a state. *)
LEMMA Unseen ==
    ASSUME NEW d \in ClusterStates
    PROVE  /\ [d EXCEPT !.seen = <<>>] \in ClusterStates
           /\ [d EXCEPT !.seen = <<>>] =
                 [kind |-> "ClusterState", min_isr |-> d.min_isr, brokers |-> d.brokers,
                  assignments |-> d.assignments, seen |-> <<>>]
           /\ Listed(d) => Listed([d EXCEPT !.seen = <<>>])
<1> DEFINE f == [kind |-> "ClusterState", min_isr |-> d.min_isr, brokers |-> d.brokers,
                 assignments |-> d.assignments, seen |-> <<>>]
<1>1. [d EXCEPT !.seen = <<>>] = f
  <2>1. d = [kind |-> "ClusterState", min_isr |-> d.min_isr, brokers |-> d.brokers,
             assignments |-> d.assignments, seen |-> d.seen]
    BY StateFields, Zenon
  <2> QED
    BY <2>1
<1>2. f \in ClusterStates
  <2>1. 0 \in U16
    BY Types
  <2>2. /\ d.min_isr \in U16
        /\ d.brokers \in Seq([id : U16, host : Bytes, port : U16])
        /\ d.assignments \in Seq([topic_id : U16, partition_id : U16, leader : U16,
                                  replicas : Seq(U16), leader_epoch : Number])
        /\ \A i \in DOMAIN d.brokers : Len(d.brokers[i].host) \in Byte
    BY DEF ClusterStates
  <2>3. <<>> \in Seq([id : U16, at : Number]) /\ Len(<<>>) \in U16
    BY <2>1
  <2> QED
    BY <2>2, <2>3 DEF ClusterStates
<1>3. f.brokers = d.brokers /\ f.assignments = d.assignments
  OBVIOUS
<1> HIDE DEF f
<1>4. Listed(d) => Listed(f)
  BY <1>3, Zenon DEF Listed
<1> QED
  BY <1>1, <1>2, <1>4, Zenon DEF f

(* The info frame tells the poller everything but the last-seen times. *)
LEMMA InfoRead ==
    ASSUME NEW d \in ClusterStates, NEW b, b = encode_cluster_info(d), Len(b) <= MaxU16
    PROVE  Listed(d) /\ decode_cluster_info(b) = [d EXCEPT !.seen = <<>>]
<1> DEFINE x == <<2>>
           y == Put(d.min_isr, 2)
           z == encode_brokers(d.brokers)
           w == encode_assignments(d.assignments)
<1>1. x \in Bytes /\ y \in Bytes /\ z \in Bytes /\ w \in Bytes
  BY InfoBytes, Zenon
<1>2. Len(x) = 1 /\ Len(y) = 2 /\ x[1] = 2
  BY InfoBytes
<1>3. b = x \o y \o z \o w
  BY Zenon DEF encode_cluster_info
<1>4. d.brokers \in Seq(BrokerEntries) /\ d.assignments \in Seq(Assignments)
  BY StateFields, Zenon
<1>5. /\ Len(d.brokers) \in Nat /\ Len(d.brokers) <= Len(z)
      /\ \A i \in 1 .. Len(d.brokers) : Len(encode_broker(d.brokers[i])) <= Len(z)
  BY <1>4, BrokerListWritten, Zenon
<1>6. /\ Len(d.assignments) \in Nat /\ Len(d.assignments) <= Len(w)
      /\ \A i \in 1 .. Len(d.assignments) : Len(encode_assignment(d.assignments[i])) <= Len(w)
  BY <1>4, AssignmentListWritten, Zenon DEF Assignments
<1> HIDE DEF x, y, z, w
<1>7. Len(z) \in Nat /\ Len(w) \in Nat /\ MaxU16 \in Nat
  BY <1>1, HoldsSelf, Types, Zenon
<1>8. b \in Bytes /\ Len(b) = 3 + Len(z) + Len(w)
  <2>1. b \in Bytes /\ Len(b) = Len(x) + Len(y) + Len(z) + Len(w)
    BY <1>1, <1>3, Cat4
  <2> QED
    BY <1>2, <1>7, <2>1
<1>9. Listed(d)
  <2>1. /\ \A n \in Nat : n <= Len(z) => n <= MaxU16
        /\ \A n \in Nat : n <= Len(w) => n <= MaxU16
    BY <1>7, <1>8
  <2>2. Len(d.brokers) \in U16 /\ Len(d.assignments) \in U16
    BY <1>5, <1>6, <2>1, Types, Zenon
  <2>3. \A i \in 1 .. Len(d.brokers) : Len(encode_broker(d.brokers[i])) \in Nat
    <3> SUFFICES ASSUME NEW i \in 1 .. Len(d.brokers)
                 PROVE  Len(encode_broker(d.brokers[i])) \in Nat
      OBVIOUS
    <3>1. d.brokers[i] \in BrokerEntries
      BY <1>4, ElementOfSeq
    <3>2. encode_broker(d.brokers[i]) \in Bytes
      BY <3>1, BrokerRead, Zenon
    <3> QED
      BY <3>2, HoldsSelf, Zenon
  <2>4. \A i \in 1 .. Len(d.assignments) : Len(encode_assignment(d.assignments[i])) \in Nat
    <3> SUFFICES ASSUME NEW i \in 1 .. Len(d.assignments)
                 PROVE  Len(encode_assignment(d.assignments[i])) \in Nat
      OBVIOUS
    <3>1. d.assignments[i] \in Assignments
      BY <1>4, ElementOfSeq
    <3>2. encode_assignment(d.assignments[i]) \in Bytes
      BY <3>1, AssignmentRead, Zenon DEF Assignments
    <3> QED
      BY <3>2, HoldsSelf, Zenon
  <2> QED
    BY <1>5, <1>6, <2>1, <2>2, <2>3, <2>4, Zenon DEF Listed
<1>10. /\ Holds(b, 0, x) /\ Holds(b, 1, y) /\ Holds(b, 3, z) /\ Holds(b, 3 + Len(z), w)
  <2>1. Holds(b, 0, x \o y \o z \o w) /\ 0 \in Nat
    BY <1>3, <1>8, HoldsSelf, Zenon
  <2>2. /\ Holds(b, 0, x) /\ Holds(b, 0 + Len(x), y)
        /\ Holds(b, 0 + Len(x) + Len(y), z)
        /\ Holds(b, 0 + Len(x) + Len(y) + Len(z), w)
    BY <1>1, <1>8, <2>1, Holds4, Zenon
  <2>3. /\ 0 + Len(x) = 1 /\ 0 + Len(x) + Len(y) = 3
        /\ 0 + Len(x) + Len(y) + Len(z) = 3 + Len(z)
    BY <1>2, <1>7
  <2> QED
    BY <2>2, <2>3, Zenon
<1> DEFINE p == From(b, 1)
<1>11. 1 \in Nat /\ 1 <= Len(b) /\ Len(b) - 1 = 2 + Len(z) + Len(w)
  BY <1>7, <1>8
<1>12. p \in Bytes /\ Len(p) = Len(b) - 1 /\ Holds(p, 0, y)
  <2>1. 0 \in Nat /\ 1 = 1 + 0
    OBVIOUS
  <2> QED
    BY <1>1, <1>8, <1>10, <1>11, <2>1, BehindHolds, Zenon
<1>13. Holds(p, 2, z)
  <2>1. 2 \in Nat /\ 3 = 1 + 2
    OBVIOUS
  <2> QED
    BY <1>1, <1>8, <1>10, <1>11, <2>1, BehindHolds, Zenon
<1>14. Holds(p, 2 + Len(z), w)
  <2>1. 2 + Len(z) \in Nat /\ 3 + Len(z) = 1 + (2 + Len(z))
    BY <1>7
  <2> QED
    BY <1>1, <1>8, <1>10, <1>11, <2>1, BehindHolds, Zenon
<1> HIDE DEF p
<1>15. decode_body(p) = [kind |-> "ClusterState", min_isr |-> d.min_isr, brokers |-> d.brokers,
                         assignments |-> d.assignments, seen |-> <<>>]
  <2>1. Len(p) = 2 + Len(z) + Len(w)
    BY <1>11, <1>12, Zenon
  <2>2. Holds(p, 0, Put(d.min_isr, 2))
    BY <1>12 DEF y
  <2>3. z = encode_brokers(d.brokers) /\ w = encode_assignments(d.assignments)
    BY DEF z, w
  <2> HIDE DEF Listed
  <2> QED
    BY <1>9, <1>12, <1>13, <1>14, <2>1, <2>2, <2>3, BodyRead
<1>16. b # <<>> /\ b[1] = 2
  <2>1. b # <<>>
    BY <1>7, <1>8
  <2>2. b[0 + 1] = x[1] /\ 0 + 1 = 1
    <3>1. 1 \in 1 .. Len(x)
      BY <1>2
    <3> QED
      BY <1>10, <3>1 DEF Holds
  <2> QED
    BY <1>2, <2>1, <2>2, Zenon
<1>17. decode_cluster_info(b) = decode_body(p)
  BY <1>16, Zenon DEF decode_cluster_info, p
<1> QED
  BY <1>9, <1>15, <1>17, Unseen, Zenon

(* cluster_state.dat keeps all of a state. *)
LEMMA FileRead ==
    ASSUME NEW d \in ClusterStates, Listed(d)
    PROVE  decode_cluster_state(encode_cluster_state(d)) = d
<1> DEFINE b == encode_cluster_state(d)
           y == Put(d.min_isr, 2)
           z == encode_brokers(d.brokers)
           w == encode_assignments(d.assignments)
           v == encode_seen_list(d.seen)
<1>1. y \in Bytes /\ z \in Bytes /\ w \in Bytes /\ Len(y) = 2
  BY InfoBytes, Zenon
<1>2. v \in Bytes
  BY StateFields, SeenListWritten DEF Seens
<1>3. MAGIC \in Bytes /\ Len(MAGIC) = 6
  <2>1. 68 \in Byte /\ 77 \in Byte /\ 81 \in Byte /\ 67 \in Byte /\ 83 \in Byte /\ 1 \in Byte
    BY Types
  <2> QED
    BY <2>1 DEF MAGIC, Bytes
<1>4. b = MAGIC \o y \o z \o w \o v
  BY Zenon DEF encode_cluster_state
<1> HIDE DEF b, y, z, w, v
<1>5. Len(z) \in Nat /\ Len(w) \in Nat /\ Len(v) \in Nat
  BY <1>1, <1>2, HoldsSelf, Zenon
<1>6. b \in Bytes /\ Len(b) = 8 + Len(z) + Len(w) + Len(v)
  <2>1. b \in Bytes /\ Len(b) = Len(MAGIC) + Len(y) + Len(z) + Len(w) + Len(v)
    <3>1. MAGIC \in Bytes /\ y \in Bytes /\ z \in Bytes /\ w \in Bytes /\ v \in Bytes
      BY <1>1, <1>2, <1>3, Zenon
    <3> QED
      BY <1>4, <3>1, Cat5
  <2> QED
    BY <1>1, <1>3, <1>5, <2>1
<1>7. /\ Holds(b, 0, MAGIC) /\ Holds(b, 6, y) /\ Holds(b, 8, z) /\ Holds(b, 8 + Len(z), w)
      /\ Holds(b, 8 + Len(z) + Len(w), v)
  <2>1. Holds(b, 0, MAGIC \o y \o z \o w \o v) /\ 0 \in Nat
    BY <1>4, <1>6, HoldsSelf, Zenon
  <2>2. y \in Bytes /\ z \in Bytes /\ w \in Bytes /\ v \in Bytes /\ MAGIC \in Bytes /\ b \in Bytes
    BY <1>1, <1>2, <1>3, <1>6, Zenon
  <2>3. /\ Holds(b, 0, MAGIC) /\ Holds(b, 0 + Len(MAGIC), y)
        /\ Holds(b, 0 + Len(MAGIC) + Len(y), z)
        /\ Holds(b, 0 + Len(MAGIC) + Len(y) + Len(z), w)
        /\ Holds(b, 0 + Len(MAGIC) + Len(y) + Len(z) + Len(w), v)
    BY <2>1, <2>2, Holds5, Zenon
  <2>4. /\ 0 + Len(MAGIC) = 6 /\ 0 + Len(MAGIC) + Len(y) = 8
        /\ 0 + Len(MAGIC) + Len(y) + Len(z) = 8 + Len(z)
        /\ 0 + Len(MAGIC) + Len(y) + Len(z) + Len(w) = 8 + Len(z) + Len(w)
    BY <1>1, <1>3, <1>5
  <2> QED
    BY <2>3, <2>4, Zenon
<1> DEFINE p == From(b, 6)
<1>8. 6 \in Nat /\ 6 <= Len(b)
  BY <1>5, <1>6
<1>9. p \in Bytes /\ Holds(p, 0, y)
  <2>1. 0 \in Nat /\ 6 = 6 + 0
    OBVIOUS
  <2> QED
    BY <1>1, <1>6, <1>7, <1>8, <2>1, BehindHolds, Zenon
<1>10. Holds(p, 2, z)
  <2>1. 2 \in Nat /\ 8 = 6 + 2
    OBVIOUS
  <2> QED
    BY <1>1, <1>6, <1>7, <1>8, <2>1, BehindHolds, Zenon
<1>11. Holds(p, 2 + Len(z), w)
  <2>1. 2 + Len(z) \in Nat /\ 8 + Len(z) = 6 + (2 + Len(z))
    BY <1>5
  <2> QED
    BY <1>1, <1>6, <1>7, <1>8, <2>1, BehindHolds, Zenon
<1>12. Holds(p, 2 + Len(z) + Len(w), v)
  <2>1. 2 + Len(z) + Len(w) \in Nat /\ 8 + Len(z) + Len(w) = 6 + (2 + Len(z) + Len(w))
    BY <1>5
  <2> QED
    BY <1>2, <1>6, <1>7, <1>8, <2>1, BehindHolds, Zenon
<1> HIDE DEF p
<1>13. decode_body(p) = [kind |-> "ClusterState", min_isr |-> d.min_isr, brokers |-> d.brokers,
                         assignments |-> d.assignments, seen |-> d.seen]
  <2>1. Holds(p, 0, Put(d.min_isr, 2))
    BY <1>9 DEF y
  <2>2. Holds(p, 2 + Len(z) + Len(w), encode_seen_list(d.seen))
    BY <1>12 DEF v
  <2>3. z = encode_brokers(d.brokers) /\ w = encode_assignments(d.assignments)
    BY DEF z, w
  <2> QED
    BY <1>9, <1>10, <1>11, <2>1, <2>2, <2>3, BodyRead
<1>14. decode_body(p) = d
  BY <1>13, StateFields, Zenon
<1>15. Slice(b, 0, Len(MAGIC)) = MAGIC
  BY 0 \in Nat, <1>3, <1>6, <1>7, HoldsSlice, Zenon
<1>16. ~ (Len(b) < Len(MAGIC)) /\ From(b, Len(MAGIC)) = p
  <2>1. ~ (Len(b) < Len(MAGIC))
    BY <1>3, <1>5, <1>6
  <2> QED
    BY <1>3, <2>1, Zenon DEF p
<1>17. decode_cluster_state(b) = d
  BY <1>14, <1>15, <1>16, Zenon DEF decode_cluster_state
<1> QED
  BY <1>17 DEF b

(* The invariant has the property. *)
LEMMA MetadataProperty ==
    ASSUME SentInv, ArrivesInv, AnswersInv
    PROVE  ClusterMetadataSurvives
<1> SUFFICES ASSUME NEW i \in DOMAIN received, FitsUpTo(i),
                    \A j \in 1 .. i : AnswerFits(given[j], sent[j].format),
                    received[i].message.kind = "RGetCluster"
             PROVE  LET fetched == decode_cluster_info(received[i].message.bytes) IN
                    /\ fetched = [given[i].data EXCEPT !.seen = <<>>]
                    /\ \A state \in {given[i].data, fetched} :
                          decode_cluster_state(encode_cluster_state(state)) = state
  BY Zenon DEF ClusterMetadataSurvives
<1> DEFINE d == given[i].data
<1>1. PICK m \in AnswerMessage :
         /\ received[i] = given[i].frame /\ received[i].message = m
         /\ received[i].correlation_id = sent[i].frame.correlation_id
         /\ Carries(m, d) /\ Fitting(m, sent[i].format, 255)
  BY ReceivedAnswer, Zenon
<1>2. m.kind = "RGetCluster" /\ d \in ClusterStates /\ m.bytes = encode_cluster_info(d)
  BY <1>1 DEF Carries
<1>3. Len(m.bytes) <= MaxU16
  <2>1. m.kind \in {"RFetch", "RListTopics", "RDescribeTopic", "RGetLag", "RGetCluster"}
    BY <1>2
  <2> QED
    BY <1>1, <2>1, BytesFit, Zenon
<1> HIDE DEF d
<1> DEFINE fetched == [d EXCEPT !.seen = <<>>]
<1>4. Listed(d) /\ decode_cluster_info(m.bytes) = fetched
  BY <1>2, <1>3, InfoRead, Zenon
<1>5. fetched \in ClusterStates /\ Listed(fetched)
  BY <1>2, <1>4, Unseen, Zenon
<1> HIDE DEF fetched
<1>6. /\ decode_cluster_state(encode_cluster_state(d)) = d
      /\ decode_cluster_state(encode_cluster_state(fetched)) = fetched
  BY <1>2, <1>4, <1>5, FileRead, Zenon
<1>7. decode_cluster_info(received[i].message.bytes) = fetched
  BY <1>1, <1>4, Zenon
<1> QED
  BY <1>6, <1>7, Zenon DEF d, fetched

(* For any cluster state whose info fits into a frame: a poller reads all   *)
(* of it but the last-seen times, and cluster_state.dat gives back what was *)
(* stored in it.                                                            *)
THEOREM ClusterMetadataSurvivesCorrect == Spec => []ClusterMetadataSurvives
<1>1. SentInv /\ ArrivesInv /\ AnswersInv => ClusterMetadataSurvives
  BY MetadataProperty
<1> QED
  BY <1>1, SessionInduction, PTL
=============================================================================
