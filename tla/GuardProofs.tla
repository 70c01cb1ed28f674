------------------------------ MODULE GuardProofs ------------------------------
(***************************************************************************)
(* What the deques of FloodGuard and ReplayGuard are good for: every flood *)
(* is reported and no copy gets through early, for every set of names and  *)
(* messages and every limit, window and capacity.                          *)
(***************************************************************************)
EXTENDS ControllerProofs

\* The entries of a deque of times from t on.
Since(s, t) == {p \in DOMAIN s : s[p] >= t}

\* The times of a deque have passed and are in order.
InOrder(s) ==
    \A p, q \in DOMAIN s : s[p] <= now /\ (p < q => s[p] <= s[q])

\* A received message is still to be forwarded.
Waiting == \E k \in DOMAIN todo : todo[k].kind = "TELEMETRY"

\* What this life of the process has forwarded of n since t.
NearNow(n, t) ==
    {i \in DOMAIN sent : /\ sent[i].kind = "TELEMETRY" /\ sent[i].boot = boot
                         /\ sent[i].msg.node = n /\ sent[i].at >= t}

WaitingSince(n, t) == Waiting /\ cur.msg.node = n /\ cur.at >= t

\* The moment FloodGuard last judged at, or may judge at next.
Edge == IF Waiting THEN cur.at ELSE now

\* FloodGuard._times: in order, and a message waiting is the last of its plan.
Ordered ==
    /\ cur.at <= now
    /\ \A i \in DOMAIN sent : sent[i].boot <= boot
    /\ \A k \in DOMAIN todo : todo[k].kind = "TELEMETRY" => k = Len(todo)
    /\ \A n \in Nodes : InOrder(times[n])

\* FloodGuard._times has an entry for every message of the window.
Tallied ==
    \A n \in Nodes, t \in Int : t >= Edge - FloodWindow =>
        Cardinality(NearNow(n, t)) + (IF WaitingSince(n, t) THEN 1 ELSE 0)
            <= Cardinality(Since(times[n], t))

\* A flood alert with the time in flood_alerted went out, in this life...
AlertOut(n) ==
    \E i \in DOMAIN sent :
        FloodNow(i) /\ sent[i].msg.node = n /\ sent[i].at = floodAlerted[n]

\* ... or is about to.
AlertDue(n) ==
    /\ cur.msg.node = n /\ cur.at = floodAlerted[n]
    /\ \E k \in DOMAIN todo : todo[k].kind = "FLOOD_ATTACK"

\* flood_alerted never runs ahead of the alerts, and is recent when a message of a node
\* over the limit is forwarded.
Alarmed ==
    /\ \A n \in Nodes : floodAlerted[n] = Never \/ AlertOut(n) \/ AlertDue(n)
    /\ Waiting /\ Len(times[cur.msg.node]) > FloodMax
           => floodAlerted[cur.msg.node] > cur.at - FloodWindow

------------------------------------------------------------------------------
(* The deques.                                                               *)

\* An interval from 1 has as many elements as its end says.
LEMMA UpTo ==
    ASSUME NEW n \in Nat
    PROVE  IsFiniteSet(1 .. n) /\ Cardinality(1 .. n) = n
<1>1. /\ IsFiniteSet(1 .. n)
      /\ Cardinality(1 .. n) = IF 1 > n THEN 0 ELSE n - 1 + 1
  BY FS_Interval
<1> QED
  BY <1>1

\* When the old positions are a prefix, PopOld takes that prefix away.
LEMMA PopOldTakesPrefix ==
    ASSUME NEW S, NEW s \in Seq(S), NEW old \in SUBSET DOMAIN s,
           \A i \in old : \A j \in 1 .. i : j \in old
    PROVE  \E c \in 0 .. Len(s) :
               /\ PopOld(s, old) \in Seq(S) /\ Len(PopOld(s, old)) = Len(s) - c
               /\ \A i \in 1 .. Len(s) - c : PopOld(s, old)[i] = s[c + i]
               /\ \A j \in 1 .. c : j \in old
<1> DEFINE L == Len(s)
           c == Cardinality(old)
<1>1. L \in Nat /\ DOMAIN s = 1 .. L /\ \A i \in 1 .. L : s[i] \in S
  BY LenProperties, ElementOfSeq
<1>2. IsFiniteSet(1 .. L) /\ Cardinality(1 .. L) = L
  BY <1>1, UpTo
<1>3. old \subseteq 1 .. L
  BY <1>1
<1>4. IsFiniteSet(old) /\ c <= L /\ c \in Nat
  BY <1>2, <1>3, FS_Subset, FS_CardinalityType
<1>5. PopOld(s, old) = SubSeq(s, c + 1, L)
  BY DEF PopOld
<1>6. c = Cardinality(old)
  OBVIOUS
<1> HIDE DEF c, L
<1>7. 1 .. c \subseteq old
  <2> SUFFICES ASSUME NEW x \in 1 .. c, x \notin old PROVE FALSE
    OBVIOUS
  <2>1. x \in Nat /\ x >= 1 /\ x <= c
    BY <1>4
  <2>2. old \subseteq 1 .. x - 1
    BY <1>1, <1>3, <2>1
  <2>3. IsFiniteSet(1 .. x - 1) /\ Cardinality(1 .. x - 1) = x - 1
    <3>1. x - 1 \in Nat
      BY <2>1
    <3> QED
      BY <3>1, UpTo
  <2>4. Cardinality(old) <= Cardinality(1 .. x - 1)
    BY <2>2, <2>3, FS_Subset
  <2> QED
    BY <1>4, <1>6, <2>1, <2>3, <2>4
<1>8. SubSeq(s, c + 1, L) \in Seq(S)
  <2>1. \A i \in c + 1 .. L : s[i] \in S
    BY <1>1, <1>4
  <2> QED
    BY <1>1, <1>4, <2>1, SubSeqProperties
<1>9. /\ Len(SubSeq(s, c + 1, L)) = L - c
      /\ \A i \in 1 .. L - c : SubSeq(s, c + 1, L)[i] = s[c + i]
  BY <1>1, <1>4, SubSeqProperties
<1>10. c \in 0 .. L
  BY <1>1, <1>4
<1> QED
  BY <1>5, <1>7, <1>8, <1>9, <1>10 DEF L

\* A set of positions of a sequence is finite, and no larger than the sequence.
LEMMA SinceFinite ==
    ASSUME NEW s \in Seq(Nat), NEW t \in Int
    PROVE  /\ IsFiniteSet(Since(s, t)) /\ Cardinality(Since(s, t)) \in Nat
           /\ Cardinality(Since(s, t)) <= Len(s)
<1>1. Len(s) \in Nat /\ DOMAIN s = 1 .. Len(s)
  BY LenProperties
<1>2. IsFiniteSet(1 .. Len(s)) /\ Cardinality(1 .. Len(s)) = Len(s)
  BY <1>1, UpTo
<1>3. Since(s, t) \subseteq 1 .. Len(s)
  BY <1>1 DEF Since
<1> QED
  BY <1>2, <1>3, FS_Subset, FS_CardinalityType

\* FloodGuard.check keeps the times in order, and those of the window with the new one.
LEMMA ArrivalsTally ==
    ASSUME TypeOK, NEW n \in Nodes, InOrder(times[n])
    PROVE  /\ Arrivals(n) \in Seq(Nat) /\ InOrder(Arrivals(n))
           /\ \A t \in Int : t >= now - FloodWindow =>
                  Cardinality(Since(times[n], t)) + (IF now >= t THEN 1 ELSE 0)
                      <= Cardinality(Since(Arrivals(n), t))
<1> DEFINE s == times[n]
           limit == now - FloodWindow
           popped == PopOld(s, {i \in DOMAIN s : s[i] < limit})
           a == Append(popped, now)
<1>1. now \in Nat /\ FloodWindow \in Nat /\ s \in Seq(Nat)
  BY ConstantsAssumption DEF TypeOK
<1>2. limit \in Int
  BY <1>1
<1>3. Len(s) \in Nat /\ DOMAIN s = 1 .. Len(s) /\ \A i \in 1 .. Len(s) : s[i] \in Nat
  BY <1>1, LenProperties, ElementOfSeq
<1>4. \A p, q \in DOMAIN s : s[p] <= now /\ (p < q => s[p] <= s[q])
  BY DEF InOrder
<1>5. Arrivals(n) = a
  BY DEF Arrivals
<1> HIDE DEF s, limit
<1>6. PICK c \in 0 .. Len(s) :
          /\ popped \in Seq(Nat) /\ Len(popped) = Len(s) - c
          /\ \A i \in 1 .. Len(s) - c : popped[i] = s[c + i]
          /\ \A j \in 1 .. c : s[j] < limit
  <2> DEFINE old == {i \in DOMAIN s : s[i] < limit}
  <2>1. \A i \in old : \A j \in 1 .. i : j \in old
    <3> SUFFICES ASSUME NEW i \in old, NEW j \in 1 .. i PROVE j \in old
      OBVIOUS
    <3>1. i \in 1 .. Len(s) /\ j \in 1 .. Len(s) /\ s[i] < limit
      BY <1>3
    <3>2. s[j] <= s[i] /\ s[i] \in Nat /\ s[j] \in Nat
      BY <1>3, <1>4, <3>1
    <3> QED
      BY <1>2, <1>3, <3>1, <3>2
  <2>2. \A j \in old : s[j] < limit
    OBVIOUS
  <2>3. popped = PopOld(s, old)
    OBVIOUS
  <2>4. old \in SUBSET DOMAIN s
    OBVIOUS
  <2> HIDE DEF old, popped
  <2>5. PICK c \in 0 .. Len(s) :
            /\ PopOld(s, old) \in Seq(Nat) /\ Len(PopOld(s, old)) = Len(s) - c
            /\ \A i \in 1 .. Len(s) - c : PopOld(s, old)[i] = s[c + i]
            /\ \A j \in 1 .. c : j \in old
    BY <1>1, <2>1, <2>4, PopOldTakesPrefix
  <2> QED
    BY <2>2, <2>3, <2>5
<1> HIDE DEF popped
<1> DEFINE M == Len(s) - c
<1>7. M \in Nat /\ Len(s) = M + c /\ c \in Nat
  BY <1>3
<1>8. /\ a \in Seq(Nat) /\ Len(a) = M + 1 /\ DOMAIN a = 1 .. M + 1
      /\ \A i \in 1 .. M : a[i] = s[c + i]
      /\ a[M + 1] = now
  <2>1. /\ a \in Seq(Nat) /\ Len(a) = Len(popped) + 1
        /\ \A i \in 1 .. Len(popped) : a[i] = popped[i]
        /\ a[Len(popped) + 1] = now
    BY <1>1, <1>6, AppendProperties
  <2>2. DOMAIN a = 1 .. Len(a)
    BY <2>1, LenProperties
  <2> QED
    BY <1>6, <2>1, <2>2
<1> HIDE DEF a, M
<1>9. InOrder(a)
  <2> SUFFICES ASSUME NEW p \in DOMAIN a, NEW q \in DOMAIN a
               PROVE  a[p] <= now /\ (p < q => a[p] <= a[q])
    BY DEF InOrder
  <2>1. \A i \in 1 .. M : c + i \in DOMAIN s /\ a[i] = s[c + i]
    BY <1>3, <1>7, <1>8
  <2>2. a[p] <= now
    <3>1. CASE p \in 1 .. M
      BY <1>4, <2>1, <3>1
    <3>2. CASE p = M + 1
      BY <1>1, <1>8, <3>2
    <3> QED
      BY <1>7, <1>8, <3>1, <3>2
  <2>3. ASSUME p < q PROVE a[p] <= a[q]
    <3>1. CASE q \in 1 .. M
      <4>1. p \in 1 .. M /\ c + p < c + q
        BY <1>7, <1>8, <2>3, <3>1
      <4> QED
        BY <1>4, <2>1, <3>1, <4>1
    <3>2. CASE q = M + 1
      BY <1>8, <2>2, <3>2
    <3> QED
      BY <1>7, <1>8, <3>1, <3>2
  <2> QED
    BY <2>2, <2>3
<1>10. ASSUME NEW t \in Int, t >= limit
       PROVE  Cardinality(Since(s, t)) + (IF now >= t THEN 1 ELSE 0)
                  <= Cardinality(Since(a, t))
  <2> DEFINE A == Since(s, t)
             B == Since(a, t) \ {M + 1}
             f == [p \in A |-> p - c]
  <2>1. A \subseteq (c + 1) .. Len(s)
    <3> SUFFICES ASSUME NEW p \in A, p \notin (c + 1) .. Len(s) PROVE FALSE
      OBVIOUS
    <3>1. p \in 1 .. Len(s) /\ s[p] >= t
      BY <1>3 DEF Since
    <3>2. p \in 1 .. c
      BY <1>3, <1>7, <3>1
    <3>3. s[p] < limit /\ s[p] \in Int
      BY <1>3, <1>6, <3>1, <3>2
    <3> QED
      BY <1>2, <1>10, <3>1, <3>3
  <2>2. \A p \in A : p - c \in B
    <3> SUFFICES ASSUME NEW p \in A PROVE p - c \in B
      OBVIOUS
    <3>1. p - c \in 1 .. M /\ c + (p - c) = p /\ s[p] >= t
      BY <1>3, <1>7, <2>1 DEF Since
    <3>2. a[p - c] = s[p] /\ p - c \in DOMAIN a /\ p - c # M + 1
      BY <1>7, <1>8, <3>1
    <3> QED
      BY <3>1, <3>2 DEF Since
  <2>3. f \in Injection(A, B)
    <3>1. f \in [A -> B]
      BY <2>2
    <3>2. \A p, q \in A : f[p] = f[q] => p = q
      <4>1. \A p \in A : p \in Int
        BY <1>3, <1>7, <2>1
      <4> QED
        BY <1>7, <4>1
    <3> QED
      BY <3>1, <3>2 DEF Injection, IsInjective
  <2>4. IsFiniteSet(Since(a, t)) /\ Cardinality(Since(a, t)) \in Nat
    BY <1>8, SinceFinite
  <2>5. IsFiniteSet(B) /\ Cardinality(B) \in Nat
    BY <2>4, FS_RemoveElement, FS_CardinalityType
  <2>6. Cardinality(A) <= Cardinality(B) /\ Cardinality(A) \in Nat
    BY <1>1, <1>10, <2>3, <2>5, FS_Injection, SinceFinite
  <2>7. Cardinality(B) =
            IF M + 1 \in Since(a, t) THEN Cardinality(Since(a, t)) - 1
            ELSE Cardinality(Since(a, t))
    BY <2>4, FS_RemoveElement
  <2>8. now >= t => M + 1 \in Since(a, t)
    BY <1>7, <1>8 DEF Since
  <2> HIDE DEF A, B
  <2>9. Cardinality(A) + (IF now >= t THEN 1 ELSE 0) <= Cardinality(Since(a, t))
    BY <2>4, <2>5, <2>6, <2>7, <2>8
  <2> QED
    BY <2>9 DEF A
<1> QED
  BY <1>5, <1>8, <1>9, <1>10 DEF s, limit

------------------------------------------------------------------------------
(* Every step keeps the tally.                                               *)

\* What an accepted message does to the guard's times.
LEMMA AcceptTimes ==
    ASSUME TypeOK, Ordered, NEW m \in Messages, Accept(m)
    PROVE  /\ m.node \in Nodes /\ times' \in [Nodes -> Seq(Nat)]
           /\ times'[m.node] = Arrivals(m.node)
           /\ \A n \in Nodes \ {m.node} : times'[n] = times[n]
           /\ todo = << >> /\ sent' = sent /\ boot' = boot /\ now' = now
           /\ cur'.msg = m /\ cur'.at = now
<1>1. m.node \in Nodes
  BY ConstantsAssumption DEF MessageType
<1>2. times' = [times EXCEPT ![m.node] = Arrivals(m.node)] /\ Take(m)
  BY DEF Accept
<1>3. times \in [Nodes -> Seq(Nat)]
  BY DEF TypeOK
<1>4. Arrivals(m.node) \in Seq(Nat)
  BY GuardTypes
<1> QED
  BY <1>1, <1>2, <1>3, <1>4 DEF Take

\* What the steps that receive without accepting leave alone, and what they plan.
LEMMA Refusals ==
    ASSUME TypeOK, NEW m \in Messages,
           DropBlacklisted(m) \/ Tampered(m) \/ Rogue(m) \/ Replayed(m)
    PROVE  /\ UNCHANGED <<times, floodAlerted, sent, boot, now>>
           /\ todo = << >> /\ cur'.msg = m /\ cur'.at = now
           /\ \A k \in DOMAIN todo' : todo'[k].kind \notin {"TELEMETRY", "FLOOD_ATTACK"}
<1>1. CASE DropBlacklisted(m)
  <2>1. Take(m) /\ UNCHANGED <<todo, times, floodAlerted>>
    BY <1>1 DEF DropBlacklisted, guards
  <2> QED
    BY <2>1 DEF Take
<1>2. CASE Tampered(m) \/ Rogue(m) \/ Replayed(m)
  <2>1. PICK kind \in Rejections : Reject(m, kind) /\ UNCHANGED <<times, floodAlerted>>
    BY <1>2 DEF Tampered, Rogue, Replayed, Rejections, guards
  <2>2. Take(m) /\ todo' = RejectPlan(kind, offset + 1) /\ offset + 1 \in Nat
    BY <2>1 DEF Reject, TypeOK
  <2>3. todo'[1].kind \notin {"TELEMETRY", "FLOOD_ATTACK"} /\ DOMAIN todo' = {1}
    BY <2>2, RejectPlanFacts DEF RejectPlan, Emission, Rejections
  <2> QED
    BY <2>1, <2>2, <2>3 DEF Take
<1> QED
  BY <1>1, <1>2

\* The rest leaves the times alone; only the last emission is a message.
LEMMA OrderedNext == TypeOK /\ Ordered /\ [Next]_vars => Ordered'
<1> SUFFICES ASSUME TypeOK, Ordered, [Next]_vars PROVE Ordered'
  OBVIOUS
<1>1. now \in Nat /\ cur.at \in Nat
  BY DEF TypeOK
<1>2. times \in [Nodes -> Seq(Nat)]
  BY DEF TypeOK
<1>3. ASSUME NEW m \in Messages,
             DropBlacklisted(m) \/ Tampered(m) \/ Rogue(m) \/ Replayed(m)
      PROVE  Ordered'
  BY <1>1, <1>3, Refusals DEF Ordered, InOrder
<1>4. ASSUME NEW m \in Messages, Accept(m) PROVE Ordered'
  <2>1. \A k \in DOMAIN todo' : todo'[k].kind = "TELEMETRY" => k = Len(todo')
    BY <1>4, AcceptedKinds
  <2>2. InOrder(Arrivals(m.node))
    BY <1>4, AcceptTimes, ArrivalsTally DEF Ordered
  <2>3. \A n \in Nodes : InOrder(times[n])
    BY DEF Ordered
  <2>4. \A n \in Nodes : InOrder(times'[n])
    BY <1>4, <2>2, <2>3, AcceptTimes
  <2>5. now' = now /\ cur'.at = now /\ sent' = sent /\ boot' = boot
    BY <1>4, AcceptTimes
  <2>6. \A n \in Nodes : InOrder(times[n])'
    BY <2>4, <2>5 DEF InOrder
  <2> QED
    BY <1>1, <2>1, <2>5, <2>6 DEF Ordered
<1>5. CASE SaveBlacklist \/ SaveOffset \/ UNCHANGED vars
  <2>1. UNCHANGED <<now, times, todo, cur, sent, boot>>
    BY <1>5 DEF SaveBlacklist, SaveOffset, vars, guards
  <2> QED
    BY <2>1 DEF Ordered, InOrder
<1>6. CASE Send
  <2>1. todo # << >> /\ todo' = Tail(todo) /\ UNCHANGED <<now, times, cur>>
    BY <1>6 DEF Send, SendReady, guards
  <2>2. /\ Len(todo) \in Nat /\ DOMAIN todo' = 1 .. Len(todo) - 1
        /\ Len(todo') = Len(todo) - 1
        /\ \A k \in DOMAIN todo' : todo'[k] = todo[k + 1] /\ k + 1 \in DOMAIN todo
    BY <2>1, TailOfTodo
  <2>3. \A k \in DOMAIN todo' : todo'[k].kind = "TELEMETRY" => k = Len(todo')
    BY <2>2 DEF Ordered
  <2>4. /\ DOMAIN sent' = DOMAIN sent \cup {Len(sent) + 1} /\ boot' = boot /\ boot \in Nat
        /\ \A i \in DOMAIN sent : sent'[i] = sent[i]
        /\ sent'[Len(sent) + 1].boot = boot
    BY <1>6, SentGrows DEF Send, TypeOK
  <2>5. \A i \in DOMAIN sent' : sent'[i].boot <= boot'
    BY <2>4 DEF Ordered
  <2> QED
    BY <2>1, <2>3, <2>5 DEF Ordered, InOrder
<1>7. CASE Restart
  <2>1. /\ now' = now /\ cur' = cur /\ DOMAIN todo' = {} /\ times' = NoEntries
        /\ sent' = sent /\ boot' = boot + 1
    BY <1>7 DEF Restart
  <2>2. \A n \in Nodes : DOMAIN times'[n] = {}
    BY <2>1 DEF NoEntries
  <2>3. \A i \in DOMAIN sent' : sent'[i].boot <= boot'
    <3>1. \A i \in DOMAIN sent : sent[i].boot \in Nat /\ sent[i].boot <= boot
      BY ElementTypes DEF Ordered
    <3> QED
      BY <2>1, <3>1 DEF TypeOK
  <2> QED
    BY <2>1, <2>2, <2>3 DEF Ordered, InOrder
<1>8. CASE Tick
  <2>1. now' = now + 1 /\ UNCHANGED <<times, todo, cur, sent, boot>>
    BY <1>8 DEF Tick, guards
  <2>2. \A n \in Nodes : \A p \in DOMAIN times[n] : times[n][p] \in Nat
    BY <1>2, ElementOfSeq, LenProperties
  <2>3. \A n \in Nodes : InOrder(times[n])'
    <3>1. \A n \in Nodes : InOrder(times[n])
      BY DEF Ordered
    <3> QED
      BY <1>1, <2>1, <2>2, <3>1 DEF InOrder
  <2> QED
    BY <1>1, <2>1, <2>3 DEF Ordered
<1> QED
  BY <1>3, <1>4, <1>5, <1>6, <1>7, <1>8 DEF Next, Receive

\* The message that waits is sent last.
LEMMA WaitingSend ==
    ASSUME TypeOK, Ordered, Send
    PROVE  IF todo[1].kind = "TELEMETRY"
           THEN Waiting /\ ~Waiting' /\ Edge = cur.at /\ Edge' = now
           ELSE Waiting' = Waiting /\ Edge' = Edge
<1>1. todo # << >> /\ todo' = Tail(todo) /\ UNCHANGED <<now, cur>>
  BY DEF Send, SendReady
<1>2. /\ 1 \in DOMAIN todo /\ Len(todo) \in Nat \ {0} /\ DOMAIN todo = 1 .. Len(todo)
      /\ DOMAIN todo' = 1 .. Len(todo) - 1
      /\ \A k \in DOMAIN todo' : todo'[k] = todo[k + 1] /\ k + 1 \in DOMAIN todo
  BY <1>1, TailOfTodo
<1>3. CASE todo[1].kind # "TELEMETRY"
  <2>1. ASSUME NEW k \in DOMAIN todo, todo[k].kind = "TELEMETRY"
        PROVE  k - 1 \in DOMAIN todo' /\ todo'[k - 1].kind = "TELEMETRY"
    <3>1. k # 1 /\ k \in 1 .. Len(todo)
      BY <1>2, <1>3, <2>1
    <3>2. k - 1 \in DOMAIN todo' /\ (k - 1) + 1 = k
      BY <1>2, <3>1
    <3> QED
      BY <1>2, <2>1, <3>2
  <2>2. Waiting => Waiting'
    BY <2>1 DEF Waiting
  <2>3. Waiting' => Waiting
    BY <1>2 DEF Waiting
  <2>4. Waiting' = Waiting
    BY <2>2, <2>3 DEF Waiting
  <2> QED
    BY <1>1, <1>3, <2>4 DEF Edge
<1>4. CASE todo[1].kind = "TELEMETRY"
  <2>1. Len(todo) = 1
    BY <1>2, <1>4 DEF Ordered
  <2>2. DOMAIN todo' = {}
    BY <1>2, <2>1
  <2>3. Waiting /\ ~Waiting'
    BY <1>2, <1>4, <2>2 DEF Waiting
  <2> QED
    BY <1>1, <1>4, <2>3 DEF Edge
<1> QED
  BY <1>3, <1>4

\* What was forwarded is finite.
LEMMA NearFinite ==
    ASSUME TypeOK, NEW n, NEW t
    PROVE  IsFiniteSet(NearNow(n, t)) /\ Cardinality(NearNow(n, t)) \in Nat
<1>1. DOMAIN sent = 1 .. Len(sent) /\ Len(sent) \in Nat
  BY LenProperties DEF TypeOK
<1>2. IsFiniteSet(1 .. Len(sent)) /\ NearNow(n, t) \subseteq 1 .. Len(sent)
  BY <1>1, UpTo DEF NearNow
<1> QED
  BY <1>2, FS_Subset, FS_CardinalityType

\* Every step keeps Tallied.
LEMMA TalliedNext == TypeOK /\ TypeOK' /\ Ordered /\ Tallied /\ [Next]_vars => Tallied'
<1> SUFFICES ASSUME TypeOK, TypeOK', Ordered, Tallied, [Next]_vars,
                    NEW n \in Nodes, NEW t \in Int, t >= Edge' - FloodWindow
             PROVE  Cardinality(NearNow(n, t)') + (IF WaitingSince(n, t)' THEN 1 ELSE 0)
                        <= Cardinality(Since(times'[n], t))
  BY DEF Tallied
<1> DEFINE near == Cardinality(NearNow(n, t))
           slots == Cardinality(Since(times[n], t))
<1>1. /\ now \in Nat /\ cur.at \in Nat /\ cur.at <= now /\ FloodWindow \in Nat
      /\ times[n] \in Seq(Nat)
  BY ConstantsAssumption DEF TypeOK, Ordered
<1>2. near \in Nat /\ slots \in Nat
  BY <1>1, NearFinite, SinceFinite
<1>3. t >= Edge - FloodWindow =>
          near + (IF WaitingSince(n, t) THEN 1 ELSE 0) <= slots
  BY DEF Tallied
<1>4. Edge \in Nat /\ Edge <= now
  BY <1>1 DEF Edge
<1>5. ASSUME NEW m \in Messages,
             DropBlacklisted(m) \/ Tampered(m) \/ Rogue(m) \/ Replayed(m)
      PROVE  Cardinality(NearNow(n, t)') + (IF WaitingSince(n, t)' THEN 1 ELSE 0)
                 <= Cardinality(Since(times'[n], t))
  <2>1. ~Waiting /\ ~Waiting'
    BY <1>5, Refusals DEF Waiting
  <2>2. NearNow(n, t)' = NearNow(n, t) /\ times' = times /\ now' = now
    BY <1>5, Refusals DEF NearNow
  <2>3. Edge = now /\ Edge' = now
    BY <2>1, <2>2 DEF Edge
  <2> QED
    BY <1>2, <1>3, <2>1, <2>2, <2>3 DEF WaitingSince
<1>6. ASSUME NEW m \in Messages, Accept(m)
      PROVE  Cardinality(NearNow(n, t)') + (IF WaitingSince(n, t)' THEN 1 ELSE 0)
                 <= Cardinality(Since(times'[n], t))
  <2>1. /\ todo = << >> /\ now' = now /\ cur'.msg = m /\ cur'.at = now
        /\ m.node \in Nodes
    BY <1>6, AcceptTimes
  <2>2. NearNow(n, t)' = NearNow(n, t)
    BY <1>6, AcceptTimes DEF NearNow
  <2>3. ~Waiting
    BY <2>1 DEF Waiting
  <2>4. Edge = now /\ Edge' = now
    BY <2>1, <2>3 DEF Edge
  <2>5. near <= slots /\ t >= now - FloodWindow
    BY <1>2, <1>3, <2>3, <2>4 DEF WaitingSince
  <2>6. CASE n # m.node
    <3>1. times'[n] = times[n]
      BY <1>6, <2>6, AcceptTimes
    <3>2. ~WaitingSince(n, t)'
      BY <2>1, <2>6 DEF WaitingSince
    <3> QED
      BY <1>2, <2>2, <2>5, <3>1, <3>2
  <2>7. CASE n = m.node
    <3>1. times'[n] = Arrivals(n)
      BY <1>6, <2>7, AcceptTimes
    <3>2. /\ Arrivals(n) \in Seq(Nat)
          /\ slots + (IF now >= t THEN 1 ELSE 0) <= Cardinality(Since(Arrivals(n), t))
      BY <2>5, ArrivalsTally DEF Ordered
    <3>3. Cardinality(Since(Arrivals(n), t)) \in Nat
      BY <3>2, SinceFinite
    <3>4. WaitingSince(n, t)' => now >= t
      BY <2>1 DEF WaitingSince
    <3> HIDE DEF near, slots
    <3>5. near + (IF WaitingSince(n, t)' THEN 1 ELSE 0) <= Cardinality(Since(Arrivals(n), t))
      BY <1>2, <2>5, <3>2, <3>3, <3>4
    <3> QED
      BY <2>2, <3>1, <3>5 DEF near
  <2> QED
    BY <2>6, <2>7
<1>7. CASE SaveBlacklist \/ SaveOffset \/ UNCHANGED vars
  <2>1. UNCHANGED <<now, times, todo, cur, sent, boot>>
    BY <1>7 DEF SaveBlacklist, SaveOffset, vars, guards
  <2>2. /\ Edge' = Edge /\ NearNow(n, t)' = NearNow(n, t)
        /\ WaitingSince(n, t)' = WaitingSince(n, t)
    BY <2>1 DEF Edge, Waiting, NearNow, WaitingSince
  <2> QED
    BY <1>3, <2>1, <2>2
<1>8. CASE Tick
  <2>1. now' = now + 1 /\ UNCHANGED <<times, todo, cur, sent, boot>>
    BY <1>8 DEF Tick, guards
  <2>2. NearNow(n, t)' = NearNow(n, t) /\ WaitingSince(n, t)' = WaitingSince(n, t)
    BY <2>1 DEF Waiting, NearNow, WaitingSince
  <2>3. Edge <= Edge' /\ Edge' \in Nat
    BY <1>1, <2>1 DEF Edge, Waiting
  <2>4. ASSUME NEW a \in Nat, NEW b \in Nat, a <= b, t >= b - FloodWindow
        PROVE  t >= a - FloodWindow
    BY <1>1, <2>4
  <2>5. t >= Edge - FloodWindow
    BY <1>4, <2>3, <2>4
  <2> QED
    BY <1>3, <2>1, <2>2, <2>5
<1>9. CASE Restart
  <2>1. boot' = boot + 1 /\ sent' = sent /\ DOMAIN todo' = {}
    BY <1>9 DEF Restart
  <2>2. ~WaitingSince(n, t)'
    BY <2>1 DEF Waiting, WaitingSince
  <2>3. Cardinality(NearNow(n, t)') = 0
    <3>1. \A i \in DOMAIN sent : sent[i].boot # boot + 1
      <4>1. \A i \in DOMAIN sent : sent[i].boot \in Nat /\ sent[i].boot <= boot
        BY ElementTypes DEF Ordered
      <4>2. boot \in Nat
        BY DEF TypeOK
      <4> QED
        BY <4>1, <4>2
    <3>2. NearNow(n, t)' = {}
      BY <2>1, <3>1 DEF NearNow
    <3> QED
      BY <3>2, FS_EmptySet
  <2>4. Cardinality(Since(times'[n], t)) \in Nat
    <3>1. times'[n] \in Seq(Nat)
      BY DEF TypeOK
    <3> QED
      BY <3>1, SinceFinite
  <2> QED
    BY <2>1, <2>2, <2>3, <2>4
<1>10. CASE Send
  <2>1. todo # << >> /\ todo' = Tail(todo) /\ UNCHANGED <<now, times, cur, boot>>
    BY <1>10 DEF Send, SendReady, guards
  <2>3. /\ DOMAIN sent = 1 .. Len(sent) /\ Len(sent) \in Nat
        /\ DOMAIN sent' = DOMAIN sent \cup {Len(sent) + 1}
        /\ \A i \in DOMAIN sent : sent'[i] = sent[i]
        /\ sent'[Len(sent) + 1].kind = todo[1].kind /\ sent'[Len(sent) + 1].msg = cur.msg
        /\ sent'[Len(sent) + 1].boot = boot /\ sent'[Len(sent) + 1].at = cur.at
    BY <1>10, SentGrows
  <2>4. CASE todo[1].kind # "TELEMETRY"
    <3>1. Waiting' = Waiting /\ Edge' = Edge
      BY <1>10, <2>4, WaitingSend
    <3>2. WaitingSince(n, t)' = WaitingSince(n, t)
      BY <2>1, <3>1 DEF WaitingSince
    <3>3. NearNow(n, t)' = NearNow(n, t)
      BY <2>1, <2>3, <2>4 DEF NearNow
    <3> QED
      BY <1>3, <2>1, <3>1, <3>2, <3>3
  <2>5. CASE todo[1].kind = "TELEMETRY"
    <3>1. Waiting /\ Edge = cur.at
      BY <1>10, <2>5, WaitingSend
    <3>2. ~Waiting' /\ Edge' = now
      BY <1>10, <2>5, WaitingSend
    <3>3. near + (IF WaitingSince(n, t) THEN 1 ELSE 0) <= slots
      BY <1>1, <1>3, <3>1, <3>2
    <3>4. CASE cur.msg.node = n /\ cur.at >= t
      <4>1. NearNow(n, t)' = NearNow(n, t) \cup {Len(sent) + 1}
        BY <2>1, <2>3, <2>5, <3>4 DEF NearNow
      <4>2. Len(sent) + 1 \notin NearNow(n, t)
        BY <2>3 DEF NearNow
      <4>3. Cardinality(NearNow(n, t)') = near + 1
        BY <4>1, <4>2, NearFinite, FS_AddElement
      <4>4. WaitingSince(n, t) /\ ~WaitingSince(n, t)'
        BY <3>1, <3>2, <3>4 DEF WaitingSince
      <4> QED
        BY <1>2, <2>1, <3>3, <4>3, <4>4
    <3>5. CASE ~(cur.msg.node = n /\ cur.at >= t)
      <4>1. NearNow(n, t)' = NearNow(n, t)
        BY <2>1, <2>3, <3>5 DEF NearNow
      <4>2. ~WaitingSince(n, t) /\ ~WaitingSince(n, t)'
        BY <3>2, <3>5 DEF WaitingSince
      <4> QED
        BY <1>2, <2>1, <3>3, <4>1, <4>2
    <3> QED
      BY <3>4, <3>5
  <2> QED
    BY <2>4, <2>5
<1> QED
  BY <1>5, <1>6, <1>7, <1>8, <1>9, <1>10 DEF Next, Receive

------------------------------------------------------------------------------
(* Every step keeps the alarms.                                              *)

\* When CHECK 4 finds something its alert is planned.
LEMMA AcceptReportsFlood ==
    ASSUME TypeOK, NEW m \in Messages, Accept(m), FloodReport(m.node)
    PROVE  \E k \in DOMAIN todo' : todo'[k].kind = "FLOOD_ATTACK"
<1>1. PICK o \in Nat, remarks \in Remarks :
          remarks = RemarksOn(m) /\ todo' = AcceptPlan(remarks, o)
  <2>1. offset + 1 \in Nat /\ todo' = AcceptPlan(RemarksOn(m), offset + 1)
    BY DEF Accept, TypeOK
  <2> QED
    BY <2>1, RemarksType
<1>2. "FLOOD_ATTACK" \in remarks
  BY <1>1 DEF RemarksOn
<1>3. todo'[1] = Emission("FLOOD_ATTACK", o, o)
  BY <1>1, <1>2, AcceptPlanShape
<1>4. todo' \in Seq(Emissions) /\ todo' # << >>
  BY <1>1, AcceptPlanNumbers
<1>5. 1 \in DOMAIN todo'
  BY <1>4
<1> QED
  BY <1>3, <1>5 DEF Emission

\* Every step keeps Alarmed.
LEMMA AlarmedNext == TypeOK /\ Ordered /\ Alarmed /\ [Next]_vars => Alarmed'
<1> SUFFICES ASSUME TypeOK, Ordered, Alarmed, [Next]_vars PROVE Alarmed'
  OBVIOUS
<1>1. /\ now \in Nat /\ cur.at \in Nat /\ FloodWindow \in Nat \ {0} /\ FloodMax \in Nat
      /\ cur.msg \in Messages
  BY ConstantsAssumption DEF TypeOK
<1>2. cur.msg.node \in Nodes
  BY <1>1, GuardTypes
<1>3. ASSUME todo = << >>
      PROVE  /\ ~Waiting
             /\ \A n \in Nodes : floodAlerted[n] = Never \/ AlertOut(n)
  <2>1. DOMAIN todo = {}
    BY <1>3
  <2> QED
    BY <2>1 DEF Alarmed, AlertDue, Waiting
<1>4. ASSUME NEW m \in Messages,
             DropBlacklisted(m) \/ Tampered(m) \/ Rogue(m) \/ Replayed(m)
      PROVE  Alarmed'
  <2>1. /\ UNCHANGED <<floodAlerted, sent, boot>> /\ todo = << >>
        /\ \A k \in DOMAIN todo' : todo'[k].kind # "TELEMETRY"
    BY <1>4, Refusals
  <2>2. ~Waiting'
    BY <2>1 DEF Waiting
  <2>3. \A n \in Nodes : floodAlerted'[n] = Never \/ AlertOut(n)'
    BY <1>3, <2>1 DEF AlertOut, FloodNow
  <2> QED
    BY <2>2, <2>3 DEF Alarmed
<1>5. ASSUME NEW m \in Messages, Accept(m) PROVE Alarmed'
  <2>1. /\ todo = << >> /\ sent' = sent /\ boot' = boot
        /\ cur'.msg = m /\ cur'.at = now /\ m.node \in Nodes
        /\ times'[m.node] = Arrivals(m.node)
    BY <1>5, AcceptTimes
  <2>2. floodAlerted' = IF FloodReport(m.node)
                        THEN [floodAlerted EXCEPT ![m.node] = now] ELSE floodAlerted
    BY <1>5 DEF Accept
  <2>3. DOMAIN floodAlerted = Nodes /\ floodAlerted[m.node] \in Int
    <3>1. floodAlerted \in [Nodes -> Nat \cup {Never}] /\ Never \in Int
      BY <1>1 DEF TypeOK, Never
    <3> QED
      BY <2>1, <3>1
  <2>4. ASSUME NEW n \in Nodes
        PROVE  floodAlerted'[n] = Never \/ AlertOut(n)' \/ AlertDue(n)'
    <3>1. CASE FloodReport(m.node) /\ n = m.node
      <4>1. floodAlerted'[n] = now
        BY <2>2, <2>3, <3>1
      <4>2. \E k \in DOMAIN todo' : todo'[k].kind = "FLOOD_ATTACK"
        BY <1>5, <3>1, AcceptReportsFlood
      <4> QED
        BY <2>1, <3>1, <4>1, <4>2 DEF AlertDue
    <3>2. CASE ~(FloodReport(m.node) /\ n = m.node)
      <4>1. floodAlerted'[n] = floodAlerted[n]
        BY <2>2, <2>3, <3>2
      <4> QED
        BY <1>3, <2>1, <4>1 DEF AlertOut, FloodNow
    <3> QED
      BY <3>1, <3>2
  <2>5. ASSUME Len(times'[m.node]) > FloodMax
        PROVE  floodAlerted'[m.node] > now - FloodWindow
    <3>1. Flooding(m.node)
      BY <2>1, <2>5 DEF Flooding
    <3>2. CASE FloodReport(m.node)
      <4>1. floodAlerted'[m.node] = now
        BY <2>1, <2>2, <2>3, <3>2
      <4> QED
        BY <1>1, <4>1
    <3>3. CASE ~FloodReport(m.node)
      <4>1. ~(now - floodAlerted[m.node] >= FloodWindow)
        BY <3>1, <3>3 DEF FloodReport
      <4>2. floodAlerted'[m.node] = floodAlerted[m.node]
        BY <2>2, <3>3
      <4> QED
        BY <1>1, <2>3, <4>1, <4>2
    <3> QED
      BY <3>2, <3>3
  <2> QED
    BY <2>1, <2>4, <2>5 DEF Alarmed
<1>6. CASE SaveBlacklist \/ SaveOffset \/ Tick \/ UNCHANGED vars
  <2>1. UNCHANGED <<times, floodAlerted, todo, cur, sent, boot>>
    BY <1>6 DEF SaveBlacklist, SaveOffset, Tick, vars, guards
  <2> QED
    BY <2>1 DEF Alarmed, AlertOut, AlertDue, FloodNow, Waiting
<1>7. CASE Send
  <2>1. /\ todo # << >> /\ todo' = Tail(todo)
        /\ UNCHANGED <<times, floodAlerted, cur, boot>>
    BY <1>7 DEF Send, SendReady, guards
  <2>2. /\ Len(todo) \in Nat \ {0} /\ DOMAIN todo = 1 .. Len(todo)
        /\ DOMAIN todo' = 1 .. Len(todo) - 1
        /\ \A k \in DOMAIN todo' : todo'[k] = todo[k + 1] /\ k + 1 \in DOMAIN todo
    BY <2>1, TailOfTodo
  <2>3. /\ DOMAIN sent' = DOMAIN sent \cup {Len(sent) + 1}
        /\ DOMAIN sent = 1 .. Len(sent)
        /\ \A i \in DOMAIN sent : sent'[i] = sent[i]
        /\ sent'[Len(sent) + 1].kind = todo[1].kind /\ sent'[Len(sent) + 1].msg = cur.msg
        /\ sent'[Len(sent) + 1].boot = boot /\ sent'[Len(sent) + 1].at = cur.at
    BY <1>7, SentGrows
  <2>4. ASSUME NEW n \in Nodes
        PROVE  floodAlerted'[n] = Never \/ AlertOut(n)' \/ AlertDue(n)'
    <3>1. CASE floodAlerted[n] = Never
      BY <2>1, <3>1
    <3>2. CASE AlertOut(n)
      BY <2>1, <2>3, <3>2 DEF AlertOut, FloodNow
    <3>3. CASE AlertDue(n)
      <4>1. PICK k \in DOMAIN todo : todo[k].kind = "FLOOD_ATTACK"
        BY <3>3 DEF AlertDue
      <4>2. CASE k = 1
        <5>1. PICK i \in DOMAIN sent' : i = Len(sent) + 1
          BY <2>3
        <5>2. /\ sent'[i].kind = "FLOOD_ATTACK" /\ sent'[i].boot = boot
              /\ sent'[i].msg.node = n /\ sent'[i].at = floodAlerted[n]
          BY <2>3, <3>3, <4>1, <4>2, <5>1 DEF AlertDue
        <5> QED
          BY <2>1, <5>2 DEF AlertOut, FloodNow
      <4>3. CASE k # 1
        <5>1. k - 1 \in DOMAIN todo' /\ (k - 1) + 1 = k
          BY <2>2, <4>3
        <5>2. todo'[k - 1] = todo[k]
          BY <2>2, <5>1
        <5> QED
          BY <2>1, <3>3, <4>1, <5>1, <5>2 DEF AlertDue
      <4> QED
        BY <4>2, <4>3
    <3> QED
      BY <3>1, <3>2, <3>3 DEF Alarmed
  <2>5. Waiting' => Waiting
    BY <2>2 DEF Waiting
  <2> QED
    BY <2>1, <2>4, <2>5 DEF Alarmed
<1>8. CASE Restart
  <2>1. floodAlerted' = NoAlerts /\ DOMAIN todo' = {}
    BY <1>8 DEF Restart
  <2> QED
    BY <2>1 DEF NoAlerts, Alarmed, Waiting
<1> QED
  BY <1>4, <1>5, <1>6, <1>7, <1>8 DEF Next, Receive

\* A message over the limit is only forwarded within a window of an alert.
LEMMA FloodIsReportedNext ==
    TypeOK /\ Ordered /\ Tallied /\ Alarmed /\ FloodIsReported /\ [Next]_vars
        => FloodIsReported'
<1> SUFFICES ASSUME TypeOK, Ordered, Tallied, Alarmed, FloodIsReported, [Next]_vars
             PROVE  FloodIsReported'
  OBVIOUS
<1>1. CASE sent' = sent
  BY <1>1 DEF FloodIsReported, Forwarded, Together
<1>2. CASE Send
  <2> DEFINE Near(j) == {i \in Forwarded : /\ i <= j /\ Together(i, j)
                                           /\ sent[i].at >= sent[j].at - FloodWindow}
             Said(j) == \E i \in 1 .. j : /\ sent[i].kind = "FLOOD_ATTACK" /\ Together(i, j)
                                          /\ sent[i].at > sent[j].at - FloodWindow
  <2> SUFFICES ASSUME NEW j \in Forwarded', Cardinality(Near(j)') > FloodMax
               PROVE  Said(j)'
    BY DEF FloodIsReported
  <2>1. /\ DOMAIN sent = 1 .. Len(sent) /\ Len(sent) \in Nat
        /\ DOMAIN sent' = 1 .. Len(sent) + 1
        /\ \A i \in DOMAIN sent : sent'[i] = sent[i]
        /\ sent'[Len(sent) + 1].kind = todo[1].kind /\ sent'[Len(sent) + 1].msg = cur.msg
        /\ sent'[Len(sent) + 1].boot = boot /\ sent'[Len(sent) + 1].at = cur.at
    BY <1>2, SentGrows
  <2>2. j \in 1 .. Len(sent) + 1 /\ sent'[j].kind = "TELEMETRY"
    BY <2>1 DEF Forwarded
  <2>3. CASE j \in DOMAIN sent
    <3>1. Near(j)' = Near(j)
      BY <2>1, <2>3 DEF Forwarded, Together
    <3>2. j \in Forwarded
      BY <2>1, <2>2, <2>3 DEF Forwarded
    <3>3. Said(j)
      BY <3>1, <3>2 DEF FloodIsReported
    <3>4. \A i \in 1 .. j : i \in DOMAIN sent
      BY <2>1, <2>3
    <3> QED
      BY <2>1, <2>3, <3>3, <3>4 DEF Together
  <2>4. CASE j = Len(sent) + 1
    <3> DEFINE n == cur.msg.node
               t == cur.at - FloodWindow
    <3>1. /\ cur.at \in Nat /\ now \in Nat /\ cur.at <= now /\ FloodWindow \in Nat \ {0}
          /\ FloodMax \in Nat /\ cur.msg \in Messages /\ boot \in Nat
      BY ConstantsAssumption DEF TypeOK, Ordered
    <3>2. n \in Nodes /\ t \in Int
      BY <3>1, GuardTypes
    <3>3. times[n] \in Seq(Nat)
      BY <3>2 DEF TypeOK
    <3>4. /\ 1 \in DOMAIN todo /\ DOMAIN todo = 1 .. Len(todo)
          /\ todo[1].kind = "TELEMETRY"
      BY <1>2, <2>1, <2>2, <2>4, TailOfTodo DEF Send, SendReady
    <3>5. Waiting /\ Edge = cur.at /\ WaitingSince(n, t)
      BY <3>1, <3>4 DEF Waiting, Edge, WaitingSince
    <3>6. Cardinality(NearNow(n, t)) + 1 <= Cardinality(Since(times[n], t))
      BY <3>1, <3>2, <3>5 DEF Tallied
    <3>7. /\ Near(j)' = NearNow(n, t) \cup {j} /\ j \notin NearNow(n, t)
      <4>1. /\ sent'[j].kind = "TELEMETRY" /\ sent'[j].msg.node = n
            /\ sent'[j].boot = boot /\ sent'[j].at = cur.at
            /\ j \notin DOMAIN sent /\ DOMAIN sent' = DOMAIN sent \cup {j}
            /\ \A i \in DOMAIN sent : i <= j /\ sent'[i] = sent[i]
        BY <2>1, <2>2, <2>4
      <4>2. j <= j /\ cur.at >= t
        BY <2>1, <2>4, <3>1
      <4>3. Near(j)' = {i \in DOMAIN sent' :
                /\ sent'[i].kind = "TELEMETRY" /\ i <= j /\ sent'[i].msg.node = n
                /\ sent'[i].boot = boot /\ sent'[i].at >= t}
        BY <4>1 DEF Forwarded, Together
      <4>4. \A i \in DOMAIN sent' : i \in Near(j)' <=> i = j \/ i \in NearNow(n, t)
        BY <4>1, <4>2, <4>3 DEF NearNow
      <4>5. NearNow(n, t) \subseteq DOMAIN sent /\ Near(j)' \subseteq DOMAIN sent'
        BY <4>3 DEF NearNow
      <4> QED
        BY <4>1, <4>4, <4>5
    <3>8. Cardinality(Near(j)') = Cardinality(NearNow(n, t)) + 1
      BY <3>7, NearFinite, FS_AddElement
    <3>9. Cardinality(Since(times[n], t)) <= Len(times[n]) /\ Len(times[n]) \in Nat
          /\ Cardinality(Since(times[n], t)) \in Nat /\ Cardinality(NearNow(n, t)) \in Nat
      BY <3>2, <3>3, SinceFinite, NearFinite, LenProperties
    <3>10. Len(times[n]) > FloodMax
      BY <3>1, <3>6, <3>8, <3>9
    <3>11. floodAlerted[n] > t
      BY <3>5, <3>10 DEF Alarmed
    <3>12. floodAlerted[n] # Never
      BY <3>1, <3>11 DEF Never
    <3>13. ~AlertDue(n)
      <4>1. \A k \in DOMAIN todo : k = 1
        <5>1. 1 = Len(todo)
          BY <3>4 DEF Ordered
        <5>2. DOMAIN todo = 1 .. 1
          BY <3>4, <5>1
        <5> QED
          BY <5>2
      <4> QED
        BY <3>4, <4>1 DEF AlertDue
    <3>14. PICK i \in DOMAIN sent :
               FloodNow(i) /\ sent[i].msg.node = n /\ sent[i].at = floodAlerted[n]
      BY <3>2, <3>12, <3>13 DEF Alarmed, AlertOut
    <3>15. i \in 1 .. j /\ sent'[i] = sent[i]
      BY <2>1, <2>4
    <3> QED
      BY <2>1, <2>4, <3>11, <3>14, <3>15 DEF FloodNow, Together
  <2> QED
    BY <2>1, <2>2, <2>3, <2>4
<1> QED
  BY <1>1, <1>2, OnlySendSends

\* A node that sends more than the limit within one window is reported within a window of its
\* last message, for any limit, any window and any arrivals (CHECK 4, FloodGuard.check).
THEOREM FloodsAreReported == Spec => []FloodIsReported
<1>1. Init => Ordered /\ Tallied /\ Alarmed /\ FloodIsReported
  <2> SUFFICES ASSUME Init PROVE Ordered /\ Tallied /\ Alarmed /\ FloodIsReported
    OBVIOUS
  <2>1. /\ DOMAIN todo = {} /\ DOMAIN sent = {} /\ sent = << >>
        /\ now = 0 /\ cur.at = 0 /\ \A n \in Nodes : times[n] = << >>
    BY DEF Init, NoEntries
  <2>2. ~Waiting
    BY <2>1 DEF Waiting
  <2>3. Ordered
    BY <2>1 DEF Ordered, InOrder
  <2>4. Tallied
    <3>1. \A n, t : NearNow(n, t) = {} /\ ~WaitingSince(n, t)
      BY <2>1, <2>2 DEF NearNow, WaitingSince
    <3>2. \A n \in Nodes, t \in Int : Since(times[n], t) = {}
      BY <2>1 DEF Since
    <3> QED
      BY <3>1, <3>2, FS_EmptySet DEF Tallied
  <2>5. Alarmed
    BY <2>2 DEF Init, Alarmed, NoAlerts
  <2>6. FloodIsReported
    BY <2>1 DEF FloodIsReported, Forwarded
  <2> QED
    BY <2>3, <2>4, <2>5, <2>6
<1>2. TypeOK /\ [Next]_vars => TypeOK'
  BY TypeNext
<1> QED
  BY <1>1, <1>2, TypeInit, OrderedNext, TalliedNext, AlarmedNext, FloodIsReportedNext,
     PTL DEF Spec

------------------------------------------------------------------------------
(* Copies.                                                                   *)

\* Forwarded in this life of the process.
MessageNow(i) == sent[i].kind = "TELEMETRY" /\ sent[i].boot = boot

\* The entry ReplayGuard made for it.
EntryOf(i) == [at |-> sent[i].at, id |-> sent[i].msg.id]

\* What this life has forwarded of its node from i on.
SinceThen(i) ==
    {k \in DOMAIN sent : i <= k /\ MessageNow(k) /\ sent[k].msg.node = sent[i].msg.node}

WaitingOf(n) == Waiting /\ cur.msg.node = n

\* ReplayGuard._seen is in order of time.
Dated ==
    \A n \in Nodes : \A p, q \in DOMAIN seen[n] :
        seen[n][p].at <= now /\ (p < q => seen[n][p].at <= seen[n][q].at)

\* A forwarded message is in the deque, with no more entries behind it than messages
\* forwarded since, unless it is too old or ReplayWindow messages have followed.
Kept ==
    \A i \in DOMAIN sent : MessageNow(i) =>
        LET n == sent[i].msg.node
            since == Cardinality(SinceThen(i))
        IN  \/ sent[i].at < Edge - MaxAge
            \/ since >= ReplayWindow
            \/ \E p \in DOMAIN seen[n] :
                   /\ seen[n][p] = EntryOf(i)
                   /\ Len(seen[n]) - p < since + (IF WaitingOf(n) THEN 1 ELSE 0)

\* The message in hand was dated ahead when i, its first copy, came, and that is long ago.
Forgotten(i) == sent[i].at < cur.msg.ts /\ cur.at > sent[i].at + MaxAge

\* A message waiting has the last entry of its node, and its copies ReplayWindow messages
\* behind them unless they were dated ahead and are forgotten.
Novel ==
    Waiting =>
        LET n == cur.msg.node
        IN  /\ Len(seen[n]) \in DOMAIN seen[n]
            /\ seen[n][Len(seen[n])] = [at |-> cur.at, id |-> cur.msg.id]
            /\ \A i \in DOMAIN sent : MessageNow(i) /\ sent[i].msg = cur.msg
                   => Cardinality(SinceThen(i)) >= ReplayWindow \/ Forgotten(i)

\* Pruning takes a prefix of a node's deque, all of it too old.
LEMMA LiveIsSuffix ==
    ASSUME TypeOK, Dated, NEW n \in Nodes
    PROVE  \E c \in 0 .. Len(seen[n]) :
               /\ LiveEntries(n) \in Seq(Entries) /\ Len(LiveEntries(n)) = Len(seen[n]) - c
               /\ \A i \in 1 .. Len(seen[n]) - c : LiveEntries(n)[i] = seen[n][c + i]
               /\ \A j \in 1 .. c : seen[n][j].at < now - MaxAge
<1> DEFINE s == seen[n]
           old == {i \in DOMAIN s : s[i].at < now - MaxAge}
<1>1. s \in Seq(Entries) /\ now \in Nat /\ MaxAge \in Nat
  BY ConstantsAssumption DEF TypeOK
<1>2. Len(s) \in Nat /\ DOMAIN s = 1 .. Len(s) /\ \A i \in 1 .. Len(s) : s[i] \in Entries
  BY <1>1, LenProperties, ElementOfSeq
<1>3. \A p, q \in DOMAIN s : p < q => s[p].at <= s[q].at
  BY DEF Dated
<1>4. LiveEntries(n) = PopOld(s, old)
  BY DEF LiveEntries
<1>5. \A j \in old : s[j].at < now - MaxAge
  OBVIOUS
<1>6. old \in SUBSET DOMAIN s
  OBVIOUS
<1> HIDE DEF s
<1>7. \A i \in old : \A j \in 1 .. i : j \in old
  <2> SUFFICES ASSUME NEW i \in old, NEW j \in 1 .. i PROVE j \in old
    OBVIOUS
  <2>1. i \in 1 .. Len(s) /\ j \in 1 .. Len(s) /\ s[i].at < now - MaxAge
    BY <1>2
  <2>2. s[i].at \in Nat /\ s[j].at \in Nat
    BY <1>2, <2>1 DEF Entries
  <2>3. s[j].at <= s[i].at
    BY <1>2, <1>3, <2>1, <2>2
  <2> QED
    BY <1>1, <1>2, <2>1, <2>2, <2>3
<1> HIDE DEF old
<1>8. PICK c \in 0 .. Len(s) :
          /\ PopOld(s, old) \in Seq(Entries) /\ Len(PopOld(s, old)) = Len(s) - c
          /\ \A i \in 1 .. Len(s) - c : PopOld(s, old)[i] = s[c + i]
          /\ \A j \in 1 .. c : j \in old
  BY <1>1, <1>6, <1>7, PopOldTakesPrefix
<1> QED
  BY <1>4, <1>5, <1>8 DEF s

\* Recording takes a prefix as well: what is too old, and one entry of a full deque.
LEMMA RecordedIsSuffix ==
    ASSUME TypeOK, Dated, NEW m \in Messages
    PROVE  LET s == seen[m.node]
           IN  \E d \in 0 .. Len(s) :
                   /\ Recorded(m) \in Seq(Entries) /\ Len(Recorded(m)) = Len(s) - d + 1
                   /\ \A i \in 1 .. Len(s) - d : Recorded(m)[i] = s[d + i]
                   /\ Recorded(m)[Len(s) - d + 1] = [at |-> now, id |-> m.id]
                   /\ \A j \in 1 .. d : \/ s[j].at < now - MaxAge
                                        \/ Len(s) - j + 1 >= ReplayWindow
<1> DEFINE s == seen[m.node]
           live == LiveEntries(m.node)
           kept == IF Len(live) >= ReplayWindow THEN Tail(live) ELSE live
           new == [at |-> now, id |-> m.id]
<1>1. m.node \in Nodes /\ m.id \in MsgIds /\ now \in Nat /\ ReplayWindow \in Nat \ {0}
  BY ConstantsAssumption DEF MessageType, TypeOK
<1>2. s \in Seq(Entries) /\ Len(s) \in Nat
  BY <1>1, LenProperties DEF TypeOK
<1>3. Recorded(m) = Append(kept, new) /\ new \in Entries
  BY <1>1 DEF Recorded, Entries
<1>4. PICK c \in 0 .. Len(s) :
          /\ live \in Seq(Entries) /\ Len(live) = Len(s) - c
          /\ \A i \in 1 .. Len(s) - c : live[i] = s[c + i]
          /\ \A j \in 1 .. c : s[j].at < now - MaxAge
  BY <1>1, LiveIsSuffix
<1> HIDE DEF s, live, new
<1>5. \E d \in 0 .. Len(s) :
          /\ kept \in Seq(Entries) /\ Len(kept) = Len(s) - d
          /\ \A i \in 1 .. Len(s) - d : kept[i] = s[d + i]
          /\ \A j \in 1 .. d : s[j].at < now - MaxAge \/ Len(s) - j + 1 >= ReplayWindow
  <2>1. CASE Len(live) >= ReplayWindow
    <3>1. live # << >> /\ Len(live) \in Nat \ {0}
      BY <1>1, <1>2, <1>4, <2>1
    <3>2. /\ Tail(live) \in Seq(Entries) /\ Len(Tail(live)) = Len(live) - 1
          /\ \A i \in 1 .. Len(Tail(live)) : Tail(live)[i] = live[i + 1]
      BY <1>4, <3>1, HeadTailProperties
    <3> DEFINE d == c + 1
    <3>3. d \in 0 .. Len(s) /\ Len(Tail(live)) = Len(s) - d
      BY <1>2, <1>4, <3>1, <3>2
    <3>4. \A i \in 1 .. Len(s) - d : Tail(live)[i] = s[d + i]
      <4> SUFFICES ASSUME NEW i \in 1 .. Len(s) - d PROVE Tail(live)[i] = s[d + i]
        OBVIOUS
      <4>1. Tail(live)[i] = live[i + 1]
        BY <3>2, <3>3
      <4>2. i + 1 \in 1 .. Len(s) - c /\ c + (i + 1) = d + i
        BY <1>2
      <4> QED
        BY <1>4, <4>1, <4>2
    <3>5. \A j \in 1 .. d : s[j].at < now - MaxAge \/ Len(s) - j + 1 >= ReplayWindow
      <4> SUFFICES ASSUME NEW j \in 1 .. d
                   PROVE  s[j].at < now - MaxAge \/ Len(s) - j + 1 >= ReplayWindow
        OBVIOUS
      <4>1. CASE j \in 1 .. c
        BY <1>4, <4>1
      <4>2. CASE j = c + 1
        BY <1>1, <1>2, <1>4, <2>1, <4>2
      <4> QED
        BY <1>2, <4>1, <4>2
    <3>6. kept = Tail(live)
      BY <2>1
    <3> HIDE DEF d, kept
    <3> QED
      BY <3>2, <3>3, <3>4, <3>5, <3>6
  <2>2. CASE ~(Len(live) >= ReplayWindow)
    <3>1. kept = live
      BY <2>2
    <3> HIDE DEF kept
    <3> QED
      BY <1>4, <3>1
  <2> QED
    BY <2>1, <2>2
<1> HIDE DEF kept
<1>6. PICK d \in 0 .. Len(s) :
          /\ kept \in Seq(Entries) /\ Len(kept) = Len(s) - d
          /\ \A i \in 1 .. Len(s) - d : kept[i] = s[d + i]
          /\ \A j \in 1 .. d : s[j].at < now - MaxAge \/ Len(s) - j + 1 >= ReplayWindow
  BY <1>5
<1>7. /\ Append(kept, new) \in Seq(Entries) /\ Len(Append(kept, new)) = Len(kept) + 1
      /\ \A i \in 1 .. Len(kept) : Append(kept, new)[i] = kept[i]
      /\ Append(kept, new)[Len(kept) + 1] = new
  BY <1>3, <1>6, AppendProperties
<1> QED
  BY <1>3, <1>6, <1>7 DEF s, new

\* What refusing a message does to the deques.
LEMMA RefusalsSeen ==
    ASSUME TypeOK, Dated, NEW m \in Messages, NEW n \in Nodes,
           DropBlacklisted(m) \/ Tampered(m) \/ Rogue(m) \/ Replayed(m)
    PROVE  /\ seen'[n] \in Seq(Entries)
           /\ \E c \in 0 .. Len(seen[n]) :
                  /\ Len(seen'[n]) = Len(seen[n]) - c
                  /\ \A i \in 1 .. Len(seen[n]) - c : seen'[n][i] = seen[n][c + i]
                  /\ \A j \in 1 .. c : seen[n][j].at < now - MaxAge
<1>1. seen \in [Nodes -> Seq(Entries)] /\ Len(seen[n]) \in Nat
  BY LenProperties DEF TypeOK
<1>2. seen'[n] \in {seen[n], LiveEntries(n)}
  <2>1. CASE seen' = seen
    BY <2>1
  <2>2. CASE seen' = [seen EXCEPT ![m.node] = LiveEntries(m.node)]
    BY <1>1, <2>2
  <2> QED
    BY <2>1, <2>2 DEF DropBlacklisted, Tampered, Rogue, Replayed, guards
<1>3. CASE seen'[n] = seen[n]
  <2>1. 0 \in 0 .. Len(seen[n]) /\ \A i \in 1 .. Len(seen[n]) : 0 + i = i
    BY <1>1
  <2> QED
    BY <1>1, <1>3, <2>1
<1>4. CASE seen'[n] = LiveEntries(n)
  BY <1>4, LiveIsSuffix
<1> QED
  BY <1>2, <1>3, <1>4

\* What accepting a message does to them.
LEMMA AcceptSeen ==
    ASSUME TypeOK, NEW m \in Messages, Accept(m)
    PROVE  /\ m.node \in Nodes /\ seen'[m.node] = Recorded(m)
           /\ \A n \in Nodes \ {m.node} : seen'[n] = seen[n]
<1>1. m.node \in Nodes
  BY ConstantsAssumption DEF MessageType
<1>2. seen' = [seen EXCEPT ![m.node] = Recorded(m)]
  BY DEF Accept
<1> QED
  BY <1>1, <1>2 DEF TypeOK

\* Every step keeps Dated.
LEMMA DatedNext == TypeOK /\ Dated /\ Ordered /\ [Next]_vars => Dated'
<1> SUFFICES ASSUME TypeOK, Dated, Ordered, [Next]_vars PROVE Dated'
  OBVIOUS
<1> DEFINE InLine(s) == \A p, q \in DOMAIN s :
                            s[p].at <= now /\ (p < q => s[p].at <= s[q].at)
<1>1. /\ now \in Nat /\ seen \in [Nodes -> Seq(Entries)]
      /\ \A n \in Nodes : DOMAIN seen[n] = 1 .. Len(seen[n]) /\ Len(seen[n]) \in Nat
  BY LenProperties DEF TypeOK
<1>2. \A n \in Nodes : InLine(seen[n])
  BY DEF Dated
<1>3. \A n \in Nodes : \A p \in DOMAIN seen[n] : seen[n][p].at \in Nat
  <2> SUFFICES ASSUME NEW n \in Nodes, NEW p \in DOMAIN seen[n] PROVE seen[n][p].at \in Nat
    OBVIOUS
  <2>1. seen[n][p] \in Entries
    BY <1>1, ElementOfSeq
  <2> QED
    BY <2>1 DEF Entries
<1>4. ASSUME NEW m \in Messages,
             DropBlacklisted(m) \/ Tampered(m) \/ Rogue(m) \/ Replayed(m)
      PROVE  Dated'
  <2>1. now' = now
    BY <1>4, Refusals
  <2>2. ASSUME NEW n \in Nodes PROVE InLine(seen'[n])
    <3>1. PICK c \in 0 .. Len(seen[n]) :
              /\ Len(seen'[n]) = Len(seen[n]) - c
              /\ \A i \in 1 .. Len(seen[n]) - c : seen'[n][i] = seen[n][c + i]
      BY <1>4, RefusalsSeen
    <3>2. DOMAIN seen'[n] = 1 .. Len(seen[n]) - c
      <4>1. seen'[n] \in Seq(Entries)
        BY <1>4, RefusalsSeen
      <4> QED
        BY <3>1, <4>1, LenProperties
    <3>3. \A i \in DOMAIN seen'[n] : c + i \in DOMAIN seen[n] /\ seen'[n][i] = seen[n][c + i]
      BY <1>1, <3>1, <3>2
    <3>4. \A i, k \in DOMAIN seen'[n] : i < k => c + i < c + k
      BY <1>1, <3>2
    <3> QED
      BY <1>2, <3>3, <3>4
  <2> QED
    BY <2>1, <2>2 DEF Dated
<1>5. ASSUME NEW m \in Messages, Accept(m) PROVE Dated'
  <2>1. now' = now /\ m.node \in Nodes
    BY <1>5, AcceptTimes
  <2>2. /\ seen'[m.node] = Recorded(m)
        /\ \A n \in Nodes \ {m.node} : seen'[n] = seen[n]
    BY <1>5, AcceptSeen
  <2>3. InLine(Recorded(m))
    <3> DEFINE s == seen[m.node]
               w == Recorded(m)
    <3>1. PICK d \in 0 .. Len(s) :
              /\ w \in Seq(Entries) /\ Len(w) = Len(s) - d + 1
              /\ \A i \in 1 .. Len(s) - d : w[i] = s[d + i]
              /\ w[Len(s) - d + 1] = [at |-> now, id |-> m.id]
      BY RecordedIsSuffix
    <3>2. /\ Len(s) \in Nat /\ DOMAIN s = 1 .. Len(s) /\ InLine(s)
          /\ \A p \in DOMAIN s : s[p].at \in Nat
      BY <1>1, <1>2, <1>3, <2>1
    <3> HIDE DEF s, w
    <3>3. DOMAIN w = 1 .. Len(s) - d + 1
      BY <3>1, LenProperties
    <3>4. \A i \in 1 .. Len(s) - d : d + i \in DOMAIN s /\ w[i] = s[d + i]
      BY <3>1, <3>2
    <3>5. ASSUME NEW p \in DOMAIN w
          PROVE  w[p].at <= now
      <4>1. CASE p \in 1 .. Len(s) - d
        BY <3>2, <3>4, <4>1
      <4>2. CASE p = Len(s) - d + 1
        BY <1>1, <3>1, <4>2
      <4> QED
        BY <3>2, <3>3, <4>1, <4>2
    <3>6. ASSUME NEW p \in DOMAIN w, NEW q \in DOMAIN w, p < q
          PROVE  w[p].at <= w[q].at
      <4>1. CASE q \in 1 .. Len(s) - d
        <5>1. p \in 1 .. Len(s) - d /\ d + p < d + q
          BY <3>2, <3>3, <3>6, <4>1
        <5> QED
          BY <3>2, <3>4, <4>1, <5>1
      <4>2. CASE q = Len(s) - d + 1
        BY <3>1, <3>5, <4>2
      <4> QED
        BY <3>2, <3>3, <4>1, <4>2
    <3> QED
      BY <3>5, <3>6 DEF w
  <2>4. \A n \in Nodes : InLine(seen'[n])
    BY <1>2, <2>2, <2>3
  <2> QED
    BY <2>1, <2>4 DEF Dated
<1>6. CASE SaveBlacklist \/ SaveOffset \/ UNCHANGED vars
  <2>1. UNCHANGED <<now, seen>>
    BY <1>6 DEF SaveBlacklist, SaveOffset, vars, guards
  <2> QED
    BY <2>1 DEF Dated
<1>7. CASE Tick
  <2>1. now' = now + 1 /\ seen' = seen
    BY <1>7 DEF Tick, guards
  <2>2. \A n \in Nodes : \A p, q \in DOMAIN seen[n] :
            seen[n][p].at <= now + 1 /\ (p < q => seen[n][p].at <= seen[n][q].at)
    BY <1>1, <1>2, <1>3
  <2> QED
    BY <2>1, <2>2 DEF Dated
<1>8. CASE Restart
  <2>1. now' = now /\ seen' = NoEntries
    BY <1>8 DEF Restart
  <2>2. \A n \in Nodes : DOMAIN seen'[n] = {}
    BY <2>1 DEF NoEntries
  <2> QED
    BY <2>1, <2>2 DEF Dated
<1>9. CASE Send
  <2>1. UNCHANGED <<now, seen>>
    BY <1>9 DEF Send, guards
  <2> QED
    BY <2>1 DEF Dated
<1> QED
  BY <1>4, <1>5, <1>6, <1>7, <1>8, <1>9 DEF Next, Receive

\* What this life has forwarded is finite.
LEMMA SinceThenFinite ==
    ASSUME TypeOK, NEW i
    PROVE  IsFiniteSet(SinceThen(i)) /\ Cardinality(SinceThen(i)) \in Nat
<1>1. DOMAIN sent = 1 .. Len(sent) /\ Len(sent) \in Nat
  BY LenProperties DEF TypeOK
<1>2. IsFiniteSet(1 .. Len(sent)) /\ SinceThen(i) \subseteq 1 .. Len(sent)
  BY <1>1, UpTo DEF SinceThen
<1> QED
  BY <1>2, FS_Subset, FS_CardinalityType

\* Forwarding one more message adds it to what followed every message of its node.
LEMMA SinceThenSend ==
    ASSUME TypeOK, Send, NEW i \in DOMAIN sent
    PROVE  IF todo[1].kind = "TELEMETRY" /\ sent[i].msg.node = cur.msg.node
           THEN Cardinality(SinceThen(i)') = Cardinality(SinceThen(i)) + 1
           ELSE SinceThen(i)' = SinceThen(i)
<1>1. /\ DOMAIN sent = 1 .. Len(sent) /\ Len(sent) \in Nat
      /\ DOMAIN sent' = DOMAIN sent \cup {Len(sent) + 1}
      /\ \A k \in DOMAIN sent : sent'[k] = sent[k]
      /\ sent'[Len(sent) + 1].kind = todo[1].kind /\ sent'[Len(sent) + 1].msg = cur.msg
      /\ sent'[Len(sent) + 1].boot = boot
  BY SentGrows
<1>2. boot' = boot
  BY DEF Send
<1>3. Len(sent) + 1 \notin SinceThen(i) /\ i <= Len(sent) + 1
  BY <1>1 DEF SinceThen
<1>4. CASE todo[1].kind = "TELEMETRY" /\ sent[i].msg.node = cur.msg.node
  <2>1. SinceThen(i)' = SinceThen(i) \cup {Len(sent) + 1}
    BY <1>1, <1>2, <1>3, <1>4 DEF SinceThen, MessageNow
  <2> QED
    BY <1>3, <1>4, <2>1, SinceThenFinite, FS_AddElement
<1>5. CASE ~(todo[1].kind = "TELEMETRY" /\ sent[i].msg.node = cur.msg.node)
  BY <1>1, <1>2, <1>5 DEF SinceThen, MessageNow
<1> QED
  BY <1>4, <1>5

\* An accepted message waits to be forwarded.
LEMMA AcceptWaits ==
    ASSUME TypeOK, NEW m \in Messages, Accept(m)
    PROVE  Waiting'
<1>1. PICK o \in Nat, remarks \in Remarks : todo' = AcceptPlan(remarks, o)
  <2>1. offset + 1 \in Nat /\ todo' = AcceptPlan(RemarksOn(m), offset + 1)
    BY DEF Accept, TypeOK
  <2> QED
    BY <2>1, RemarksType
<1>2. todo' \in Seq(Emissions) /\ todo' # << >>
  BY <1>1, AcceptPlanNumbers
<1>3. Len(todo') \in 1 .. Len(todo') /\ DOMAIN todo' = 1 .. Len(todo')
  BY <1>2, EmptySeq, LenProperties
<1>4. todo'[Len(todo')].kind = "TELEMETRY"
  BY <1>1, <1>3, AcceptPlanKinds
<1> QED
  BY <1>3, <1>4 DEF Waiting

\* Every step keeps Kept.
LEMMA KeptNext == TypeOK /\ Ordered /\ Dated /\ Kept /\ Novel /\ [Next]_vars => Kept'
<1> SUFFICES ASSUME TypeOK, Ordered, Dated, Kept, Novel, [Next]_vars PROVE Kept'
  OBVIOUS
<1> DEFINE Since2(i) == Cardinality(SinceThen(i))
           Due(n) == IF WaitingOf(n) THEN 1 ELSE 0
           Has(i) == \E p \in DOMAIN seen[sent[i].msg.node] :
                         /\ seen[sent[i].msg.node][p] = EntryOf(i)
                         /\ Len(seen[sent[i].msg.node]) - p
                                < Since2(i) + Due(sent[i].msg.node)
           Fine(i) == \/ sent[i].at < Edge - MaxAge
                      \/ Since2(i) >= ReplayWindow
                      \/ Has(i)
<1>1. \A i \in DOMAIN sent : MessageNow(i) => Fine(i)
  BY DEF Kept
<1> SUFFICES ASSUME NEW i \in DOMAIN sent', MessageNow(i)' PROVE Fine(i)'
  BY DEF Kept
<1>2. /\ now \in Nat /\ cur.at \in Nat /\ cur.at <= now /\ MaxAge \in Nat
      /\ ReplayWindow \in Nat \ {0}
  BY ConstantsAssumption DEF TypeOK, Ordered
<1>3. Edge \in Nat /\ Edge <= now
  BY <1>2 DEF Edge
<1>4. \A n \in Nodes : /\ seen[n] \in Seq(Entries)
                       /\ DOMAIN seen[n] = 1 .. Len(seen[n]) /\ Len(seen[n]) \in Nat
  BY LenProperties DEF TypeOK
<1>5. \A k \in DOMAIN sent : sent[k].msg.node \in Nodes /\ sent[k].at \in Nat
  BY ElementTypes, GuardTypes
<1>6. Since2(i) \in Nat
  BY SinceThenFinite
<1>7. ASSUME NEW m \in Messages,
             DropBlacklisted(m) \/ Tampered(m) \/ Rogue(m) \/ Replayed(m)
      PROVE  Fine(i)'
  <2>1. /\ UNCHANGED <<sent, boot, now>> /\ ~Waiting /\ ~Waiting'
    BY <1>7, Refusals DEF Waiting
  <2>2. /\ SinceThen(i)' = SinceThen(i) /\ MessageNow(i) /\ i \in DOMAIN sent
        /\ EntryOf(i)' = EntryOf(i) /\ Edge = now /\ Edge' = now
    BY <2>1 DEF SinceThen, MessageNow, EntryOf, Edge
  <2> DEFINE n == sent[i].msg.node
  <2>3. n \in Nodes /\ ~WaitingOf(n) /\ ~WaitingOf(n)'
    BY <1>5, <2>1, <2>2 DEF WaitingOf
  <2>4. CASE sent[i].at < Edge - MaxAge \/ Since2(i) >= ReplayWindow
    BY <2>1, <2>2, <2>4
  <2>5. CASE Has(i)
    <3>1. PICK p \in DOMAIN seen[n] : seen[n][p] = EntryOf(i) /\ Len(seen[n]) - p < Since2(i)
      BY <1>6, <2>3, <2>5
    <3>2. PICK c \in 0 .. Len(seen[n]) :
              /\ Len(seen'[n]) = Len(seen[n]) - c
              /\ \A k \in 1 .. Len(seen[n]) - c : seen'[n][k] = seen[n][c + k]
              /\ \A j \in 1 .. c : seen[n][j].at < now - MaxAge
      BY <1>7, <2>3, RefusalsSeen
    <3>3. DOMAIN seen'[n] = 1 .. Len(seen[n]) - c
      <4>1. seen'[n] \in Seq(Entries)
        BY <1>7, <2>3, RefusalsSeen
      <4> QED
        BY <3>2, <4>1, LenProperties
    <3>4. CASE p \in 1 .. c
      <4>1. EntryOf(i).at < now - MaxAge
        BY <3>1, <3>2, <3>4
      <4>2. sent[i].at < now - MaxAge
        BY <4>1 DEF EntryOf
      <4> QED
        BY <2>1, <2>2, <4>2
    <3>5. CASE p \notin 1 .. c
      <4>1. /\ p - c \in DOMAIN seen'[n] /\ c + (p - c) = p
            /\ Len(seen'[n]) - (p - c) = Len(seen[n]) - p
        <5>1. Len(seen[n]) \in Nat /\ p \in 1 .. Len(seen[n])
          BY <1>4, <2>3
        <5>2. c \in Nat /\ p - c \in 1 .. Len(seen[n]) - c
          BY <3>5, <5>1
        <5> QED
          BY <3>2, <3>3, <5>1, <5>2
      <4>2. seen'[n][p - c] = EntryOf(i)
        BY <3>1, <3>2, <3>3, <4>1
      <4>3. Len(seen'[n]) - (p - c) < Since2(i) + 0
        BY <1>6, <3>1, <4>1
      <4> QED
        BY <2>1, <2>2, <2>3, <4>1, <4>2, <4>3
    <3> QED
      BY <3>4, <3>5
  <2> QED
    BY <1>1, <2>2, <2>4, <2>5
<1>8. ASSUME NEW m \in Messages, Accept(m) PROVE Fine(i)'
  <2>1. /\ UNCHANGED <<sent, boot, now>> /\ todo = << >>
        /\ cur'.msg = m /\ cur'.at = now /\ m.node \in Nodes
    BY <1>8, AcceptTimes
  <2>2. ~Waiting /\ Edge = now /\ Edge' = now
    BY <2>1 DEF Edge, Waiting
  <2>3. /\ SinceThen(i)' = SinceThen(i) /\ MessageNow(i) /\ i \in DOMAIN sent
        /\ EntryOf(i)' = EntryOf(i)
    BY <2>1 DEF SinceThen, MessageNow, EntryOf
  <2> DEFINE n == sent[i].msg.node
  <2>4. n \in Nodes /\ ~WaitingOf(n)
    BY <1>5, <2>2, <2>3 DEF WaitingOf
  <2>5. CASE sent[i].at < Edge - MaxAge \/ Since2(i) >= ReplayWindow
    BY <2>1, <2>2, <2>3, <2>5
  <2>6. CASE Has(i) /\ n # m.node
    <3>1. seen'[n] = seen[n]
      BY <1>8, <2>4, <2>6, AcceptSeen
    <3>2. ~WaitingOf(n)'
      BY <2>1, <2>6 DEF WaitingOf
    <3> QED
      BY <2>1, <2>3, <2>4, <2>6, <3>1, <3>2
  <2>7. CASE Has(i) /\ n = m.node
    <3>1. PICK p \in DOMAIN seen[n] : seen[n][p] = EntryOf(i) /\ Len(seen[n]) - p < Since2(i)
      BY <1>6, <2>4, <2>7
    <3>2. PICK d \in 0 .. Len(seen[n]) :
              /\ Recorded(m) \in Seq(Entries) /\ Len(Recorded(m)) = Len(seen[n]) - d + 1
              /\ \A k \in 1 .. Len(seen[n]) - d : Recorded(m)[k] = seen[n][d + k]
              /\ \A j \in 1 .. d : \/ seen[n][j].at < now - MaxAge
                                   \/ Len(seen[n]) - j + 1 >= ReplayWindow
      <4> DEFINE s == seen[m.node]
      <4>1. \E d \in 0 .. Len(s) :
                /\ Recorded(m) \in Seq(Entries) /\ Len(Recorded(m)) = Len(s) - d + 1
                /\ \A k \in 1 .. Len(s) - d : Recorded(m)[k] = s[d + k]
                /\ \A j \in 1 .. d : \/ s[j].at < now - MaxAge
                                     \/ Len(s) - j + 1 >= ReplayWindow
        BY RecordedIsSuffix
      <4>2. s = seen[n]
        BY <2>7
      <4> HIDE DEF s
      <4> QED
        BY <4>1, <4>2
    <3>3. seen'[n] = Recorded(m)
      BY <1>8, <2>7, AcceptSeen
    <3>4. DOMAIN seen'[n] = 1 .. Len(seen[n]) - d + 1
      BY <3>2, <3>3, LenProperties
    <3>5. CASE p \in 1 .. d /\ seen[n][p].at < now - MaxAge
      <4>1. sent[i].at < now - MaxAge
        BY <3>1, <3>5 DEF EntryOf
      <4> QED
        BY <2>1, <2>2, <4>1
    <3>6. CASE p \in 1 .. d /\ Len(seen[n]) - p + 1 >= ReplayWindow
      <4>1. Since2(i) >= ReplayWindow
        BY <1>2, <1>4, <1>6, <2>4, <3>1, <3>6
      <4> QED
        BY <2>3, <4>1
    <3>7. CASE p \notin 1 .. d
      <4>1. /\ p - d \in 1 .. Len(seen[n]) - d /\ d + (p - d) = p
            /\ p - d \in DOMAIN seen'[n]
            /\ Len(seen'[n]) - (p - d) = Len(seen[n]) - p + 1
        BY <1>4, <2>4, <3>2, <3>3, <3>4, <3>7
      <4>2. seen'[n][p - d] = EntryOf(i)
        BY <3>1, <3>2, <3>3, <4>1
      <4>3. CASE WaitingOf(n)'
        <5>1. Len(seen'[n]) - (p - d) < Since2(i) + 1
          BY <1>4, <1>6, <2>4, <3>1, <4>1
        <5> QED
          BY <2>1, <2>3, <4>1, <4>2, <4>3, <5>1
      <4>4. CASE ~WaitingOf(n)'
        <5>1. Waiting'
          BY <1>8, AcceptWaits
        <5> QED
          BY <2>1, <2>7, <4>4, <5>1 DEF WaitingOf
      <4> QED
        BY <4>3, <4>4
    <3> QED
      BY <3>2, <3>5, <3>6, <3>7
  <2> QED
    BY <1>1, <2>3, <2>5, <2>6, <2>7
<1>9. CASE SaveBlacklist \/ SaveOffset \/ Tick \/ UNCHANGED vars
  <2>1. UNCHANGED <<sent, boot, seen, todo, cur>> /\ (now' = now \/ now' = now + 1)
    BY <1>9 DEF SaveBlacklist, SaveOffset, Tick, vars, guards
  <2>2. /\ SinceThen(i)' = SinceThen(i) /\ MessageNow(i) /\ i \in DOMAIN sent
        /\ EntryOf(i)' = EntryOf(i) /\ WaitingOf(sent[i].msg.node)' = WaitingOf(sent[i].msg.node)
    BY <2>1 DEF SinceThen, MessageNow, EntryOf, WaitingOf, Waiting
  <2>3. Edge <= Edge' /\ Edge' \in Nat
    BY <1>2, <2>1 DEF Edge, Waiting
  <2>4. CASE sent[i].at < Edge - MaxAge
    <3>1. sent[i].at < Edge' - MaxAge
      <4>1. ASSUME NEW a \in Nat, NEW b \in Nat, a <= b, NEW x \in Nat, x < a - MaxAge
            PROVE  x < b - MaxAge
        BY <1>2, <4>1
      <4> QED
        BY <1>3, <1>5, <2>2, <2>3, <2>4, <4>1
    <3> QED
      BY <2>1, <3>1
  <2>5. CASE Since2(i) >= ReplayWindow \/ Has(i)
    BY <2>1, <2>2, <2>5
  <2> QED
    BY <1>1, <2>2, <2>4, <2>5
<1>10. CASE Restart
  <2>1. boot' = boot + 1 /\ sent' = sent
    BY <1>10 DEF Restart
  <2>2. i \in DOMAIN sent /\ sent[i].boot = boot + 1
    BY <2>1 DEF MessageNow
  <2>3. sent[i].boot \in Nat /\ sent[i].boot <= boot /\ boot \in Nat
    BY <2>2, ElementTypes DEF Ordered, TypeOK
  <2> QED
    BY <2>2, <2>3
<1>11. CASE Send
  <2>1. UNCHANGED <<now, seen, cur, boot>> /\ 1 \in DOMAIN todo
    BY <1>11, TailOfTodo DEF Send, SendReady, guards
  <2>2. /\ DOMAIN sent = 1 .. Len(sent) /\ Len(sent) \in Nat
        /\ DOMAIN sent' = DOMAIN sent \cup {Len(sent) + 1}
        /\ \A k \in DOMAIN sent : sent'[k] = sent[k]
        /\ sent'[Len(sent) + 1].kind = todo[1].kind /\ sent'[Len(sent) + 1].msg = cur.msg
        /\ sent'[Len(sent) + 1].boot = boot /\ sent'[Len(sent) + 1].at = cur.at
    BY <1>11, SentGrows
  <2>3. CASE i \in DOMAIN sent
    <3> DEFINE n == sent[i].msg.node
    <3>1. MessageNow(i) /\ sent'[i] = sent[i] /\ EntryOf(i)' = EntryOf(i)
      BY <2>1, <2>2, <2>3 DEF MessageNow, EntryOf
    <3>2. Edge' \in Nat /\ Edge <= Edge' /\ Since2(i)' \in Nat /\ Since2(i) <= Since2(i)'
          /\ Since2(i) + Due(n) <= Since2(i)' + Due(n)'
      <4>1. CASE todo[1].kind = "TELEMETRY"
        <5>1. Waiting /\ ~Waiting' /\ Edge = cur.at /\ Edge' = now
          BY <1>11, <4>1, WaitingSend
        <5>2. Due(n)' = 0 /\ Due(n) = IF n = cur.msg.node THEN 1 ELSE 0
          BY <5>1 DEF WaitingOf
        <5>3. Since2(i)' = IF n = cur.msg.node THEN Since2(i) + 1 ELSE Since2(i)
          BY <1>11, <2>3, <4>1, SinceThenSend
        <5> HIDE DEF Since2, Due
        <5> QED
          BY <1>2, <1>6, <5>1, <5>2, <5>3
      <4>2. CASE todo[1].kind # "TELEMETRY"
        <5>1. Waiting' = Waiting /\ Edge' = Edge
          BY <1>11, <4>2, WaitingSend
        <5>2. Due(n)' = Due(n)
          BY <2>1, <2>2, <2>3, <5>1 DEF WaitingOf
        <5>3. Since2(i)' = Since2(i)
          BY <1>11, <2>3, <4>2, SinceThenSend
        <5>4. Due(n) \in Nat
          OBVIOUS
        <5> HIDE DEF Since2, Due
        <5> QED
          BY <1>3, <1>6, <5>1, <5>2, <5>3, <5>4
      <4> QED
        BY <4>1, <4>2
    <3>3. CASE sent[i].at < Edge - MaxAge
      <4>1. ASSUME NEW a \in Nat, NEW b \in Nat, a <= b, NEW x \in Nat, x < a - MaxAge
            PROVE  x < b - MaxAge
        BY <1>2, <4>1
      <4>2. sent[i].at < Edge' - MaxAge
        BY <1>3, <1>5, <2>3, <3>2, <3>3, <4>1
      <4> QED
        BY <3>1, <4>2
    <3>4. CASE Since2(i) >= ReplayWindow
      <4>1. Since2(i)' >= ReplayWindow
        <5> HIDE DEF Since2
        <5> QED
          BY <1>2, <1>6, <3>2, <3>4
      <4> QED
        BY <4>1
    <3>5. CASE Has(i)
      <4>1. PICK p \in DOMAIN seen[n] :
                seen[n][p] = EntryOf(i) /\ Len(seen[n]) - p < Since2(i) + Due(n)
        BY <3>5
      <4>2. Len(seen[n]) - p \in Int /\ Due(n) \in Nat /\ Due(n)' \in Nat
        BY <1>4, <1>5, <2>3
      <4>3. Len(seen[n]) - p < Since2(i)' + Due(n)'
        <5> DEFINE z == Len(seen[n]) - p
        <5>1. z < Since2(i) + Due(n) /\ z \in Int
          BY <4>1, <4>2
        <5> HIDE DEF Since2, Due, z
        <5>2. z < Since2(i)' + Due(n)'
          BY <1>6, <3>2, <4>2, <5>1
        <5> QED
          BY <5>2 DEF z
      <4> QED
        BY <2>1, <3>1, <4>1, <4>3
    <3> QED
      BY <1>1, <2>3, <3>1, <3>3, <3>4, <3>5
  <2>4. CASE i = Len(sent) + 1
    <3> DEFINE n == cur.msg.node
    <3>1. todo[1].kind = "TELEMETRY" /\ sent'[i].msg = cur.msg /\ sent'[i].at = cur.at
      BY <2>2, <2>4 DEF MessageNow
    <3>2. Waiting /\ ~Waiting'
      BY <1>11, <3>1, WaitingSend
    <3>3. /\ Len(seen[n]) \in DOMAIN seen[n]
          /\ seen[n][Len(seen[n])] = EntryOf(i)'
      BY <3>1, <3>2 DEF Novel, EntryOf
    <3>4. SinceThen(i)' = {i}
      BY <2>1, <2>2, <2>4, <3>1 DEF SinceThen, MessageNow
    <3>5. Since2(i)' = 1
      BY <3>4, FS_Singleton
    <3>6. ~WaitingOf(n)'
      BY <3>2 DEF WaitingOf
    <3>7. Len(seen[n]) - Len(seen[n]) < 1 + 0
      <4>1. n \in Nodes
        BY GuardTypes DEF TypeOK
      <4> QED
        BY <1>4, <4>1
    <3> QED
      BY <2>1, <3>1, <3>3, <3>5, <3>6, <3>7
  <2> QED
    BY <2>2, <2>3, <2>4
<1> QED
  BY <1>7, <1>8, <1>9, <1>10, <1>11 DEF Next, Receive

\* A message with a copy in the deque is not accepted.
LEMMA AcceptIsNovel ==
    ASSUME TypeOK, Ordered, Dated, Kept, NEW m \in Messages, Accept(m),
           NEW i \in DOMAIN sent, MessageNow(i), sent[i].msg = m
    PROVE  \/ Cardinality(SinceThen(i)) >= ReplayWindow
           \/ sent[i].at < m.ts /\ now > sent[i].at + MaxAge
<1> SUFFICES ASSUME ~(sent[i].at < m.ts /\ now > sent[i].at + MaxAge)
             PROVE  Cardinality(SinceThen(i)) >= ReplayWindow
  OBVIOUS
<1> DEFINE n == m.node
<1>1. /\ todo = << >> /\ ~Stale(m) /\ ~Duplicate(m)
  BY DEF Accept, Take
<1>2. ~Waiting /\ Edge = now
  BY <1>1 DEF Waiting, Edge
<1>3. /\ now \in Nat /\ MaxAge \in Nat /\ m.ts \in Nat /\ n \in Nodes /\ sent[i].at \in Nat
      /\ sent[i].msg.node = n
  BY ConstantsAssumption, ElementTypes DEF TypeOK, MessageType
<1>4. ~(sent[i].at < now - MaxAge)
  <2>1. ~(now - m.ts > MaxAge)
    BY <1>1 DEF Stale
  <2> QED
    BY <1>3, <2>1
<1>5. ASSUME NEW p \in DOMAIN seen[n], seen[n][p] = EntryOf(i)
      PROVE  FALSE
  <2>1. Len(seen[n]) \in Nat /\ DOMAIN seen[n] = 1 .. Len(seen[n])
    BY <1>3, LenProperties DEF TypeOK
  <2>2. PICK c \in 0 .. Len(seen[n]) :
            /\ LiveEntries(n) \in Seq(Entries) /\ Len(LiveEntries(n)) = Len(seen[n]) - c
            /\ \A k \in 1 .. Len(seen[n]) - c : LiveEntries(n)[k] = seen[n][c + k]
            /\ \A j \in 1 .. c : seen[n][j].at < now - MaxAge
    BY <1>3, LiveIsSuffix
  <2>3. p \notin 1 .. c
    BY <1>4, <1>5, <2>2 DEF EntryOf
  <2>4. p - c \in 1 .. Len(seen[n]) - c /\ c + (p - c) = p
    BY <2>1, <2>3
  <2>5. p - c \in DOMAIN LiveEntries(n)
    BY <2>2, <2>4, LenProperties
  <2>6. LiveEntries(n)[p - c].id = m.id
    <3>1. LiveEntries(n)[p - c] = seen[n][c + (p - c)]
      BY <2>2, <2>4
    <3>2. LiveEntries(n)[p - c] = EntryOf(i)
      BY <1>5, <2>4, <3>1
    <3> QED
      BY <3>2 DEF EntryOf
  <2> QED
    BY <1>1, <2>5, <2>6 DEF Duplicate
<1> QED
  BY <1>2, <1>3, <1>4, <1>5 DEF Kept

\* Every step keeps Novel.
LEMMA NovelNext == TypeOK /\ Ordered /\ Dated /\ Kept /\ Novel /\ [Next]_vars => Novel'
<1> SUFFICES ASSUME TypeOK, Ordered, Dated, Kept, Novel, [Next]_vars PROVE Novel'
  OBVIOUS
<1>1. ASSUME NEW m \in Messages,
             DropBlacklisted(m) \/ Tampered(m) \/ Rogue(m) \/ Replayed(m)
      PROVE  Novel'
  <2>1. ~Waiting'
    BY <1>1, Refusals DEF Waiting
  <2> QED
    BY <2>1 DEF Novel
<1>2. ASSUME NEW m \in Messages, Accept(m) PROVE Novel'
  <2>1. /\ UNCHANGED <<sent, boot>> /\ cur'.msg = m /\ cur'.at = now
        /\ seen'[m.node] = Recorded(m)
    BY <1>2, AcceptTimes, AcceptSeen
  <2>2. /\ Len(Recorded(m)) \in DOMAIN Recorded(m)
        /\ Recorded(m)[Len(Recorded(m))] = [at |-> now, id |-> m.id]
    <3> DEFINE s == seen[m.node]
    <3>1. PICK d \in 0 .. Len(s) :
              /\ Recorded(m) \in Seq(Entries) /\ Len(Recorded(m)) = Len(s) - d + 1
              /\ Recorded(m)[Len(s) - d + 1] = [at |-> now, id |-> m.id]
      BY RecordedIsSuffix
    <3>2. Len(s) \in Nat
      <4>1. m.node \in Nodes
        BY GuardTypes
      <4> QED
        BY <4>1, LenProperties DEF TypeOK
    <3> HIDE DEF s
    <3>3. DOMAIN Recorded(m) = 1 .. Len(Recorded(m)) /\ Len(Recorded(m)) \in Nat \ {0}
      BY <3>1, <3>2, LenProperties
    <3> QED
      BY <3>1, <3>3
  <2>3. ASSUME NEW i \in DOMAIN sent, MessageNow(i), sent[i].msg = m
        PROVE  Cardinality(SinceThen(i)) >= ReplayWindow \/ Forgotten(i)'
    <3>1. \/ Cardinality(SinceThen(i)) >= ReplayWindow
          \/ sent[i].at < m.ts /\ now > sent[i].at + MaxAge
      BY <1>2, <2>3, AcceptIsNovel
    <3> QED
      BY <2>1, <3>1 DEF Forgotten
  <2>4. \A i \in DOMAIN sent : SinceThen(i)' = SinceThen(i) /\ MessageNow(i)' = MessageNow(i)
    BY <2>1 DEF SinceThen, MessageNow
  <2> QED
    BY <2>1, <2>2, <2>3, <2>4 DEF Novel
<1>3. CASE SaveBlacklist \/ SaveOffset \/ Tick \/ UNCHANGED vars
  <2>1. UNCHANGED <<sent, boot, seen, todo, cur>>
    BY <1>3 DEF SaveBlacklist, SaveOffset, Tick, vars, guards
  <2>2. \A i \in DOMAIN sent : SinceThen(i)' = SinceThen(i) /\ MessageNow(i)' = MessageNow(i)
    BY <2>1 DEF SinceThen, MessageNow
  <2> QED
    BY <2>1, <2>2 DEF Novel, Waiting, Forgotten
<1>4. CASE Restart
  <2>1. DOMAIN todo' = {}
    BY <1>4 DEF Restart
  <2> QED
    BY <2>1 DEF Novel, Waiting
<1>5. CASE Send
  <2> SUFFICES ASSUME Waiting' PROVE Novel'
    BY DEF Novel
  <2>1. UNCHANGED <<seen, cur, boot>>
    BY <1>5 DEF Send, guards
  <2>2. todo[1].kind # "TELEMETRY" /\ Waiting
    BY <1>5, WaitingSend
  <2>3. /\ DOMAIN sent' = DOMAIN sent \cup {Len(sent) + 1}
        /\ \A k \in DOMAIN sent : sent'[k] = sent[k]
        /\ sent'[Len(sent) + 1].kind = todo[1].kind
    BY <1>5, SentGrows
  <2>4. ASSUME NEW i \in DOMAIN sent', MessageNow(i)', sent'[i].msg = cur.msg
        PROVE  Cardinality(SinceThen(i)') >= ReplayWindow \/ Forgotten(i)'
    <3>1. i \in DOMAIN sent
      BY <2>2, <2>3, <2>4 DEF MessageNow
    <3>2. MessageNow(i) /\ sent[i].msg = cur.msg
      BY <2>1, <2>3, <2>4, <3>1 DEF MessageNow
    <3>3. SinceThen(i)' = SinceThen(i)
      BY <1>5, <2>2, <3>1, SinceThenSend
    <3>4. Forgotten(i)' <=> Forgotten(i)
      BY <2>1, <2>3, <3>1 DEF Forgotten
    <3> QED
      BY <2>2, <3>1, <3>2, <3>3, <3>4 DEF Novel
  <2> QED
    BY <2>1, <2>2, <2>4 DEF Novel
<1> QED
  BY <1>1, <1>2, <1>3, <1>4, <1>5 DEF Next, Receive

\* A copy is only sent when ReplayWindow messages have followed the first, or when the first
\* was dated ahead and is forgotten.
LEMMA CopyNext ==
    TypeOK /\ Ordered /\ Novel /\ CopyOnlyAfterFullWindow /\ [Next]_vars
        => CopyOnlyAfterFullWindow'
<1> SUFFICES ASSUME TypeOK, Ordered, Novel, CopyOnlyAfterFullWindow, [Next]_vars
             PROVE  CopyOnlyAfterFullWindow'
  OBVIOUS
<1>1. CASE sent' = sent
  BY <1>1 DEF CopyOnlyAfterFullWindow, ComesLate, Between, DatedAhead, Forwarded, Together
<1>2. CASE Send
  <2> SUFFICES ASSUME NEW i \in Forwarded', NEW j \in Forwarded', i < j,
                      Together(i, j)', sent'[i].msg = sent'[j].msg
               PROVE  ComesLate(i, j)'
    BY DEF CopyOnlyAfterFullWindow
  <2>1. /\ DOMAIN sent = 1 .. Len(sent) /\ Len(sent) \in Nat
        /\ DOMAIN sent' = 1 .. Len(sent) + 1
        /\ \A k \in DOMAIN sent : sent'[k] = sent[k]
        /\ sent'[Len(sent) + 1].kind = todo[1].kind /\ sent'[Len(sent) + 1].msg = cur.msg
        /\ sent'[Len(sent) + 1].boot = boot /\ sent'[Len(sent) + 1].at = cur.at
    BY <1>2, SentGrows
  <2>2. /\ i \in 1 .. Len(sent) + 1 /\ sent'[i].kind = "TELEMETRY"
        /\ j \in 1 .. Len(sent) + 1 /\ sent'[j].kind = "TELEMETRY"
    BY <2>1 DEF Forwarded
  <2>3. i \in DOMAIN sent
    BY <2>1, <2>2
  <2>4. Between(i, j)' = {k \in DOMAIN sent :
            /\ sent[k].kind = "TELEMETRY" /\ i <= k /\ k < j
            /\ sent[k].msg.node = sent[i].msg.node /\ sent[k].boot = sent[i].boot}
    <3>1. \A k \in DOMAIN sent' : k < j => k \in DOMAIN sent
      BY <2>1, <2>2
    <3> QED
      BY <2>1, <2>3, <3>1 DEF Between, Forwarded, Together
  <2>5. CASE j \in DOMAIN sent
    <3>1. Between(i, j)' = Between(i, j)
      BY <2>4 DEF Between, Forwarded, Together
    <3>2. i \in Forwarded /\ j \in Forwarded /\ Together(i, j) /\ sent[i].msg = sent[j].msg
      BY <2>1, <2>2, <2>3, <2>5 DEF Forwarded, Together
    <3>3. \/ Cardinality(Between(i, j)) >= ReplayWindow
          \/ DatedAhead(i) /\ sent[j].at > sent[i].at + MaxAge
      BY <3>2 DEF CopyOnlyAfterFullWindow, ComesLate
    <3> QED
      BY <2>1, <2>3, <2>5, <3>1, <3>3 DEF ComesLate, DatedAhead
  <2>6. CASE j = Len(sent) + 1
    <3>1. Waiting
      BY <1>2, <2>1, <2>2, <2>6, WaitingSend
    <3>2. MessageNow(i) /\ sent[i].msg = cur.msg
      BY <2>1, <2>2, <2>3, <2>6 DEF MessageNow, Together
    <3>3. Cardinality(SinceThen(i)) >= ReplayWindow \/ Forgotten(i)
      BY <2>3, <3>1, <3>2 DEF Novel
    <3>4. \A k \in DOMAIN sent : k < j
      BY <2>1, <2>6
    <3>5. Between(i, j)' = SinceThen(i)
      BY <2>4, <3>2, <3>4 DEF SinceThen, MessageNow
    <3>6. Forgotten(i) => DatedAhead(i)' /\ sent'[j].at > sent'[i].at + MaxAge
      BY <2>1, <2>3, <2>6, <3>2 DEF Forgotten, DatedAhead
    <3> QED
      BY <3>3, <3>5, <3>6 DEF ComesLate
  <2> QED
    BY <2>1, <2>2, <2>5, <2>6
<1> QED
  BY <1>1, <1>2, OnlySendSends

\* In one life of the controller a message gets through again only when ReplayWindow messages
\* of its node have followed it, for any freshness bound and any capacity: what is too old for
\* the deque is too old for check 1, unless it was dated ahead when it first came; then it
\* gets through again only once the deque has forgotten it, MaxAge later (ReplayGuard.check).
THEOREM CopiesComeLate == Spec => []CopyOnlyAfterFullWindow
<1>1. Init => Ordered /\ Dated /\ Kept /\ Novel /\ CopyOnlyAfterFullWindow
  <2> SUFFICES ASSUME Init
               PROVE  Ordered /\ Dated /\ Kept /\ Novel /\ CopyOnlyAfterFullWindow
    OBVIOUS
  <2>1. /\ DOMAIN todo = {} /\ DOMAIN sent = {} /\ todo = << >> /\ now = 0 /\ cur.at = 0
        /\ \A n \in Nodes : DOMAIN times[n] = {} /\ DOMAIN seen[n] = {}
    BY DEF Init, NoEntries
  <2> QED
    BY <2>1 DEF Ordered, InOrder, Dated, Kept, Novel, Waiting, CopyOnlyAfterFullWindow,
                Forwarded
<1> QED
  BY <1>1, TypeInit, TypeNext, OrderedNext, DatedNext, KeptNext, NovelNext, CopyNext,
     PTL DEF Spec

=============================================================================
