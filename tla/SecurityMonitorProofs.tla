------------------------- MODULE SecurityMonitorProofs -------------------------
(***************************************************************************)
(* Proofs about SecurityMonitor for every set of tenants, lines, policies, *)
(* windows, limits and bounds.                                             *)
(***************************************************************************)
EXTENDS SecurityMonitor, TLAPS, SequenceTheorems, FiniteSetTheorems,
        WellFoundedInduction

------------------------------------------------------------------------------
(* The windows.                                                              *)

\* An interval from 1 has as many elements as its end says.
LEMMA UpTo ==
    ASSUME NEW n \in Nat
    PROVE  IsFiniteSet(1..n) /\ Cardinality(1..n) = n
<1>1. /\ IsFiniteSet(1..n)
      /\ Cardinality(1..n) = IF 1 > n THEN 0 ELSE n - 1 + 1
  BY FS_Interval
<1> QED
  BY <1>1

\* Evict takes a prefix away, all of it older than the limit; what is then first is not.
LEMMA EvictTakesPrefix ==
    ASSUME NEW T, T \subseteq Int, NEW q \in Seq(T), NEW limit \in Int
    PROVE  \E k \in 0..Len(q) :
              /\ Evict(q, limit) \in Seq(T)
              /\ Len(Evict(q, limit)) = Len(q) - k
              /\ \A i \in 1..(Len(q) - k) : Evict(q, limit)[i] = q[k + i]
              /\ \A j \in 1..k : q[j] < limit
              /\ k < Len(q) => q[k + 1] >= limit
<1> DEFINE L == Len(q)
           old == {i \in 1..L : \A j \in 1..i : q[j] < limit}
           c == Cardinality(old)
<1>1. L \in Nat /\ DOMAIN q = 1..L /\ \A i \in 1..L : q[i] \in T
  BY LenProperties, ElementOfSeq
<1>2. old \subseteq 1..L /\ IsFiniteSet(1..L) /\ Cardinality(1..L) = L
  BY <1>1, UpTo
<1>3. IsFiniteSet(old) /\ c <= L /\ c \in Nat
  BY <1>2, FS_Subset, FS_CardinalityType
<1>4. Evict(q, limit) = SubSeq(q, c + 1, L)
  BY <1>1 DEF Evict
<1>5. \A i \in 1..L : i \in old <=> \A j \in 1..i : q[j] < limit
  OBVIOUS
<1>6. \A i \in old : \A j \in 1..i : j \in old
  BY <1>1
<1>8. c = Cardinality(old)
  OBVIOUS
<1> HIDE DEF L, old, c
<1>9. 1..c \subseteq old
  <2> SUFFICES ASSUME NEW x \in 1..c, x \notin old PROVE FALSE
    OBVIOUS
  <2>0. x \in Nat /\ x >= 1 /\ x <= c
    BY <1>3
  <2>2. old \subseteq 1..(x - 1)
    BY <1>1, <1>2, <1>6, <2>0
  <2>3. IsFiniteSet(1..(x - 1)) /\ Cardinality(1..(x - 1)) = x - 1
    BY <2>0, UpTo
  <2>4. c <= x - 1
    BY <1>8, <2>2, <2>3, FS_Subset
  <2> QED
    BY <1>3, <2>0, <2>4
<1>10. old = 1..c
  <2>1. Cardinality(1..c) = c
    BY <1>3, UpTo
  <2> QED
    BY <1>3, <1>8, <1>9, <2>1, FS_Subset
<1>11. \A j \in 1..c : q[j] < limit
  <2>1. \A j \in 1..c : j \in 1..L /\ j \in 1..j
    BY <1>1, <1>3
  <2> QED
    BY <1>5, <1>10, <2>1
<1>12. ASSUME c < L PROVE q[c + 1] >= limit
  <2>1. c + 1 \in 1..L /\ c + 1 \notin old
    BY <1>1, <1>3, <1>10, <1>12
  <2>2. PICK j \in 1..(c + 1) : ~(q[j] < limit)
    BY <1>5, <2>1
  <2>3. j \notin 1..c
    BY <1>11, <2>2
  <2>4. j = c + 1
    BY <1>3, <2>2, <2>3
  <2>5. q[c + 1] \in Int
    BY <1>1, <2>1
  <2> QED
    BY <2>2, <2>4, <2>5
<1>13. SubSeq(q, c + 1, L) \in Seq(T)
  <2>1. \A i \in (c + 1)..L : q[i] \in T
    BY <1>1, <1>3
  <2> QED
    BY <1>1, <1>3, <2>1, SubSeqProperties
<1>14. Len(SubSeq(q, c + 1, L)) = L - c
  BY <1>1, <1>3, SubSeqProperties
<1>15. \A i \in 1..(L - c) : SubSeq(q, c + 1, L)[i] = q[c + i]
  BY <1>1, <1>3, SubSeqProperties
<1>16. c \in 0..L
  BY <1>1, <1>3
<1> QED
  BY <1>4, <1>11, <1>12, <1>13, <1>14, <1>15, <1>16 DEF L

\* So Evict keeps the type of a window, and does not make it longer.
LEMMA EvictType ==
    ASSUME NEW T, T \subseteq Int, NEW q \in Seq(T), NEW limit \in Int
    PROVE  Evict(q, limit) \in Seq(T) /\ Len(Evict(q, limit)) <= Len(q)
<1>1. Len(q) \in Nat
  BY LenProperties
<1>2. PICK k \in 0..Len(q) :
              /\ Evict(q, limit) \in Seq(T)
              /\ Len(Evict(q, limit)) = Len(q) - k
              /\ \A i \in 1..(Len(q) - k) : Evict(q, limit)[i] = q[k + i]
              /\ \A j \in 1..k : q[j] < limit
              /\ k < Len(q) => q[k + 1] >= limit
  BY EvictTakesPrefix
<1> QED
  BY <1>1, <1>2

\* A set of numbers has a least one.
LEMMA Least ==
    ASSUME NEW S \in SUBSET Nat, S # {}
    PROVE  \E i \in S : \A j \in S : i <= j
<1>1. PICK i \in S : \A j \in S : ~(<<j, i>> \in OpToRel(<, Nat))
  BY NatLessThanWellFounded, WFMin
<1>2. \A j \in S : ~(j < i)
  BY <1>1 DEF OpToRel
<1> QED
  BY <1>2

\* The times of a window are among those that have passed when more have.
LEMMA Passed ==
    ASSUME NEW m \in Nat, NEW k \in Nat, m <= k
    PROVE  0..m \subseteq 0..k /\ Seq(0..m) \subseteq Seq(0..k)
<1>1. 0..m \subseteq 0..k
  OBVIOUS
<1> QED
  BY <1>1, SeqMonotonic

------------------------------------------------------------------------------
(* Type correctness.                                                         *)

Dockers == [node : Tenants, action : Actions]
Times == 0..now

\* The windows are added to at their ends.
LEMMA WindowType ==
    ASSUME NEW q \in Seq(Times), now \in Nat, NEW limit \in Int
    PROVE  /\ Evict(q, limit) \in Seq(Times)
           /\ Append(Evict(q, limit), now) \in Seq(Times)
           /\ Len(Append(Evict(q, limit), now)) = Len(Evict(q, limit)) + 1
           /\ Append(q, now) \in Seq(Times)
<1>1. Times \subseteq Int /\ now \in Times
  BY DEF Times
<1> QED
  BY <1>1, EvictType, AppendProperties

\* What the daemon adds to the stream.
LEMMA StreamedType ==
    ASSUME stream \in Seq(Dockers), NEW events \in Seq(Dockers)
    PROVE  Streamed(events) \in Seq(Dockers)
BY ConcatProperties DEF Streamed

\* The numbers among the constants.
LEMMA Numbers ==
    /\ Window \in Nat /\ LoopMax \in Nat /\ LoopWindow \in Nat /\ RateMax \in Nat
    /\ RateWindow \in Nat /\ MapAge \in Nat /\ MaxTime \in Nat /\ MaxInputs \in Nat
BY MonitorAssumption

\* A line's severity is one.
LEMMA SeverityType ==
    ASSUME NEW l \in Lines
    PROVE  Severity(l) \in Severities
BY MonitorAssumption DEF Severity, FalcoSeverity, Severities

\* The first policy that matches has one of the three actions.
LEMMA ActionType ==
    ASSUME NEW e
    PROVE  ActionFor(e) \in {"none", "quarantine", "pause", "network_isolate"}
<1> DEFINE hits == {i \in DOMAIN Policies : Matches(Policies[i], e)}
<1>1. DOMAIN Policies = 1..Len(Policies) /\ Len(Policies) \in Nat
  BY MonitorAssumption, LenProperties
<1>2. \A i \in DOMAIN Policies :
          Policies[i].action \in {"quarantine", "pause", "network_isolate"}
  <2> DEFINE S == [type : STRING, sev : STRING,
                   action : {"quarantine", "pause", "network_isolate"}]
  <2>1. Policies \in Seq(S)
    BY MonitorAssumption
  <2>2. \A i \in 1..Len(Policies) : Policies[i] \in S
    BY <2>1, ElementOfSeq
  <2> QED
    BY <1>1, <2>2
<1>3. CASE hits = {}
  BY <1>3 DEF ActionFor
<1>4. CASE hits # {}
  <2>1. hits \subseteq Nat
    BY <1>1
  <2>2. \E i \in hits : \A j \in hits : i <= j
    BY <1>4, <2>1, Least
  <2>3. (CHOOSE i \in hits : \A j \in hits : i <= j) \in hits
    BY <2>2
  <2> QED
    BY <1>2, <1>4, <2>3 DEF ActionFor
<1> QED
  BY <1>3, <1>4

\* The policy thread enforces what a policy says (policy_engine.py, _apply_action).
Acting == ppc = "act" => ActionFor(hand) # "none" /\ hand.node \in Tenants

\* What the policy thread holds before its first event.
LEMMA NoEventType == NoEvent \in Event
<1>1. Self \in Reported /\ "none" \in Threats /\ "LOW" \in Severities /\ FALSE \in BOOLEAN
  BY DEF Reported, Severities, Threats
<1> QED
  BY <1>1 DEF NoEvent, Event

\* The initial states are well typed.
LEMMA TypeInit == Init => TypeOK /\ Acting
<1> SUFFICES ASSUME Init PROVE TypeOK /\ Acting
  OBVIOUS
<1> USE DEF Init
<1>1. Acting
  BY DEF Acting
<1>2. \A S : << >> \in Seq(S) /\ Len(<< >>) = 0
  BY EmptySeq
<1>3. /\ restarts \in [Tenants -> Seq(0..now)] /\ history \in [Tenants -> Seq(0..now)]
      /\ starts \in [Tenants -> Seq(0..now)] /\ docked \in [Tenants -> SUBSET (0..now)]
      /\ rate \in [Reported -> Seq(0..now)] /\ \A n \in Reported : Len(rate[n]) <= RateMax
  BY <1>2, Numbers DEF Empty
<1>4. /\ now \in 0..MaxTime /\ mapAt \in {-MapAge} \cup 0..now
      /\ container \in [Tenants -> {"running", "paused", "exited"}]
      /\ attached \subseteq Tenants /\ known \subseteq Tenants
      /\ up \in BOOLEAN /\ listening \in BOOLEAN
  BY Numbers
<1>5. /\ hand \in Event /\ ppc \in {"get", "act", "put", "dead"}
  BY NoEventType
<1>6. /\ stream \in Seq([node : Tenants, action : Actions])
      /\ raw \in Seq(RawType) /\ corr \in Seq(Event) /\ fwd \in Seq(Event)
      /\ sent \in Seq([node : Reported, at : 0..now])
  BY <1>2
<1> QED
  BY <1>1, <1>3, <1>4, <1>5, <1>6 DEF TypeOK

\* Time keeps the types.
LEMMA TypeTick ==
    ASSUME TypeOK, Tick
    PROVE  TypeOK'
<1> USE DEF TypeOK, Tick, host, collector, correlator, policy, forwarder
<1>1. now \in Nat /\ now' \in Nat /\ now <= now' /\ now' \in 0..MaxTime
  BY Numbers
<1>2. 0..now \subseteq 0..now' /\ Seq(0..now) \subseteq Seq(0..now')
  BY <1>1, Passed
<1>3. sent' \in Seq([node : Reported, at : 0..now'])
  <2> DEFINE S == [node : Reported, at : 0..now]
             U == [node : Reported, at : 0..now']
  <2>1. S \subseteq U
    BY <1>2
  <2>2. sent' = sent /\ sent \in Seq(S)
    OBVIOUS
  <2> HIDE DEF S, U
  <2>3. sent \in Seq(U)
    BY <2>1, <2>2, SeqMonotonic
  <2> QED
    BY <2>2, <2>3 DEF U
<1>4. /\ restarts' \in [Tenants -> Seq(0..now')] /\ history' \in [Tenants -> Seq(0..now')]
      /\ starts' \in [Tenants -> Seq(0..now')] /\ rate' \in [Reported -> Seq(0..now')]
  <2> HIDE DEF Tick, TypeOK
  <2>1. /\ restarts \in [Tenants -> Seq(0..now)] /\ history \in [Tenants -> Seq(0..now)]
        /\ starts \in [Tenants -> Seq(0..now)] /\ rate \in [Reported -> Seq(0..now)]
    BY DEF TypeOK
  <2>2. UNCHANGED <<restarts, history, starts, rate>>
    BY DEF Tick
  <2> QED
    BY <1>2, <2>1, <2>2
<1>5. docked' \in [Tenants -> SUBSET (0..now')] /\ mapAt' \in {-MapAge} \cup 0..now'
  BY <1>2
<1> QED
  BY <1>1, <1>3, <1>4, <1>5

\* So do the operations on containers, broken streams, exits and restarts.
LEMMA TypeWorld ==
    ASSUME TypeOK,
           (\E n \in Tenants : Operate(n)) \/ StreamBreaks \/ Reconnect \/ Exit \/ Restart
    PROVE  TypeOK'
<1> USE DEF host, collector, correlator, policy, forwarder
<1>1. ASSUME NEW n \in Tenants, Operate(n) PROVE TypeOK'
  <2>1. PICK o \in Operations(n) :
            /\ container' = [container EXCEPT ![n] = o.to]
            /\ attached' = IF o.kind = "connect" THEN attached \cup {n} ELSE attached
            /\ stream' = Streamed(o.events)
    BY <1>1 DEF Operate
  <2>2. o.to \in {"running", "exited"}
    BY DEF Operations
  <2>3. o.events \in Seq(Dockers)
    <3>1. \A action \in Actions : Docker(n, action) \in Dockers
      BY DEF Docker, Dockers
    <3>2. \A x, y \in Dockers : <<x>> \in Seq(Dockers) /\ <<x, y>> \in Seq(Dockers)
      OBVIOUS
    <3>3. o.events \in
            { <<Docker(n, "stop")>>, <<Docker(n, "start"), Docker(n, "restart")>>,
              <<Docker(n, "exec_create"), Docker(n, "exec_start")>>,
              <<Docker(n, "rename")>>, <<Docker(n, "connect")>> }
      BY DEF Operations
    <3>4. /\ Docker(n, "stop") \in Dockers /\ Docker(n, "start") \in Dockers
          /\ Docker(n, "restart") \in Dockers /\ Docker(n, "exec_create") \in Dockers
          /\ Docker(n, "exec_start") \in Dockers /\ Docker(n, "rename") \in Dockers
          /\ Docker(n, "connect") \in Dockers
      BY <3>1 DEF Actions
    <3> QED
      BY <3>2, <3>3, <3>4
  <2>4. stream' \in Seq(Dockers)
    BY <2>1, <2>3, StreamedType DEF TypeOK, Dockers
  <2>5. UNCHANGED <<now, up, collector, raw, correlator, corr, policy, fwd, forwarder>>
    BY <1>1 DEF Operate
  <2> QED
    BY <2>1, <2>2, <2>4, <2>5 DEF TypeOK, Dockers
<1>2. CASE StreamBreaks
  <2>1. stream' \in Seq(Dockers)
    BY <1>2, EmptySeq DEF StreamBreaks
  <2> QED
    BY <1>2, <2>1 DEF StreamBreaks, TypeOK, Dockers
<1>3. CASE Reconnect
  BY <1>3 DEF Reconnect, TypeOK
<1>4. CASE Restart
  BY <1>4 DEF Restart, TypeOK
<1>5. CASE Exit
  <2>1. \A S : << >> \in Seq(S) /\ Len(<< >>) = 0
    BY EmptySeq
  <2>2. now \in 0..MaxTime /\ now' = now
    BY <1>5 DEF Exit, TypeOK
  <2>3. /\ restarts' \in [Tenants -> Seq(0..now)] /\ history' \in [Tenants -> Seq(0..now)]
        /\ starts' \in [Tenants -> Seq(0..now)] /\ docked' \in [Tenants -> SUBSET (0..now)]
        /\ rate' \in [Reported -> Seq(0..now)] /\ \A n \in Reported : Len(rate'[n]) <= RateMax
    BY <1>5, <2>1, Numbers DEF Exit, Boot, Empty
  <2>4. /\ stream' \in Seq([node : Tenants, action : Actions])
        /\ raw' \in Seq(RawType) /\ corr' \in Seq(Event) /\ fwd' \in Seq(Event)
        /\ sent' \in Seq([node : Reported, at : 0..now])
    BY <1>5, <2>1 DEF Exit, Boot
  <2>5. /\ hand' \in Event /\ ppc' = "get" /\ up' = FALSE /\ listening' = TRUE
        /\ known' = {} /\ mapAt' = -MapAge
    BY <1>5, NoEventType DEF Exit, Boot
  <2>6. UNCHANGED <<container, attached>>
    BY <1>5 DEF Exit
  <2> QED
    BY <2>2, <2>3, <2>4, <2>5, <2>6 DEF TypeOK
<1> QED
  BY <1>1, <1>2, <1>3, <1>4, <1>5

\* The collectors keep the types.
LEMMA TypeCollect ==
    ASSUME TypeOK, CollectDocker \/ ReadLine
    PROVE  TypeOK'
<1> USE DEF host, collector, correlator, policy, forwarder
<1>1. CASE CollectDocker
  <2> DEFINE n == Head(stream).node
             action == Head(stream).action
  <2>1. Head(stream) \in Dockers /\ Tail(stream) \in Seq(Dockers)
    <3>1. stream \in Seq(Dockers) /\ stream # << >>
      BY <1>1 DEF TypeOK, CollectDocker, Dockers
    <3> QED
      BY <3>1, HeadTailProperties
  <2>2. n \in Tenants
    BY <2>1 DEF Dockers
  <2>3. now \in Nat /\ now' = now
    BY <1>1, Numbers DEF TypeOK, CollectDocker
  <2>4. restarts[n] \in Seq(Times) /\ starts[n] \in Seq(Times)
    BY <2>2 DEF TypeOK, Times
  <2>5. Started(n) \in Seq(Times) /\ Append(starts[n], now) \in Seq(Times)
    <3>1. now - LoopWindow \in Int
      BY <2>3, Numbers
    <3>2. /\ Append(Evict(restarts[n], now - LoopWindow), now) \in Seq(Times)
          /\ Append(starts[n], now) \in Seq(Times)
      BY <2>3, <2>4, <3>1, WindowType
    <3> QED
      BY <3>2 DEF Started
  <2>6. restarts' \in [Tenants -> Seq(Times)] /\ starts' \in [Tenants -> Seq(Times)]
    BY <1>1, <2>5 DEF TypeOK, CollectDocker, Times
  <2>7. raw' \in Seq(RawType)
    <3>1. \A count : [source |-> "docker", node |-> n, type |-> Threat(action, count)] \in RawType
      BY <2>2 DEF RawType, Threat, Threats
    <3>2. raw \in Seq(RawType)
      BY DEF TypeOK
    <3>3. \/ raw' = raw
          \/ raw' = Append(raw, [source |-> "docker", node |-> n,
                                 type |-> Threat(action, Len(restarts'[n]))])
      BY <1>1 DEF CollectDocker
    <3> QED
      BY <3>1, <3>2, <3>3, AppendProperties
  <2>8. UNCHANGED <<host, up, listening, correlator, corr, policy, fwd, forwarder>>
    BY <1>1 DEF CollectDocker
  <2>9. stream' = Tail(stream)
    BY <1>1 DEF CollectDocker
  <2> QED
    BY <2>1, <2>3, <2>6, <2>7, <2>8, <2>9 DEF TypeOK, Times, Dockers
<1>2. CASE ReadLine
  <2>1. PICK l \in Lines :
            raw' = Append(raw, [source |-> l.sensor, type |-> l.type, sev |-> Severity(l),
                                src |-> l.src, dst |-> l.dst])
    BY <1>2 DEF ReadLine
  <2>2. [source |-> l.sensor, type |-> l.type, sev |-> Severity(l),
         src |-> l.src, dst |-> l.dst] \in RawType
    <3>1. l.sensor \in {"suricata", "zeek", "falco"}
      BY MonitorAssumption
    <3> QED
      BY <3>1, SeverityType DEF RawType
  <2>3. raw' \in Seq(RawType)
    BY <2>1, <2>2, AppendProperties DEF TypeOK
  <2> QED
    BY <1>2, <2>3 DEF ReadLine, TypeOK
<1> QED
  BY <1>1, <1>2

\* An address is resolved to a tenant or to nothing.
LEMMA ResolveType ==
    ASSUME NEW x, NEW map \in SUBSET Tenants
    PROVE  Resolve(x, map) \in Tenants \cup {"unknown"}
BY DEF Resolve

\* So an alert is booked to a node that may be reported.
LEMMA NodeOfType ==
    ASSUME NEW e, NEW map1 \in SUBSET Tenants, NEW map2 \in SUBSET Tenants
    PROVE  NodeOf(e, map1, map2) \in Reported
BY ResolveType DEF NodeOf, Reported

\* What the head of the raw queue is.
LEMMA HeadOfRaw ==
    ASSUME TypeOK, raw # << >>
    PROVE  /\ Tail(raw) \in Seq(RawType)
           /\ Head(raw).source = "docker" => /\ Head(raw).node \in Tenants
                                             /\ Head(raw).type \in Threats
           /\ Head(raw).source # "docker" => /\ Head(raw).type \in {l.type : l \in Lines}
                                             /\ Head(raw).sev \in Severities
<1>1. raw \in Seq(RawType)
  BY DEF TypeOK
<1>2. Head(raw) \in RawType /\ Tail(raw) \in Seq(RawType)
  BY <1>1, HeadTailProperties
<1>3. \/ Head(raw) \in [source : {"docker"}, node : Tenants, type : Threats]
      \/ Head(raw) \in [source : {"suricata", "zeek", "falco"}, type : {l.type : l \in Lines},
                        sev : Severities, src : {l.src : l \in Lines}, dst : {l.dst : l \in Lines}]
  BY <1>2 DEF RawType
<1> QED
  BY <1>2, <1>3

\* Every alert the correlator puts out is an event.
LEMMA JudgeType ==
    ASSUME TypeOK, NEW e, NEW n \in Reported, Judge(e, n),
           e.type \in {l.type : l \in Lines}, e.sev \in Severities
    PROVE  history' \in [Tenants -> Seq(Times)] /\ corr' \in Seq(Event)
<1>1. now \in Nat
  BY Numbers DEF TypeOK
<1>2. ASSUME n \in Tenants PROVE Pruned(n) \in Seq(Times)
  <2>1. history[n] \in Seq(Times)
    BY <1>2 DEF TypeOK, Times
  <2> QED
    BY <1>1, <2>1, Numbers, WindowType DEF Pruned
<1>3. history' \in [Tenants -> Seq(Times)]
  BY <1>2 DEF Judge, TypeOK, Times
<1> DEFINE joined == n \in Tenants /\ Pruned(n) # << >>
           alert == [node |-> n, type |-> e.type, sev |-> IF joined THEN "CRITICAL" ELSE e.sev,
                     correlated |-> joined]
<1>4. alert \in Event
  <2>1. joined \in BOOLEAN
    OBVIOUS
  <2>2. (IF joined THEN "CRITICAL" ELSE e.sev) \in Severities
    BY DEF Severities
  <2> HIDE DEF joined
  <2> QED
    BY <2>1, <2>2 DEF Event
<1>5. corr' = Append(corr, alert) /\ corr \in Seq(Event)
  BY DEF Judge, TypeOK
<1> HIDE DEF alert
<1> QED
  BY <1>3, <1>4, <1>5, AppendProperties

\* The correlator keeps the types.
LEMMA TypeCorrelate ==
    ASSUME TypeOK, Correlate
    PROVE  TypeOK'
<1> USE DEF host, collector, correlator, policy, forwarder
<1>1. now \in Nat /\ now' = now /\ now \in Times
  BY Numbers DEF TypeOK, Correlate, CorrelateDocker, CorrelateAlert, Times
<1>2. CASE CorrelateDocker
  <2> DEFINE e == Head(raw)
  <2>1. e.node \in Tenants /\ e.type \in Threats /\ raw' \in Seq(RawType)
    BY <1>2, HeadOfRaw DEF CorrelateDocker
  <2>2. Append(Evict(history[e.node], now - Window), now) \in Seq(Times)
    <3>1. history[e.node] \in Seq(Times)
      BY <2>1 DEF TypeOK, Times
    <3> QED
      BY <1>1, <3>1, Numbers, WindowType
  <2>3. history' \in [Tenants -> Seq(Times)] /\ docked' \in [Tenants -> SUBSET Times]
    BY <1>1, <1>2, <2>2 DEF CorrelateDocker, TypeOK, Times
  <2>4. corr' \in Seq(Event)
    <3> DEFINE threat == [node |-> e.node, type |-> e.type, sev |-> "HIGH", correlated |-> FALSE]
    <3>1. e.node \in Reported /\ "HIGH" \in Severities /\ FALSE \in BOOLEAN
      BY <2>1 DEF Reported, Severities
    <3>2. threat \in Event
      BY <2>1, <3>1 DEF Event
    <3>3. corr' = corr \/ corr' = Append(corr, threat)
      BY <1>2 DEF CorrelateDocker
    <3>4. corr \in Seq(Event)
      BY DEF TypeOK
    <3> HIDE DEF threat
    <3> QED
      BY <3>2, <3>3, <3>4, AppendProperties
  <2>5. UNCHANGED <<host, stream, up, collector, known, mapAt, policy, fwd, forwarder>>
    BY <1>2 DEF CorrelateDocker
  <2> QED
    BY <1>1, <2>1, <2>3, <2>4, <2>5 DEF TypeOK, Times
<1>3. CASE CorrelateAlert
  <2> DEFINE e == Head(raw)
  <2>1. e.type \in {l.type : l \in Lines} /\ e.sev \in Severities /\ raw' \in Seq(RawType)
    BY <1>3, HeadOfRaw DEF CorrelateAlert
  <2>2. known \in SUBSET Tenants /\ Listed \in SUBSET Tenants
    BY DEF TypeOK, Listed
  <2>3. PICK n \in Reported : Judge(e, n)
    BY <1>3, <2>2, NodeOfType DEF CorrelateAlert
  <2>4. history' \in [Tenants -> Seq(Times)] /\ corr' \in Seq(Event)
    BY <2>1, <2>3, JudgeType
  <2>5. known' \in SUBSET Tenants /\ mapAt' \in {mapAt, now}
    BY <1>3, <2>2 DEF CorrelateAlert
  <2>6. UNCHANGED <<host, stream, up, collector, docked, policy, fwd, forwarder>>
    BY <1>3 DEF CorrelateAlert
  <2> QED
    BY <1>1, <2>1, <2>4, <2>5, <2>6 DEF TypeOK, Times
<1> QED
  BY <1>2, <1>3 DEF Correlate

\* The policy thread keeps the types, failing or not, and enforces what a policy says.
LEMMA TypePolicy ==
    ASSUME TypeOK, Acting, PolicyStep \/ EnforceError
    PROVE  TypeOK' /\ Acting'
<1> USE DEF host, collector, correlator, policy, forwarder
<1>1. CASE Decide
  <2>1. Head(corr) \in Event /\ Tail(corr) \in Seq(Event)
    <3>1. corr \in Seq(Event) /\ corr # << >>
      BY <1>1 DEF TypeOK, Decide
    <3> QED
      BY <3>1, HeadTailProperties
  <2>2. hand' = Head(corr) /\ corr' = Tail(corr) /\ ppc' \in {"put", "act"}
    BY <1>1 DEF Decide
  <2>3. Acting'
    <3>1. hand'.node \in Tenants \cup {Self}
      BY <2>1, <2>2 DEF Event, Reported
    <3> QED
      BY <1>1, <3>1 DEF Decide, Acting, ActionFor
  <2>4. UNCHANGED <<now, host, stream, up, collector, raw, correlator, fwd, forwarder>>
    BY <1>1 DEF Decide
  <2> QED
    BY <2>1, <2>2, <2>3, <2>4 DEF TypeOK
<1>2. CASE Enforce
  <2>1. ActionFor(hand) \in {"quarantine", "pause", "network_isolate"}
    BY <1>2, ActionType DEF Acting, Enforce
  <2>2. stream \in Seq(Dockers)
    BY DEF TypeOK, Dockers
  <2>3. ASSUME hand.node \in Tenants
        PROVE  /\ Streamed(<<Docker(hand.node, "stop")>>) \in Seq(Dockers)
               /\ Streamed(<<Docker(hand.node, "pause")>>) \in Seq(Dockers)
               /\ Streamed(<<Docker(hand.node, "disconnect")>>) \in Seq(Dockers)
    <3>1. /\ <<Docker(hand.node, "stop")>> \in Seq(Dockers)
          /\ <<Docker(hand.node, "pause")>> \in Seq(Dockers)
          /\ <<Docker(hand.node, "disconnect")>> \in Seq(Dockers)
      BY <2>3 DEF Docker, Dockers, Actions
    <3> QED
      BY <2>2, <3>1, StreamedType
  <2>4. hand.node \in Tenants
    BY <1>2 DEF Acting, Enforce, TypeOK
  <2>5. /\ container' \in [Tenants -> {"running", "paused", "exited"}]
        /\ attached' \subseteq Tenants /\ stream' \in Seq(Dockers)
    <3>1. CASE ActionFor(hand) = "quarantine"
      BY <1>2, <2>2, <2>3, <2>4, <3>1 DEF Enforce, Quarantine, TypeOK
    <3>2. CASE ActionFor(hand) = "pause"
      BY <1>2, <2>2, <2>3, <2>4, <3>2 DEF Enforce, PauseNode, TypeOK
    <3>3. CASE ActionFor(hand) = "network_isolate"
      BY <1>2, <2>2, <2>3, <2>4, <3>3 DEF Enforce, Isolate, TypeOK
    <3> QED
      BY <2>1, <3>1, <3>2, <3>3
  <2>6. UNCHANGED <<now, up, collector, raw, correlator, corr, hand, fwd, forwarder>>
        /\ ppc' = "put"
    BY <1>2 DEF Enforce
  <2> QED
    BY <2>5, <2>6 DEF TypeOK, Acting, Dockers
<1>3. CASE EnforceError
  BY <1>3 DEF EnforceError, TypeOK, Acting
<1>4. CASE PassOn
  <2>1. fwd' \in Seq(Event)
    BY <1>4, AppendProperties DEF PassOn, TypeOK
  <2> QED
    BY <1>4, <2>1 DEF PassOn, TypeOK, Acting
<1> QED
  BY <1>1, <1>2, <1>3, <1>4 DEF PolicyStep

\* The forwarder keeps the types, and a window never grows past the limit.
LEMMA TypeForward ==
    ASSUME TypeOK, Forward
    PROVE  TypeOK'
<1> USE DEF host, collector, correlator, policy, forwarder
<1> DEFINE e == Head(fwd)
           q == Recent(e.node)
<1>1. e \in Event /\ Tail(fwd) \in Seq(Event)
  <2>1. fwd \in Seq(Event) /\ fwd # << >>
    BY DEF TypeOK, Forward
  <2> QED
    BY <2>1, HeadTailProperties
<1>2. e.node \in Reported /\ now \in Nat /\ now \in Times
  BY <1>1, Numbers DEF Event, TypeOK, Times
<1>3. rate[e.node] \in Seq(Times)
  BY <1>2 DEF TypeOK, Times
<1>4. /\ q \in Seq(Times) /\ Append(q, now) \in Seq(Times)
      /\ Len(Append(q, now)) = Len(q) + 1 /\ Len(q) <= Len(rate[e.node]) /\ Len(q) \in Nat
  <2>1. Times \subseteq Int /\ now - RateWindow \in Int
    BY <1>2, Numbers DEF Times
  <2>2. q = Evict(rate[e.node], now - RateWindow)
    BY DEF Recent
  <2>3. q \in Seq(Times) /\ Len(q) <= Len(rate[e.node])
    BY <1>3, <2>1, <2>2, EvictType
  <2> HIDE DEF q
  <2> QED
    BY <1>2, <2>3, AppendProperties, LenProperties
<1> HIDE DEF q
<1>5. /\ rate' \in [Reported -> Seq(Times)]
      /\ \A n \in Reported : Len(rate'[n]) <= RateMax
      /\ sent' \in Seq([node : Reported, at : Times])
  <2>1. CASE Len(q) >= RateMax
    <3>1. rate' = [rate EXCEPT ![e.node] = q] /\ UNCHANGED sent
      BY <2>1 DEF Forward, q
    <3>2. Len(q) <= RateMax
      BY <1>2, <1>3, <1>4, LenProperties, Numbers DEF TypeOK
    <3> QED
      BY <1>2, <1>4, <3>1, <3>2 DEF TypeOK, Times
  <2>2. CASE ~(Len(q) >= RateMax)
    <3>1. /\ rate' = [rate EXCEPT ![e.node] = Append(q, now)]
          /\ sent' = Append(sent, [node |-> e.node, at |-> now])
      BY <2>2 DEF Forward, q
    <3>2. Len(Append(q, now)) <= RateMax
      BY <1>4, <2>2, Numbers
    <3>3. sent' \in Seq([node : Reported, at : Times])
      BY <1>2, <3>1, AppendProperties DEF TypeOK, Times
    <3> QED
      BY <1>2, <1>4, <3>1, <3>2, <3>3 DEF TypeOK, Times
  <2> QED
    BY <2>1, <2>2
<1>6. fwd' = Tail(fwd)
      /\ UNCHANGED <<now, host, stream, up, collector, raw, correlator, corr, policy>>
  BY DEF Forward
<1> QED
  BY <1>1, <1>5, <1>6 DEF TypeOK, Times

\* Every step keeps the types and what the policy thread is about.
LEMMA TypeNext == TypeOK /\ Acting /\ [Next]_vars => TypeOK' /\ Acting'
<1> SUFFICES ASSUME TypeOK, Acting, [Next]_vars PROVE TypeOK' /\ Acting'
  OBVIOUS
<1> USE DEF host, collector, correlator, policy, forwarder
<1>1. CASE UNCHANGED vars
  <2>1. TypeOK'
    BY <1>1 DEF TypeOK, vars
  <2>2. Acting'
    BY <1>1 DEF Acting, vars, ActionFor
  <2> QED
    BY <2>1, <2>2
<1>2. CASE PolicyStep \/ EnforceError
  BY <1>2, TypePolicy
<1>3. CASE Tick
  BY <1>3, TypeTick DEF Acting, Tick, ActionFor
<1>4. CASE \/ \E n \in Tenants : Operate(n)
           \/ StreamBreaks \/ Reconnect \/ Exit \/ Restart
  <2>1. Acting'
    BY <1>4 DEF Acting, Operate, StreamBreaks, Reconnect, Exit, Restart, Boot, ActionFor
  <2> QED
    BY <1>4, <2>1, TypeWorld
<1>5. CASE CollectDocker \/ ReadLine
  <2>1. Acting'
    BY <1>5 DEF Acting, CollectDocker, ReadLine, ActionFor
  <2> QED
    BY <1>5, <2>1, TypeCollect
<1>6. CASE Correlate
  <2>1. Acting'
    BY <1>6 DEF Acting, Correlate, CorrelateDocker, CorrelateAlert, ActionFor
  <2> QED
    BY <1>6, <2>1, TypeCorrelate
<1>7. CASE Forward
  <2>1. Acting'
    BY <1>7 DEF Acting, Forward, ActionFor
  <2> QED
    BY <1>7, <2>1, TypeForward
<1> QED
  BY <1>1, <1>2, <1>3, <1>4, <1>5, <1>6, <1>7 DEF Next

\* The threads keep the types of the queues they share and the windows within the limits
\* they are compared with (docker_collector.py, threat_correlator.py, policy_engine.py,
\* event_forwarder.py).
THEOREM MonitorTypeCorrect == Spec => []TypeOK
<1>1. TypeOK /\ Acting /\ [Next]_vars => (TypeOK /\ Acting)'
  BY TypeNext
<1> QED
  BY <1>1, TypeInit, PTL DEF Spec

------------------------------------------------------------------------------
(* Correlation.                                                              *)

\* What is not too old stays in a window, and what stays was there; what is first in it,
\* when there is anything, is not too old.
LEMMA EvictKeeps ==
    ASSUME NEW T, T \subseteq Int, NEW q \in Seq(T), NEW limit \in Int
    PROVE  LET w == Evict(q, limit)
           IN /\ w \in Seq(T)
              /\ \A i \in 1..Len(w) : \E j \in 1..Len(q) : w[i] = q[j]
              /\ \A j \in 1..Len(q) : q[j] >= limit => \E i \in 1..Len(w) : w[i] = q[j]
              /\ w # << >> => 1 \in 1..Len(w) /\ w[1] >= limit
<1> DEFINE w == Evict(q, limit)
<1>1. Len(q) \in Nat /\ \A j \in 1..Len(q) : q[j] \in Int
  BY LenProperties, ElementOfSeq
<1>2. PICK k \in 0..Len(q) :
              /\ Evict(q, limit) \in Seq(T)
              /\ Len(Evict(q, limit)) = Len(q) - k
              /\ \A i \in 1..(Len(q) - k) : Evict(q, limit)[i] = q[k + i]
              /\ \A j \in 1..k : q[j] < limit
              /\ k < Len(q) => q[k + 1] >= limit
  BY EvictTakesPrefix
<1>3. /\ w \in Seq(T) /\ Len(w) = Len(q) - k
      /\ \A i \in 1..Len(w) : w[i] = q[k + i]
  BY <1>2
<1> HIDE DEF w
<1>4. \A i \in 1..Len(w) : k + i \in 1..Len(q)
  BY <1>1, <1>3
<1>5. ASSUME NEW j \in 1..Len(q), q[j] >= limit
      PROVE  \E i \in 1..Len(w) : w[i] = q[j]
  <2>1. j \notin 1..k
    BY <1>1, <1>2, <1>5
  <2>2. j - k \in 1..Len(w) /\ k + (j - k) = j
    BY <1>1, <1>3, <2>1
  <2> QED
    BY <1>3, <2>2
<1>6. ASSUME w # << >> PROVE 1 \in 1..Len(w) /\ w[1] >= limit
  <2>1. Len(w) \in Nat \ {0}
    BY <1>3, <1>6, EmptySeq
  <2>2. k < Len(q)
    BY <1>1, <1>3, <2>1
  <2> QED
    BY <1>1, <1>2, <1>3, <2>1, <2>2
<1> QED
  BY <1>3, <1>4, <1>5, <1>6 DEF w

\* The window holds times out of a set, and all of it that is not too old.
Holds(q, times, m) ==
    /\ \A i \in 1..Len(q) : q[i] \in times
    /\ \A t \in times : m - t <= Window => \E i \in 1..Len(q) : q[i] = t

\* Pruning takes nothing away that counts.
LEMMA HoldsPruned ==
    ASSUME NEW m \in Nat, NEW q \in Seq(0..m), NEW times \in SUBSET (0..m), Holds(q, times, m)
    PROVE  /\ Holds(Evict(q, m - Window), times, m)
           /\ Evict(q, m - Window) # << >> <=> \E t \in times : m - t <= Window
<1> DEFINE w == Evict(q, m - Window)
<1>1. Window \in Nat /\ m - Window \in Int /\ 0..m \subseteq Int
  BY Numbers
<1>2. /\ w \in Seq(0..m)
      /\ \A i \in 1..Len(w) : \E j \in 1..Len(q) : w[i] = q[j]
      /\ \A j \in 1..Len(q) : q[j] >= m - Window => \E i \in 1..Len(w) : w[i] = q[j]
      /\ w # << >> => 1 \in 1..Len(w) /\ w[1] >= m - Window
  BY <1>1, EvictKeeps
<1> HIDE DEF w
<1>3. \A i \in 1..Len(w) : w[i] \in times
  BY <1>2 DEF Holds
<1>4. ASSUME NEW t \in times, m - t <= Window
      PROVE  \E i \in 1..Len(w) : w[i] = t
  <2>1. PICK j \in 1..Len(q) : q[j] = t
    BY <1>4 DEF Holds
  <2>2. t >= m - Window
    BY <1>1, <1>4
  <2> QED
    BY <1>2, <2>1, <2>2
<1>5. Holds(w, times, m)
  BY <1>3, <1>4 DEF Holds
<1>6. ASSUME w # << >> PROVE \E t \in times : m - t <= Window
  <2>1. w[1] \in times /\ w[1] \in 0..m
    BY <1>2, <1>3, <1>6
  <2>2. \A t \in 0..m : t >= m - Window => m - t <= Window
    BY <1>1
  <2> QED
    BY <1>2, <1>6, <2>1, <2>2
<1>7. ASSUME NEW t \in times, m - t <= Window PROVE w # << >>
  <2>1. PICK i \in 1..Len(w) : w[i] = t
    BY <1>4, <1>7
  <2>2. Len(<< >>) = 0
    BY EmptySeq
  <2> QED
    BY <2>1, <2>2
<1> QED
  BY <1>5, <1>6, <1>7 DEF w

\* Neither does what comes in.
LEMMA HoldsAppended ==
    ASSUME NEW m \in Nat, NEW q \in Seq(0..m), NEW times, Holds(q, times, m)
    PROVE  Holds(Append(q, m), times \cup {m}, m)
<1>1. /\ Len(q) \in Nat /\ Len(Append(q, m)) = Len(q) + 1
      /\ \A i \in 1..Len(q) : Append(q, m)[i] = q[i]
      /\ Append(q, m)[Len(q) + 1] = m
  BY AppendProperties, LenProperties
<1>2. \A i \in 1..(Len(q) + 1) : i \in 1..Len(q) \/ i = Len(q) + 1
  BY <1>1
<1>3. \A i \in 1..Len(q) : i \in 1..(Len(q) + 1)
  BY <1>1
<1>4. Len(q) + 1 \in 1..(Len(q) + 1)
  BY <1>1
<1>5. \A i \in 1..Len(Append(q, m)) : Append(q, m)[i] \in times \cup {m}
  BY <1>1, <1>2 DEF Holds
<1>6. ASSUME NEW t \in times \cup {m}, m - t <= Window
      PROVE  \E i \in 1..Len(Append(q, m)) : Append(q, m)[i] = t
  <2>1. CASE t = m
    BY <1>1, <1>4, <2>1
  <2>2. CASE t \in times
    <3>1. PICK i \in 1..Len(q) : q[i] = t
      BY <1>6, <2>2 DEF Holds
    <3> QED
      BY <1>1, <1>3, <3>1
  <2> QED
    BY <2>1, <2>2
<1> QED
  BY <1>5, <1>6 DEF Holds

\* docker_history holds the Docker events of the node that have not left the window yet.
Remembered == \A n \in Tenants : Holds(history[n], docked[n], now)

\* The initial states remember nothing, and there is nothing.
LEMMA RememberedInit == Init => Remembered
<1>1. Len(<< >>) = 0
  BY EmptySeq
<1> QED
  BY <1>1 DEF Init, Remembered, Holds, Empty

\* Every step keeps the windows of the correlator.
LEMMA RememberedNext == TypeOK /\ Remembered /\ [Next]_vars => Remembered'
<1> SUFFICES ASSUME TypeOK, Remembered, [Next]_vars, NEW n \in Tenants
             PROVE  Holds(history'[n], docked'[n], now')
  BY DEF Remembered
<1> USE DEF collector, correlator, policy, forwarder
<1>1. now \in Nat /\ history[n] \in Seq(0..now) /\ docked[n] \in SUBSET (0..now)
  BY Numbers DEF TypeOK
<1>2. Holds(history[n], docked[n], now)
  BY DEF Remembered
<1>3. Holds(Evict(history[n], now - Window), docked[n], now)
  BY <1>1, <1>2, HoldsPruned
<1>4. CASE CorrelateDocker
  <2> DEFINE e == Head(raw)
             w == Evict(history[n], now - Window)
  <2>1. w \in Seq(0..now)
    <3>1. now - Window \in Int /\ 0..now \subseteq Int
      BY <1>1, Numbers
    <3> QED
      BY <1>1, <3>1, EvictType
  <2>2. e.node \in Tenants
    BY <1>4, HeadOfRaw DEF CorrelateDocker
  <2>3. now' = now
    BY <1>4 DEF CorrelateDocker
  <2>4. CASE e.node = n
    <3>1. history'[n] = Append(w, now) /\ docked'[n] = docked[n] \cup {now}
      BY <1>4, <2>4 DEF CorrelateDocker, TypeOK
    <3> HIDE DEF w
    <3>2. Holds(Append(w, now), docked[n] \cup {now}, now)
      BY <1>1, <1>3, <2>1, HoldsAppended DEF w
    <3> QED
      BY <2>3, <3>1, <3>2
  <2>5. CASE e.node # n
    <3>1. history'[n] = history[n] /\ docked'[n] = docked[n]
      BY <1>4, <2>5 DEF CorrelateDocker, TypeOK
    <3> QED
      BY <1>2, <2>3, <3>1
  <2> QED
    BY <2>4, <2>5
<1>5. CASE CorrelateAlert
  <2>1. history'[n] \in {history[n], Evict(history[n], now - Window)}
    BY <1>5 DEF CorrelateAlert, Judge, Pruned, TypeOK
  <2>2. docked' = docked /\ now' = now
    BY <1>5 DEF CorrelateAlert
  <2> QED
    BY <1>2, <1>3, <2>1, <2>2
<1>6. CASE Tick
  <2>1. history' = history /\ docked' = docked /\ now' = now + 1
    BY <1>6 DEF Tick
  <2>2. \A t \in docked[n] : now' - t <= Window => now - t <= Window
    BY <1>1, <2>1, Numbers
  <2> QED
    BY <1>2, <2>1, <2>2 DEF Holds
<1>7. CASE Exit
  <2>1. history'[n] = << >> /\ docked'[n] = {} /\ Len(<< >>) = 0
    BY <1>7, EmptySeq DEF Exit, Boot, Empty
  <2> QED
    BY <2>1 DEF Holds
<1>8. CASE UNCHANGED <<now, history, docked>>
  BY <1>2, <1>8
<1>9. UNCHANGED <<now, history, docked>> \/ Tick \/ Exit \/ Correlate
  BY DEF Next, vars, Operate, CollectDocker, StreamBreaks, Reconnect, ReadLine, PolicyStep,
         Decide, Enforce, PassOn, EnforceError, Forward, Restart
<1> QED
  BY <1>4, <1>5, <1>6, <1>7, <1>8, <1>9 DEF Correlate

\* So a step that puts out an alert of a sensor joins it exactly with what is recent.
LEMMA JoinStep ==
    ASSUME TypeOK, Remembered, [Next]_vars,
           raw # << >>, Head(raw).source # "docker", Len(corr') > Len(corr)
    PROVE  LET e == corr'[Len(corr')]
           IN e.correlated <=> /\ e.node \in Tenants
                               /\ \E t \in docked[e.node] : now - t <= Window
<1>1. corr \in Seq(Event) /\ Len(corr) \in Nat
  BY LenProperties DEF TypeOK
<1>2. CASE CorrelateAlert
  <2>1. PICK n \in Reported : Judge(Head(raw), n)
    <3>1. known \in SUBSET Tenants /\ Listed \in SUBSET Tenants
      BY DEF TypeOK, Listed
    <3> QED
      BY <1>2, <3>1, NodeOfType DEF CorrelateAlert
  <2> DEFINE joined == n \in Tenants /\ Pruned(n) # << >>
             alert == [node |-> n, type |-> Head(raw).type,
                       sev |-> IF joined THEN "CRITICAL" ELSE Head(raw).sev,
                       correlated |-> joined]
  <2>2. corr' = Append(corr, alert)
    BY <2>1 DEF Judge
  <2>3. corr'[Len(corr')] = alert
    <3>1. Len(Append(corr, alert)) = Len(corr) + 1 /\ Append(corr, alert)[Len(corr) + 1] = alert
      <4>1. corr \in Seq({corr[i] : i \in 1..Len(corr)} \cup {alert})
        BY <1>1
      <4> QED
        BY <4>1, AppendProperties
    <3> QED
      BY <2>2, <3>1
  <2>4. alert.correlated = joined /\ alert.node = n
    OBVIOUS
  <2>5. ASSUME n \in Tenants
        PROVE  Pruned(n) # << >> <=> \E t \in docked[n] : now - t <= Window
    <3>1. /\ now \in Nat /\ history[n] \in Seq(0..now) /\ docked[n] \in SUBSET (0..now)
          /\ Holds(history[n], docked[n], now)
      BY <2>5, Numbers DEF TypeOK, Remembered
    <3> QED
      BY <3>1, HoldsPruned DEF Pruned
  <2>6. joined <=> n \in Tenants /\ \E t \in docked[n] : now - t <= Window
    BY <2>5
  <2> HIDE DEF joined, alert
  <2> QED
    BY <2>3, <2>4, <2>6
<1>3. CASE Exit
  <2>1. corr' = << >> /\ Len(<< >>) = 0
    BY <1>3, EmptySeq DEF Exit, Boot
  <2> QED
    BY <1>1, <2>1
<1>4. CASE Decide
  <2>1. Len(corr') = Len(corr) - 1
    BY <1>1, <1>4, HeadTailProperties DEF Decide
  <2> QED
    BY <1>1, <2>1
<1>5. CASE corr' = corr
  BY <1>1, <1>5
<1>6. CASE CorrelateDocker
  BY <1>6 DEF CorrelateDocker
<1>7. corr' = corr \/ Exit \/ Decide \/ CorrelateDocker \/ CorrelateAlert
  BY DEF Next, vars, Tick, Operate, CollectDocker, StreamBreaks, Reconnect, ReadLine,
         PolicyStep, Enforce, PassOn, EnforceError, Forward, Restart, Correlate
<1> QED
  BY <1>2, <1>3, <1>4, <1>5, <1>6, <1>7

\* An alert is joined exactly with a Docker event of its node handled at most a window
\* before, although each branch of the correlator prunes the deque as the other left it
\* (threat_correlator.py, run).
THEOREM JoinsAreRecent == Spec => JoinedIffRecent
<1>1. TypeOK /\ Remembered /\ [Next]_vars
        => [(raw # << >> /\ Head(raw).source # "docker" /\ Len(corr') > Len(corr)) =>
                LET e == corr'[Len(corr')]
                IN e.correlated <=> /\ e.node \in Tenants
                                    /\ \E t \in docked[e.node] : now - t <= Window]_vars
  BY JoinStep
<1> QED
  BY <1>1, RememberedInit, RememberedNext, MonitorTypeCorrect, PTL DEF Spec, JoinedIffRecent

------------------------------------------------------------------------------
(* Restart loops.                                                            *)

\* Times that do not decrease.
Sorted(s) == \A i, j \in 1..Len(s) : i <= j => s[i] <= s[j]

\* The window is what is left of all times when a prefix older than the limit is gone.
Left(q, s, limit) ==
    \E k \in 0..Len(s) : /\ Len(q) = Len(s) - k
                         /\ \A i \in 1..Len(q) : q[i] = s[k + i]
                         /\ \A i \in 1..k : s[i] < limit

\* Pruning leaves such a window.
LEMMA LeftPruned ==
    ASSUME NEW m \in Nat, NEW q \in Seq(0..m), NEW s \in Seq(0..m), NEW limit \in Int,
           Left(q, s, limit)
    PROVE  Left(Evict(q, limit), s, limit)
<1> DEFINE w == Evict(q, limit)
<1>1. Len(q) \in Nat /\ Len(s) \in Nat /\ 0..m \subseteq Int
  BY LenProperties
<1>2. PICK k \in 0..Len(q) :
              /\ Evict(q, limit) \in Seq(0..m)
              /\ Len(Evict(q, limit)) = Len(q) - k
              /\ \A i \in 1..(Len(q) - k) : Evict(q, limit)[i] = q[k + i]
              /\ \A j \in 1..k : q[j] < limit
              /\ k < Len(q) => q[k + 1] >= limit
  BY <1>1, EvictTakesPrefix
<1>3. Len(w) = Len(q) - k /\ \A i \in 1..Len(w) : w[i] = q[k + i]
  BY <1>2
<1> HIDE DEF w
<1>4. PICK d \in 0..Len(s) : /\ Len(q) = Len(s) - d
                             /\ \A i \in 1..Len(q) : q[i] = s[d + i]
                             /\ \A i \in 1..d : s[i] < limit
  BY DEF Left
<1>5. d + k \in 0..Len(s) /\ Len(w) = Len(s) - (d + k)
  BY <1>1, <1>3, <1>4
<1>6. \A i \in 1..Len(w) : w[i] = s[(d + k) + i]
  <2> TAKE i \in 1..Len(w)
  <2>1. k + i \in 1..Len(q) /\ d + (k + i) = (d + k) + i
    BY <1>1, <1>3, <1>4
  <2>2. q[k + i] = s[d + (k + i)]
    BY <1>4, <2>1
  <2> QED
    BY <1>3, <2>1, <2>2
<1>7. \A i \in 1..(d + k) : s[i] < limit
  <2> TAKE i \in 1..(d + k)
  <2>1. CASE i <= d
    BY <1>4, <2>1
  <2>2. CASE i > d
    <3>1. i - d \in 1..k /\ i - d \in 1..Len(q) /\ d + (i - d) = i
      BY <1>1, <1>4, <2>2
    <3>2. q[i - d] = s[d + (i - d)]
      BY <1>4, <3>1
    <3> QED
      BY <1>2, <3>1, <3>2
  <2> QED
    BY <1>4, <2>1, <2>2
<1> QED
  BY <1>5, <1>6, <1>7 DEF Left, w

\* So does a time that comes in.
LEMMA LeftAppended ==
    ASSUME NEW m \in Nat, NEW q \in Seq(0..m), NEW s \in Seq(0..m), NEW limit \in Int,
           Left(q, s, limit)
    PROVE  Left(Append(q, m), Append(s, m), limit)
<1>1. Len(q) \in Nat /\ Len(s) \in Nat
  BY LenProperties
<1>2. /\ Len(Append(q, m)) = Len(q) + 1 /\ Append(q, m)[Len(q) + 1] = m
      /\ \A i \in 1..Len(q) : Append(q, m)[i] = q[i]
      /\ Len(Append(s, m)) = Len(s) + 1 /\ Append(s, m)[Len(s) + 1] = m
      /\ \A i \in 1..Len(s) : Append(s, m)[i] = s[i]
  BY AppendProperties
<1>3. PICK d \in 0..Len(s) : /\ Len(q) = Len(s) - d
                             /\ \A i \in 1..Len(q) : q[i] = s[d + i]
                             /\ \A i \in 1..d : s[i] < limit
  BY DEF Left
<1>4. d \in 0..Len(Append(s, m)) /\ Len(Append(q, m)) = Len(Append(s, m)) - d
  BY <1>1, <1>2, <1>3
<1>5. \A i \in 1..Len(Append(q, m)) : Append(q, m)[i] = Append(s, m)[d + i]
  <2> TAKE i \in 1..Len(Append(q, m))
  <2>1. CASE i \in 1..Len(q)
    <3>1. d + i \in 1..Len(s)
      BY <1>1, <1>3, <2>1
    <3> QED
      BY <1>2, <1>3, <2>1, <3>1
  <2>2. CASE i = Len(q) + 1
    <3>1. d + i = Len(s) + 1
      BY <1>1, <1>3, <2>2
    <3> QED
      BY <1>2, <2>2, <3>1
  <2>3. i \in 1..(Len(q) + 1)
    BY <1>2
  <2>4. i \in 1..Len(q) \/ i = Len(q) + 1
    BY <1>1, <2>3
  <2> QED
    BY <2>1, <2>2, <2>4
<1>6. \A i \in 1..d : Append(s, m)[i] < limit
  <2>1. \A i \in 1..d : i \in 1..Len(s)
    BY <1>1, <1>3
  <2> QED
    BY <1>2, <1>3, <2>1
<1> QED
  BY <1>4, <1>5, <1>6 DEF Left

\* What has passed stays in order.
LEMMA SortedAppended ==
    ASSUME NEW m \in Nat, NEW s \in Seq(0..m), Sorted(s)
    PROVE  Sorted(Append(s, m))
<1>1. Len(s) \in Nat /\ \A i \in 1..Len(s) : s[i] \in 0..m
  BY LenProperties, ElementOfSeq
<1>2. /\ Len(Append(s, m)) = Len(s) + 1 /\ Append(s, m)[Len(s) + 1] = m
      /\ \A i \in 1..Len(s) : Append(s, m)[i] = s[i]
  BY AppendProperties
<1>3. \A i \in 1..(Len(s) + 1) : i \in 1..Len(s) \/ i = Len(s) + 1
  BY <1>1
<1>4. ASSUME NEW i \in 1..(Len(s) + 1), NEW j \in 1..(Len(s) + 1), i <= j
      PROVE  Append(s, m)[i] <= Append(s, m)[j]
  <2>1. CASE j = Len(s) + 1
    BY <1>1, <1>2, <1>3, <2>1
  <2>2. CASE j \in 1..Len(s)
    <3>1. i \in 1..Len(s)
      BY <1>1, <1>4, <2>2
    <3> QED
      BY <1>2, <1>4, <2>2, <3>1 DEF Sorted
  <2> QED
    BY <1>3, <2>1, <2>2
<1> QED
  BY <1>2, <1>4 DEF Sorted

\* The window that is left, when nothing in it is too old, counts what is not.
LEMMA LeftCounts ==
    ASSUME NEW m \in Nat, NEW q \in Seq(0..m), NEW s \in Seq(0..m), NEW limit \in Int,
           Left(q, s, limit), Sorted(s), \A i \in 1..Len(q) : i = 1 => q[i] >= limit
    PROVE  Cardinality({i \in 1..Len(s) : s[i] >= limit}) = Len(q)
<1>1. Len(q) \in Nat /\ Len(s) \in Nat /\ \A i \in 1..Len(s) : s[i] \in Int
  BY LenProperties, ElementOfSeq
<1>2. PICK d \in 0..Len(s) : /\ Len(q) = Len(s) - d
                             /\ \A i \in 1..Len(q) : q[i] = s[d + i]
                             /\ \A i \in 1..d : s[i] < limit
  BY DEF Left
<1>3. \A i \in 1..d : ~(s[i] >= limit)
  BY <1>1, <1>2
<1>4. ASSUME NEW i \in (d + 1)..Len(s) PROVE i \in 1..Len(s) /\ s[i] >= limit
  <2>1. /\ 1 \in 1..Len(q) /\ d + 1 \in 1..Len(s) /\ i \in 1..Len(s)
        /\ d + 1 <= i
    BY <1>1, <1>2
  <2>2. s[d + 1] >= limit
    BY <1>2, <2>1
  <2>3. s[d + 1] <= s[i]
    BY <2>1 DEF Sorted
  <2> QED
    BY <1>1, <2>1, <2>2, <2>3
<1>5. \A i \in 1..Len(s) : i \in 1..d \/ i \in (d + 1)..Len(s)
  BY <1>1, <1>2
<1>6. {i \in 1..Len(s) : s[i] >= limit} = (d + 1)..Len(s)
  BY <1>3, <1>4, <1>5
<1>7. Cardinality((d + 1)..Len(s)) = Len(s) - d
  <2>1. Cardinality((d + 1)..Len(s)) =
            IF d + 1 > Len(s) THEN 0 ELSE Len(s) - (d + 1) + 1
    <3>1. d + 1 \in Int /\ Len(s) \in Int
      BY <1>1, <1>2
    <3> QED
      BY <3>1, FS_Interval
  <2> QED
    BY <1>1, <1>2, <2>1
<1> QED
  BY <1>2, <1>6, <1>7

\* restart_times is what is left of the starts the collector has read.
Counted ==
    \A n \in Tenants : Sorted(starts[n]) /\ Left(restarts[n], starts[n], now - LoopWindow)

\* At first nothing has been read.
LEMMA CountedInit == Init => Counted
<1> SUFFICES ASSUME Init, NEW n \in Tenants
             PROVE  Sorted(starts[n]) /\ Left(restarts[n], starts[n], now - LoopWindow)
  BY DEF Counted
<1>1. starts[n] = << >> /\ restarts[n] = << >> /\ Len(<< >>) = 0
  BY EmptySeq DEF Init, Empty
<1> QED
  BY <1>1 DEF Sorted, Left

\* What the collector does with a start: the new window is what is left of the new starts,
\* and nothing in it is too old.
LEMMA StartCounted ==
    ASSUME TypeOK, Counted, NEW n \in Tenants
    PROVE  LET s == Append(starts[n], now)
           IN /\ Started(n) \in Seq(0..now) /\ s \in Seq(0..now)
              /\ Sorted(s)
              /\ Left(Started(n), s, now - LoopWindow)
              /\ \A i \in 1..Len(Started(n)) : i = 1 => Started(n)[i] >= now - LoopWindow
<1> DEFINE s == Append(starts[n], now)
           w == Evict(restarts[n], now - LoopWindow)
<1>1. /\ now \in Nat /\ now \in 0..now /\ 0..now \subseteq Int
      /\ LoopWindow \in Nat /\ now - LoopWindow \in Int
  BY Numbers DEF TypeOK
<1>2. /\ restarts[n] \in Seq(0..now) /\ starts[n] \in Seq(0..now)
      /\ Sorted(starts[n]) /\ Left(restarts[n], starts[n], now - LoopWindow)
  BY DEF TypeOK, Counted
<1>3. /\ w \in Seq(0..now)
      /\ w # << >> => 1 \in 1..Len(w) /\ w[1] >= now - LoopWindow
  BY <1>1, <1>2, EvictKeeps
<1>4. Left(w, starts[n], now - LoopWindow)
  BY <1>1, <1>2, LeftPruned
<1>5. Started(n) = Append(w, now)
  BY DEF Started
<1> HIDE DEF w
<1>6. Append(w, now) \in Seq(0..now) /\ s \in Seq(0..now)
  BY <1>1, <1>2, <1>3, AppendProperties
<1>7. Sorted(s)
  BY <1>1, <1>2, SortedAppended
<1>8. Left(Append(w, now), s, now - LoopWindow)
  BY <1>1, <1>2, <1>3, <1>4, LeftAppended
<1>9. 1 \in 1..Len(Append(w, now)) => Append(w, now)[1] >= now - LoopWindow
  <2>1. Append(w, now)[Len(w) + 1] = now /\ \A i \in 1..Len(w) : Append(w, now)[i] = w[i]
    BY <1>1, <1>3, AppendProperties
  <2>2. CASE w = << >>
    <3>1. Len(w) + 1 = 1
      BY <2>2, EmptySeq
    <3> QED
      BY <1>1, <2>1, <3>1
  <2>3. CASE w # << >>
    BY <1>3, <2>1, <2>3
  <2> QED
    BY <2>2, <2>3
<1> QED
  BY <1>5, <1>6, <1>7, <1>8, <1>9

\* Every step keeps the windows of the collector.
LEMMA CountedNext == TypeOK /\ Counted /\ [Next]_vars => Counted'
<1> SUFFICES ASSUME TypeOK, Counted, [Next]_vars, NEW n \in Tenants
             PROVE  Sorted(starts'[n]) /\ Left(restarts'[n], starts'[n], now' - LoopWindow)
  BY DEF Counted
<1> USE DEF collector, correlator, policy, forwarder
<1>1. /\ now \in Nat /\ LoopWindow \in Nat
      /\ starts[n] \in Seq(0..now) /\ restarts[n] \in Seq(0..now)
  BY Numbers DEF TypeOK
<1>2. Sorted(starts[n]) /\ Left(restarts[n], starts[n], now - LoopWindow)
  BY DEF Counted
<1>3. CASE CollectDocker
  <2>1. now' = now
    BY <1>3 DEF CollectDocker
  <2>2. \/ restarts'[n] = restarts[n] /\ starts'[n] = starts[n]
        \/ restarts'[n] = Started(n) /\ starts'[n] = Append(starts[n], now)
    BY <1>3 DEF CollectDocker, TypeOK
  <2> QED
    BY <1>2, <2>1, <2>2, StartCounted
<1>4. CASE Tick
  <2>1. restarts' = restarts /\ starts' = starts /\ now' = now + 1
    BY <1>4 DEF Tick
  <2>2. \A t \in 0..now : t < now - LoopWindow => t < now' - LoopWindow
    BY <1>1, <2>1
  <2>3. PICK k \in 0..Len(starts[n]) :
            /\ Len(restarts[n]) = Len(starts[n]) - k
            /\ \A i \in 1..Len(restarts[n]) : restarts[n][i] = starts[n][k + i]
            /\ \A i \in 1..k : starts[n][i] < now - LoopWindow
    BY <1>2 DEF Left
  <2>4. \A i \in 1..k : starts[n][i] \in 0..now
    <3>1. \A i \in 1..k : i \in 1..Len(starts[n])
      BY <1>1, <2>3, LenProperties
    <3> QED
      BY <1>1, <3>1, ElementOfSeq
  <2>5. Left(restarts[n], starts[n], now' - LoopWindow)
    BY <2>2, <2>3, <2>4 DEF Left
  <2> QED
    BY <1>2, <2>1, <2>5
<1>5. CASE Exit
  <2>1. restarts'[n] = << >> /\ starts'[n] = << >> /\ Len(<< >>) = 0
    BY <1>5, EmptySeq DEF Exit, Boot, Empty
  <2> QED
    BY <2>1 DEF Sorted, Left
<1>6. CASE UNCHANGED <<now, restarts, starts>>
  BY <1>2, <1>6
<1>7. UNCHANGED <<now, restarts, starts>> \/ Tick \/ Exit \/ CollectDocker
  BY DEF Next, vars, Operate, StreamBreaks, Reconnect, ReadLine, Correlate, CorrelateDocker,
         CorrelateAlert, PolicyStep, Decide, Enforce, PassOn, EnforceError, Forward, Restart
<1> QED
  BY <1>3, <1>4, <1>5, <1>6, <1>7

\* So a step that passes a start on reports a loop exactly when there is one.
LEMMA LoopStep ==
    ASSUME TypeOK, Counted, [Next]_vars,
           stream # << >>, Len(raw') > Len(raw), Len(stream') < Len(stream),
           Head(stream).action \in Starting
    PROVE  LET n == Head(stream).node
               near == {i \in DOMAIN starts'[n] : now - starts'[n][i] <= LoopWindow}
           IN (raw'[Len(raw')].type = "SUSPICIOUS_RESTART_PATTERN")
                 <=> Cardinality(near) >= LoopMax
<1> USE DEF collector, correlator, policy, forwarder
<1>1. /\ raw \in Seq(RawType) /\ Len(raw) \in Nat
      /\ stream \in Seq(Dockers) /\ Len(stream) \in Nat
  BY LenProperties DEF TypeOK, Dockers
<1>2. CASE CollectDocker
  <2> DEFINE n == Head(stream).node
             action == Head(stream).action
             near == {i \in DOMAIN starts'[n] : now - starts'[n][i] <= LoopWindow}
             s == Append(starts[n], now)
             threat == [source |-> "docker", node |-> n,
                        type |-> Threat(action, Len(Started(n)))]
  <2>1. n \in Tenants
    <3>1. Head(stream) \in Dockers
      BY <1>1, HeadTailProperties
    <3> QED
      BY <3>1 DEF Dockers
  <2>2. restarts'[n] = Started(n) /\ starts'[n] = s
    BY <1>2, <2>1 DEF CollectDocker, TypeOK
  <2>3. /\ now \in Nat /\ LoopWindow \in Nat /\ now - LoopWindow \in Int
        /\ Started(n) \in Seq(0..now) /\ s \in Seq(0..now) /\ Sorted(s)
        /\ Left(Started(n), s, now - LoopWindow)
        /\ \A i \in 1..Len(Started(n)) : i = 1 => Started(n)[i] >= now - LoopWindow
    <3>1. now \in Nat /\ LoopWindow \in Nat
      BY Numbers DEF TypeOK
    <3> QED
      BY <2>1, <3>1, StartCounted
  <2>4. near = {i \in 1..Len(s) : s[i] >= now - LoopWindow}
    <3>1. DOMAIN s = 1..Len(s) /\ \A i \in 1..Len(s) : s[i] \in 0..now
      BY <2>3, LenProperties, ElementOfSeq
    <3>2. \A t \in 0..now : now - t <= LoopWindow <=> t >= now - LoopWindow
      BY <2>3
    <3> HIDE DEF s
    <3> QED
      BY <2>2, <3>1, <3>2
  <2>5. Cardinality(near) = Len(Started(n))
    <3> HIDE DEF s, n, near
    <3> QED
      BY <2>3, <2>4, LeftCounts
  <2>6. raw' = Append(raw, threat)
    BY <1>1, <1>2, <2>2 DEF CollectDocker
  <2>7. raw'[Len(raw')] = threat
    <3>1. raw \in Seq(RawType \cup {threat})
      BY <1>1, SeqMonotonic
    <3> HIDE DEF threat
    <3>2. Len(Append(raw, threat)) = Len(raw) + 1 /\ Append(raw, threat)[Len(raw) + 1] = threat
      BY <3>1, AppendProperties
    <3> QED
      BY <2>6, <3>2
  <2>8. threat.type = "SUSPICIOUS_RESTART_PATTERN" <=> Len(Started(n)) >= LoopMax
    BY DEF Threat, Starting
  <2> HIDE DEF n, near, threat
  <2>9. near = {i \in DOMAIN starts'[n] : now - starts'[n][i] <= LoopWindow}
        /\ n = Head(stream).node
    BY DEF near, n
  <2> QED
    BY <2>5, <2>7, <2>8, <2>9
<1>3. CASE Exit
  <2>1. raw' = << >> /\ Len(<< >>) = 0
    BY <1>3, EmptySeq DEF Exit, Boot
  <2> QED
    BY <1>1, <2>1
<1>4. CASE Correlate
  <2>1. Len(raw') = Len(raw) - 1
    BY <1>1, <1>4, HeadTailProperties DEF Correlate, CorrelateDocker, CorrelateAlert
  <2> QED
    BY <1>1, <2>1
<1>5. CASE raw' = raw
  BY <1>1, <1>5
<1>6. CASE ReadLine
  BY <1>1, <1>6 DEF ReadLine
<1>7. raw' = raw \/ Exit \/ ReadLine \/ Correlate \/ CollectDocker
  BY DEF Next, vars, Tick, Operate, StreamBreaks, Reconnect,
         PolicyStep, Decide, Enforce, PassOn, EnforceError, Forward, Restart
<1> QED
  BY <1>2, <1>3, <1>4, <1>5, <1>6, <1>7

\* A start is reported as part of a loop exactly when it is at least the LoopMax-th start
\* the collector has read within the window (docker_collector.py 71-86).
THEOREM LoopsAreCounted == Spec => LoopIsCounted
<1>1. TypeOK /\ Counted /\ [Next]_vars
        => [(stream # << >> /\ Len(raw') > Len(raw) /\ Len(stream') < Len(stream)
                 /\ Head(stream).action \in Starting) =>
               LET n == Head(stream).node
                   near == {i \in DOMAIN starts'[n] : now - starts'[n][i] <= LoopWindow}
               IN (raw'[Len(raw')].type = "SUSPICIOUS_RESTART_PATTERN")
                     <=> Cardinality(near) >= LoopMax]_vars
  BY LoopStep
<1> QED
  BY <1>1, CountedInit, CountedNext, MonitorTypeCorrect, PTL DEF Spec, LoopIsCounted

------------------------------------------------------------------------------
(* The rate limit.                                                           *)

Reports(m) == Seq([node : Reported, at : 0..m])

\* What has been reported about a node within the window that ends now.
Near(n, s, m) == {j \in 1..Len(s) : s[j].node = n /\ m - s[j].at <= RateWindow}

\* Every slot of the window is the time of a report, and every near report has a slot.
Backed(q, n, s, m) ==
    \E g \in [1..Len(q) -> 1..Len(s)] :
        /\ \A i \in 1..Len(q) : q[i] = s[g[i]].at
        /\ \A j \in Near(n, s, m) : \E i \in 1..Len(q) : g[i] = j

\* So there are no more near reports than slots.
LEMMA BackedBounds ==
    ASSUME NEW m \in Nat, NEW q \in Seq(0..m), NEW n, NEW s, Backed(q, n, s, m)
    PROVE  IsFiniteSet(Near(n, s, m)) /\ Cardinality(Near(n, s, m)) <= Len(q)
<1>1. Len(q) \in Nat
  BY LenProperties
<1>2. PICK g \in [1..Len(q) -> 1..Len(s)] :
          \A j \in Near(n, s, m) : \E i \in 1..Len(q) : g[i] = j
  BY DEF Backed
<1> DEFINE T == {g[i] : i \in 1..Len(q)}
<1>3. g \in Surjection(1..Len(q), T)
  BY <1>2 DEF Surjection
<1>4. IsFiniteSet(1..Len(q)) /\ Cardinality(1..Len(q)) = Len(q)
  BY <1>1, UpTo
<1>5. IsFiniteSet(T) /\ Cardinality(T) <= Len(q)
  BY <1>3, <1>4, FS_Surjection
<1>6. Near(n, s, m) \in SUBSET T
  BY <1>2
<1> HIDE DEF T
<1>7. IsFiniteSet(Near(n, s, m)) /\ Cardinality(Near(n, s, m)) <= Cardinality(T)
  BY <1>5, <1>6, FS_Subset
<1> QED
  BY <1>1, <1>5, <1>7, FS_CardinalityType

\* Pruning takes the slots of reports only that are not near any more.
LEMMA BackedPruned ==
    ASSUME NEW m \in Nat, NEW q \in Seq(0..m), NEW n, NEW s \in Reports(m), Backed(q, n, s, m)
    PROVE  Backed(Evict(q, m - RateWindow), n, s, m)
<1> DEFINE w == Evict(q, m - RateWindow)
<1>1. /\ Len(q) \in Nat /\ 0..m \subseteq Int /\ RateWindow \in Nat /\ m - RateWindow \in Int
      /\ \A i \in 1..Len(q) : q[i] \in 0..m
  BY LenProperties, ElementOfSeq, Numbers
<1>2. PICK k \in 0..Len(q) :
              /\ Evict(q, m - RateWindow) \in Seq(0..m)
              /\ Len(Evict(q, m - RateWindow)) = Len(q) - k
              /\ \A i \in 1..(Len(q) - k) : Evict(q, m - RateWindow)[i] = q[k + i]
              /\ \A j \in 1..k : q[j] < m - RateWindow
              /\ k < Len(q) => q[k + 1] >= m - RateWindow
  BY <1>1, EvictTakesPrefix
<1>3. Len(w) = Len(q) - k /\ \A i \in 1..Len(w) : w[i] = q[k + i]
  BY <1>2
<1> HIDE DEF w
<1>4. PICK g \in [1..Len(q) -> 1..Len(s)] :
          /\ \A i \in 1..Len(q) : q[i] = s[g[i]].at
          /\ \A j \in Near(n, s, m) : \E i \in 1..Len(q) : g[i] = j
  BY DEF Backed
<1>5. \A i \in 1..Len(w) : k + i \in 1..Len(q)
  BY <1>1, <1>3
<1> DEFINE h == [i \in 1..Len(w) |-> g[k + i]]
<1>6. h \in [1..Len(w) -> 1..Len(s)] /\ \A i \in 1..Len(w) : w[i] = s[h[i]].at
  BY <1>3, <1>4, <1>5
<1>7. ASSUME NEW j \in Near(n, s, m) PROVE \E i \in 1..Len(w) : h[i] = j
  <2>1. PICK i \in 1..Len(q) : g[i] = j
    BY <1>4
  <2>2. m - s[j].at <= RateWindow /\ q[i] = s[j].at
    BY <1>4, <2>1 DEF Near
  <2>3. ~(q[i] < m - RateWindow)
    BY <1>1, <2>2
  <2>4. i - k \in 1..Len(w) /\ k + (i - k) = i
    BY <1>1, <1>2, <1>3, <2>3
  <2> QED
    BY <2>1, <2>4
<1> HIDE DEF h
<1>8. Backed(w, n, s, m)
  BY <1>6, <1>7 DEF Backed
<1> QED
  BY <1>8 DEF w

\* A report takes a slot of its node.
LEMMA BackedAppended ==
    ASSUME NEW m \in Nat, NEW q \in Seq(0..m), NEW n \in Reported, NEW s \in Reports(m),
           Backed(q, n, s, m)
    PROVE  Backed(Append(q, m), n, Append(s, [node |-> n, at |-> m]), m)
<1> DEFINE p == Append(q, m)
           r == Append(s, [node |-> n, at |-> m])
<1>1. /\ Len(q) \in Nat /\ Len(p) = Len(q) + 1 /\ p[Len(q) + 1] = m
      /\ \A i \in 1..Len(q) : p[i] = q[i]
  BY AppendProperties, LenProperties
<1>2. /\ Len(s) \in Nat /\ Len(r) = Len(s) + 1 /\ r[Len(s) + 1] = [node |-> n, at |-> m]
      /\ \A i \in 1..Len(s) : r[i] = s[i]
  <2>1. m \in 0..m /\ [node |-> n, at |-> m] \in [node : Reported, at : 0..m]
    OBVIOUS
  <2> QED
    BY <2>1, AppendProperties, LenProperties DEF Reports
<1> HIDE DEF p, r
<1>3. PICK g \in [1..Len(q) -> 1..Len(s)] :
          /\ \A i \in 1..Len(q) : q[i] = s[g[i]].at
          /\ \A j \in Near(n, s, m) : \E i \in 1..Len(q) : g[i] = j
  BY DEF Backed
<1> DEFINE h == [i \in 1..Len(p) |-> IF i = Len(q) + 1 THEN Len(s) + 1 ELSE g[i]]
<1>4. /\ \A i \in 1..Len(p) : i \in 1..Len(q) \/ i = Len(q) + 1
      /\ \A i \in 1..Len(q) : i \in 1..Len(p) /\ i # Len(q) + 1
      /\ Len(q) + 1 \in 1..Len(p)
  BY <1>1
<1>5. /\ \A i \in 1..Len(r) : i \in 1..Len(s) \/ i = Len(s) + 1
      /\ \A i \in 1..Len(s) : i \in 1..Len(r)
      /\ Len(s) + 1 \in 1..Len(r)
  BY <1>2
<1>6. /\ h[Len(q) + 1] = Len(s) + 1
      /\ \A i \in 1..Len(q) : h[i] = g[i] /\ g[i] \in 1..Len(s)
  BY <1>3, <1>4
<1>7. h \in [1..Len(p) -> 1..Len(r)]
  BY <1>3, <1>4, <1>5
<1> HIDE DEF h
<1>8. \A i \in 1..Len(p) : p[i] = r[h[i]].at
  <2> TAKE i \in 1..Len(p)
  <2>1. CASE i \in 1..Len(q)
    BY <1>1, <1>2, <1>3, <1>6, <2>1
  <2>2. CASE i = Len(q) + 1
    BY <1>1, <1>2, <1>6, <2>2
  <2> QED
    BY <1>4, <2>1, <2>2
<1>9. ASSUME NEW j \in Near(n, r, m) PROVE \E i \in 1..Len(p) : h[i] = j
  <2>1. j \in 1..Len(r) /\ r[j].node = n /\ m - r[j].at <= RateWindow
    BY DEF Near
  <2>2. CASE j = Len(s) + 1
    BY <1>4, <1>6, <2>2
  <2>3. CASE j \in 1..Len(s)
    <3>1. j \in Near(n, s, m)
      BY <1>2, <2>1, <2>3 DEF Near
    <3>2. PICK i \in 1..Len(q) : g[i] = j
      BY <1>3, <3>1
    <3> QED
      BY <1>4, <1>6, <3>2
  <2> QED
    BY <1>5, <2>1, <2>2, <2>3
<1>10. Backed(p, n, r, m)
  BY <1>7, <1>8, <1>9 DEF Backed
<1> QED
  BY <1>10 DEF p, r

\* It takes none of another's.
LEMMA BackedOther ==
    ASSUME NEW m \in Nat, NEW q \in Seq(0..m), NEW n \in Reported, NEW o \in Reported, o # n,
           NEW s \in Reports(m), Backed(q, n, s, m)
    PROVE  Backed(q, n, Append(s, [node |-> o, at |-> m]), m)
<1> DEFINE r == Append(s, [node |-> o, at |-> m])
<1>1. /\ Len(s) \in Nat /\ Len(r) = Len(s) + 1 /\ r[Len(s) + 1] = [node |-> o, at |-> m]
      /\ \A i \in 1..Len(s) : r[i] = s[i]
  <2>1. m \in 0..m /\ [node |-> o, at |-> m] \in [node : Reported, at : 0..m]
    OBVIOUS
  <2> QED
    BY <2>1, AppendProperties, LenProperties DEF Reports
<1> HIDE DEF r
<1>2. PICK g \in [1..Len(q) -> 1..Len(s)] :
          /\ \A i \in 1..Len(q) : q[i] = s[g[i]].at
          /\ \A j \in Near(n, s, m) : \E i \in 1..Len(q) : g[i] = j
  BY DEF Backed
<1>3. /\ \A i \in 1..Len(r) : i \in 1..Len(s) \/ i = Len(s) + 1
      /\ \A i \in 1..Len(s) : i \in 1..Len(r)
  BY <1>1
<1>4. Near(n, r, m) \subseteq Near(n, s, m)
  BY <1>1, <1>3 DEF Near
<1>5. g \in [1..Len(q) -> 1..Len(r)] /\ \A i \in 1..Len(q) : q[i] = r[g[i]].at
  BY <1>1, <1>2, <1>3
<1>6. Backed(q, n, r, m)
  BY <1>2, <1>4, <1>5 DEF Backed
<1> QED
  BY <1>6 DEF r

\* The reports are in the order of their times, and _rate holds a slot for every one that
\* is near.
Booked ==
    /\ \A i, j \in 1..Len(sent) : i <= j => sent[i].at <= sent[j].at
    /\ \A n \in Reported : Backed(rate[n], n, sent, now)

\* The reports about the same node that are near to report i and not before it.
Burst(i) ==
    {j \in i..Len(sent) : sent[j].node = sent[i].node /\ sent[j].at - sent[i].at <= RateWindow}

\* With an empty window nothing is reported.
LEMMA NothingBacked == ASSUME NEW n, NEW m PROVE Backed(<< >>, n, << >>, m)
<1>1. Len(<< >>) = 0 /\ 1..0 = {}
  BY EmptySeq
<1>2. [i \in 1..0 |-> 0] \in [1..0 -> 1..0]
  BY <1>1
<1> QED
  BY <1>1, <1>2 DEF Backed, Near

\* At first nothing has been reported.
LEMMA BookedInit == Init => Booked /\ RateRespected
<1> SUFFICES ASSUME Init PROVE Booked /\ RateRespected
  OBVIOUS
<1>1. sent = << >> /\ Len(<< >>) = 0 /\ DOMAIN sent = {} /\ \A n \in Reported : rate[n] = << >>
  BY EmptySeq DEF Init, Empty
<1>2. Booked
  BY <1>1, NothingBacked DEF Booked
<1>3. RateRespected
  BY <1>1 DEF RateRespected
<1> QED
  BY <1>2, <1>3

\* A step of the forwarder keeps the slots and the limit.
LEMMA BookedForward ==
    ASSUME TypeOK, Booked, RateRespected, Forward
    PROVE  Booked' /\ RateRespected'
<1> DEFINE e == Head(fwd)
           q == Recent(e.node)
           r == Append(sent, [node |-> e.node, at |-> now])
<1>1. /\ now \in Nat /\ RateWindow \in Nat /\ RateMax \in Nat
      /\ now - RateWindow \in Int /\ 0..now \subseteq Int /\ now' = now
  BY Numbers DEF TypeOK, Forward
<1>2. e.node \in Reported
  <2>1. fwd \in Seq(Event) /\ fwd # << >>
    BY DEF TypeOK, Forward
  <2>2. e \in Event
    BY <2>1, HeadTailProperties
  <2> QED
    BY <2>2 DEF Event
<1>3. sent \in Reports(now) /\ \A n \in Reported : rate[n] \in Seq(0..now)
  BY DEF TypeOK, Reports
<1>4. q \in Seq(0..now) /\ Len(q) \in Nat /\ Backed(q, e.node, sent, now)
  <2>1. q = Evict(rate[e.node], now - RateWindow)
    BY DEF Recent
  <2>2. Backed(rate[e.node], e.node, sent, now) /\ rate[e.node] \in Seq(0..now)
    BY <1>2, <1>3 DEF Booked
  <2> HIDE DEF q, e
  <2>3. q \in Seq(0..now)
    BY <1>1, <2>1, <2>2, EvictType
  <2> QED
    BY <1>1, <1>3, <2>1, <2>2, <2>3, BackedPruned, LenProperties
<1> HIDE DEF q
<1>5. CASE Len(q) >= RateMax
  <2>1. rate' = [rate EXCEPT ![e.node] = q] /\ sent' = sent
    BY <1>5 DEF Forward, q
  <2>2. \A n \in Reported : Backed(rate'[n], n, sent', now')
    BY <1>1, <1>2, <1>4, <2>1 DEF Booked, TypeOK
  <2> QED
    BY <2>1, <2>2 DEF Booked, RateRespected
<1>6. CASE Len(q) < RateMax
  <2>1. rate' = [rate EXCEPT ![e.node] = Append(q, now)] /\ sent' = r
    BY <1>1, <1>4, <1>6 DEF Forward, q
  <2>2. /\ Len(sent) \in Nat /\ Len(r) = Len(sent) + 1
        /\ r[Len(sent) + 1] = [node |-> e.node, at |-> now]
        /\ \A i \in 1..Len(sent) : r[i] = sent[i]
        /\ DOMAIN r = 1..Len(r) /\ DOMAIN sent = 1..Len(sent)
    <3>1. [node |-> e.node, at |-> now] \in [node : Reported, at : 0..now]
      BY <1>1, <1>2
    <3> QED
      BY <1>3, <3>1, AppendProperties, LenProperties DEF Reports
  <2>3. \A i \in 1..Len(sent) : sent[i] \in [node : Reported, at : 0..now]
    BY <1>3, ElementOfSeq DEF Reports
  <2>4. ASSUME NEW n \in Reported PROVE Backed(rate'[n], n, r, now)
    <3>1. CASE n = e.node
      <4>1. rate'[n] = Append(q, now)
        BY <2>1, <3>1 DEF TypeOK
      <4> QED
        BY <1>1, <1>2, <1>3, <1>4, <3>1, <4>1, BackedAppended
    <3>2. CASE n # e.node
      <4>1. rate'[n] = rate[n] /\ Backed(rate[n], n, sent, now)
        BY <2>1, <3>2 DEF TypeOK, Booked
      <4> HIDE DEF e, r
      <4> QED
        BY <1>1, <1>2, <1>3, <3>2, <4>1, BackedOther DEF r
    <3> QED
      BY <3>1, <3>2
  <2>5. ASSUME NEW i \in 1..Len(r), NEW j \in 1..Len(r), i <= j
        PROVE  r[i].at <= r[j].at
    <3>1. CASE j \in 1..Len(sent)
      <4>1. i \in 1..Len(sent)
        BY <2>2, <2>5, <3>1
      <4> QED
        BY <2>2, <2>5, <3>1, <4>1 DEF Booked
    <3>2. CASE j = Len(sent) + 1
      <4>1. r[j].at = now
        BY <2>2, <3>2
      <4>2. r[i].at \in 0..now
        <5>1. CASE i \in 1..Len(sent)
          BY <2>2, <2>3, <5>1
        <5>2. CASE i = Len(sent) + 1
          BY <1>1, <2>2, <5>2
        <5> QED
          BY <2>2, <5>1, <5>2
      <4> QED
        BY <1>1, <4>1, <4>2
    <3> QED
      BY <2>2, <3>1, <3>2
  <2>6. Booked'
    BY <1>1, <2>1, <2>4, <2>5 DEF Booked
  <2>7. IsFiniteSet(Near(e.node, sent, now)) /\ Cardinality(Near(e.node, sent, now)) <= Len(q)
    BY <1>1, <1>4, BackedBounds
  <2> DEFINE last == Len(sent) + 1
             all == Near(e.node, sent, now) \cup {last}
  <2>8. IsFiniteSet(all) /\ Cardinality(all) <= RateMax
    <3>1. /\ IsFiniteSet(all)
          /\ Cardinality(all) = IF last \in Near(e.node, sent, now)
                                THEN Cardinality(Near(e.node, sent, now))
                                ELSE Cardinality(Near(e.node, sent, now)) + 1
      BY <2>7, FS_AddElement
    <3>2. Cardinality(Near(e.node, sent, now)) \in Nat
      BY <2>7, FS_CardinalityType
    <3> HIDE DEF all
    <3> QED
      BY <1>1, <1>4, <1>6, <2>7, <3>1, <3>2
  <2>9. ASSUME NEW i \in 1..Len(r)
        PROVE  Cardinality({j \in i..Len(r) : /\ r[j].node = r[i].node
                                              /\ r[j].at - r[i].at <= RateWindow}) <= RateMax
    <3> DEFINE B == {j \in i..Len(r) : /\ r[j].node = r[i].node
                                       /\ r[j].at - r[i].at <= RateWindow}
    <3>1. \A j \in i..Len(r) : j \in 1..Len(sent) \/ j = last
      BY <2>2
    <3>2. CASE r[i].node = e.node /\ now - r[i].at <= RateWindow
      <4>1. ASSUME NEW j \in B PROVE j \in all
        <5>1. CASE j \in 1..Len(sent)
          <6>1. i \in 1..Len(sent) /\ i <= j
            BY <2>2, <5>1
          <6>2. r[i] = sent[i] /\ r[j] = sent[j] /\ sent[i].at <= sent[j].at
            BY <2>2, <5>1, <6>1 DEF Booked
          <6>3. sent[i].at \in Int /\ sent[j].at \in Int
            BY <2>3, <5>1, <6>1
          <6>4. now - sent[j].at <= RateWindow
            BY <1>1, <3>2, <6>2, <6>3
          <6>5. sent[j].node = e.node
            BY <3>2, <6>2
          <6> QED
            BY <5>1, <6>4, <6>5 DEF Near
        <5>2. CASE j = last
          BY <5>2
        <5> QED
          BY <3>1, <5>1, <5>2
      <4>2. B \in SUBSET all
        BY <4>1
      <4> HIDE DEF B, all
      <4>3. Cardinality(B) <= Cardinality(all) /\ IsFiniteSet(B)
        BY <2>8, <4>2, FS_Subset
      <4>4. Cardinality(B) <= RateMax
        BY <1>1, <2>8, <4>3, FS_CardinalityType
      <4> QED
        BY <4>4 DEF B
    <3>3. CASE ~(r[i].node = e.node /\ now - r[i].at <= RateWindow)
      <4>1. r[last].node = e.node /\ r[last].at = now
        BY <2>2
      <4>2. last \notin B
        BY <3>3, <4>1
      <4>3. i # last
        <5>1. now - now <= RateWindow
          BY <1>1
        <5> QED
          BY <3>3, <4>1, <5>1
      <4>4. i \in 1..Len(sent)
        BY <2>2, <4>3
      <4>5. B = Burst(i)
        <5>1. \A j \in i..Len(sent) : j \in 1..Len(sent) /\ j \in i..Len(r) /\ j # last
          BY <2>2, <4>4
        <5>2. \A j \in i..Len(r) : j # last => j \in i..Len(sent)
          BY <2>2, <4>4
        <5>3. r[i] = sent[i] /\ \A j \in i..Len(sent) : r[j] = sent[j]
          BY <2>2, <4>4, <5>1
        <5> HIDE DEF r, last
        <5> QED
          BY <4>2, <5>1, <5>2, <5>3 DEF Burst
      <4>6. Cardinality(Burst(i)) <= RateMax
        BY <2>2, <4>4 DEF RateRespected, Burst
      <4> QED
        BY <4>5, <4>6
    <3> QED
      BY <3>2, <3>3
  <2>10. RateRespected'
    BY <2>1, <2>2, <2>9 DEF RateRespected
  <2> QED
    BY <2>6, <2>10
<1> QED
  BY <1>1, <1>4, <1>5, <1>6

\* Every step keeps the slots and the limit.
LEMMA BookedNext == TypeOK /\ Booked /\ RateRespected /\ [Next]_vars => Booked' /\ RateRespected'
<1> SUFFICES ASSUME TypeOK, Booked, RateRespected, [Next]_vars PROVE Booked' /\ RateRespected'
  OBVIOUS
<1> USE DEF collector, correlator, policy, forwarder
<1>1. CASE Tick
  <2>1. rate' = rate /\ sent' = sent /\ now' = now + 1 /\ now \in Nat
    BY <1>1, Numbers DEF Tick, TypeOK
  <2>2. \A i \in 1..Len(sent) : sent[i].at \in Int
    <3>1. sent \in Seq([node : Reported, at : 0..now])
      BY DEF TypeOK
    <3>2. \A i \in 1..Len(sent) : sent[i] \in [node : Reported, at : 0..now]
      BY <3>1, ElementOfSeq
    <3> QED
      BY <3>2
  <2>3. \A n \in Reported : Near(n, sent, now') \subseteq Near(n, sent, now)
    BY <2>1, <2>2, Numbers DEF Near
  <2>4. \A n \in Reported : Backed(rate[n], n, sent, now')
    BY <2>3 DEF Booked, Backed
  <2> QED
    BY <2>1, <2>4 DEF Booked, RateRespected
<1>2. CASE Exit
  <2>1. sent' = << >> /\ Len(<< >>) = 0 /\ DOMAIN sent' = {}
        /\ \A n \in Reported : rate'[n] = << >>
    BY <1>2, EmptySeq DEF Exit, Boot, Empty
  <2> QED
    BY <2>1, NothingBacked DEF Booked, RateRespected
<1>3. CASE Forward
  BY <1>3, BookedForward
<1>4. CASE UNCHANGED <<now, rate, sent>>
  BY <1>4 DEF Booked, RateRespected
<1>5. UNCHANGED <<now, rate, sent>> \/ Tick \/ Exit \/ Forward
  BY DEF Next, vars, Operate, CollectDocker, StreamBreaks, Reconnect, ReadLine, Correlate,
         CorrelateDocker, CorrelateAlert, PolicyStep, Decide, Enforce, PassOn, EnforceError,
         Restart
<1> QED
  BY <1>1, <1>2, <1>3, <1>4, <1>5

\* However bursts and evictions fall, in no closed interval of _RATE_WINDOW does the
\* forwarder send more than _RATE_MAX reports about a node (event_forwarder.py, _rate_ok).
THEOREM RateIsRespected == Spec => []RateRespected
<1>1. TypeOK /\ Booked /\ RateRespected /\ [Next]_vars => Booked' /\ RateRespected'
  BY BookedNext
<1> QED
  BY <1>1, BookedInit, MonitorTypeCorrect, PTL DEF Spec

=============================================================================
