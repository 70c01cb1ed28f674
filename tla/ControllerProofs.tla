--------------------------- MODULE ControllerProofs ---------------------------
(***************************************************************************)
(* Proofs about Controller for every set of names and messages and every   *)
(* value of the limits.                                                    *)
(***************************************************************************)
EXTENDS Controller, GateEmissionsProofs, FiniteSetTheorems

------------------------------------------------------------------------------
(* Lemmas about the operators.                                               *)

\* Popping entries leaves a sequence of the same kind of entries (ReplayGuard, FloodGuard).
LEMMA PopOldType ==
    ASSUME NEW S, NEW s \in Seq(S), NEW old \in SUBSET DOMAIN s
    PROVE  PopOld(s, old) \in Seq(S)
<1>1. IsFiniteSet(1 .. Len(s)) /\ DOMAIN s = 1 .. Len(s) /\ Len(s) \in Nat
  BY FS_Interval, LenProperties
<1>2. IsFiniteSet(old)
  BY <1>1, FS_Subset
<1>3. Cardinality(old) \in Nat
  BY <1>2, FS_CardinalityType
<1>4. \A i \in Cardinality(old) + 1 .. Len(s) : s[i] \in S
  BY <1>1, <1>3, ElementOfSeq
<1>5. Cardinality(old) + 1 \in Int /\ Len(s) \in Int
  BY <1>1, <1>3
<1>6. SubSeq(s, Cardinality(old) + 1, Len(s)) \in Seq(S)
  BY <1>4, <1>5, SubSeqProperties
<1> QED
  BY <1>6 DEF PopOld

\* What the guards keep of a node, once old entries are popped and the new one is added.
LEMMA GuardTypes ==
    ASSUME TypeOK, NEW m \in Messages
    PROVE  /\ LiveEntries(m.node) \in Seq(Entries)
           /\ Recorded(m) \in Seq(Entries)
           /\ Arrivals(m.node) \in Seq(Nat)
           /\ m.node \in Nodes /\ m.seq \in Nat /\ m.mid \in MachineIds \cup {NoMid}
<1>1. /\ m.node \in Nodes /\ m.seq \in Nat /\ m.mid \in MachineIds \cup {NoMid}
      /\ m.id \in MsgIds
  BY ConstantsAssumption DEF MessageType
<1> DEFINE n == m.node
<1>2. seen[n] \in Seq(Entries) /\ times[n] \in Seq(Nat) /\ now \in Nat
  BY <1>1 DEF TypeOK
<1>3. LiveEntries(n) \in Seq(Entries)
  <2> DEFINE old == {i \in DOMAIN seen[n] : seen[n][i].at < now - MaxAge}
  <2>1. PopOld(seen[n], old) \in Seq(Entries)
    BY <1>2, PopOldType
  <2> QED
    BY <2>1 DEF LiveEntries
<1>4. [at |-> now, id |-> m.id] \in Entries
  BY <1>1, <1>2 DEF Entries
<1>5. Recorded(m) \in Seq(Entries)
  <2> DEFINE live == LiveEntries(n)
             kept == IF Len(live) >= ReplayWindow THEN Tail(live) ELSE live
  <2>1. kept \in Seq(Entries)
    <3>1. CASE live = << >>
      <4>1. Len(live) = 0 /\ ReplayWindow > 0
        BY <3>1, ConstantsAssumption
      <4> QED
        BY <4>1, <1>3, ConstantsAssumption
    <3>2. CASE live # << >>
      BY <1>3, <3>2, HeadTailProperties
    <3> QED
      BY <3>1, <3>2
  <2>2. Append(kept, [at |-> now, id |-> m.id]) \in Seq(Entries)
    BY <2>1, <1>4, AppendProperties
  <2> QED
    BY <2>2 DEF Recorded
<1>6. Arrivals(n) \in Seq(Nat)
  <2> DEFINE old == {i \in DOMAIN times[n] : times[n][i] < now - FloodWindow}
  <2>1. PopOld(times[n], old) \in Seq(Nat)
    BY <1>2, PopOldType
  <2>2. Append(PopOld(times[n], old), now) \in Seq(Nat)
    BY <2>1, <1>2, AppendProperties
  <2> QED
    BY <2>2 DEF Arrivals
<1> QED
  BY <1>1, <1>3, <1>5, <1>6

\* The remarks of CHECKS 4 and 5 are among those the plans are defined for.
LEMMA RemarksType ==
    ASSUME NEW m
    PROVE  RemarksOn(m) \in Remarks
BY DEF RemarksOn, Remarks

------------------------------------------------------------------------------
(* Type correctness.                                                         *)

\* A fresh controller is well typed.
LEMMA TypeInit == Init => TypeOK
<1> SUFFICES ASSUME Init PROVE TypeOK
  OBVIOUS
<1>1. cur \in [msg : Messages, at : Nat]
  BY ConstantsAssumption DEF Init
<1>2. << >> \in Seq(Entries) /\ << >> \in Seq(Nat) /\ << >> \in Seq(Emissions)
        /\ << >> \in Seq(Events)
  BY EmptySeq
<1> QED
  BY <1>1, <1>2 DEF Init, TypeOK, NoEntries, NoSeqs, NoAlerts, NoMids

\* Every step of the controller keeps every variable in its type.
LEMMA TypeNext == TypeOK /\ [Next]_vars => TypeOK'
<1> SUFFICES ASSUME TypeOK, [Next]_vars PROVE TypeOK'
  OBVIOUS
<1> USE DEF TypeOK, disk, guards
<1>1. ASSUME NEW m \in Messages, DropBlacklisted(m) PROVE TypeOK'
  BY <1>1 DEF DropBlacklisted, Take
<1>2. ASSUME NEW m \in Messages, NEW kind \in Rejections, Reject(m, kind)
      PROVE  /\ todo' \in Seq(Emissions) /\ offset' \in Nat /\ rx' \in Nat
             /\ cur' \in [msg : Messages, at : Nat]
  BY <1>2, RejectPlanFacts DEF Reject, Take
<1>3. ASSUME NEW m \in Messages, Tampered(m) PROVE TypeOK'
  <2>1. Reject(m, "TELEMETRY_TAMPER") /\ "TELEMETRY_TAMPER" \in Rejections
    BY <1>3 DEF Tampered, Rejections
  <2> QED
    BY <1>2, <1>3, <2>1 DEF Tampered, Reject, Take
<1>4. ASSUME NEW m \in Messages, Rogue(m) PROVE TypeOK'
  <2>1. Reject(m, "ROGUE_NODE") /\ "ROGUE_NODE" \in Rejections
    BY <1>4 DEF Rogue, Rejections
  <2>2. m.node \in Nodes
    BY GuardTypes
  <2> QED
    BY <1>2, <1>4, <2>1, <2>2 DEF Rogue, Reject, Take
<1>5. ASSUME NEW m \in Messages, Replayed(m) PROVE TypeOK'
  <2>1. Reject(m, "REPLAY_ATTACK") /\ "REPLAY_ATTACK" \in Rejections
    BY <1>5 DEF Replayed, Rejections
  <2>2. seen' \in [Nodes -> Seq(Entries)]
    <3>1. seen' = seen \/ seen' = [seen EXCEPT ![m.node] = LiveEntries(m.node)]
      BY <1>5 DEF Replayed
    <3>2. m.node \in Nodes /\ LiveEntries(m.node) \in Seq(Entries)
      BY GuardTypes
    <3> QED
      BY <3>1, <3>2
  <2> QED
    BY <1>2, <1>5, <2>1, <2>2 DEF Replayed, Reject, Take
<1>6. ASSUME NEW m \in Messages, Accept(m) PROVE TypeOK'
  <2>1. /\ offset' = ForwardOffset(RemarksOn(m), offset + 1)
        /\ todo' = AcceptPlan(RemarksOn(m), offset + 1)
    BY <1>6 DEF Accept
  <2> offset + 1 \in Nat /\ RemarksOn(m) \in Remarks
    BY RemarksType DEF TypeOK
  <2>2. offset' \in Nat /\ todo' \in Seq(Emissions)
    BY <2>1, AcceptPlanNumbers
  <2>3. /\ seen' \in [Nodes -> Seq(Entries)] /\ times' \in [Nodes -> Seq(Nat)]
        /\ lastSeq' \in [Nodes -> Nat \cup {NoSeq}]
    BY <1>6, GuardTypes DEF Accept
  <2>4. /\ floodAlerted' \in [Nodes -> Nat \cup {Never}]
        /\ mids' \in [Nodes -> MachineIds \cup {NoMid}]
    BY <1>6, GuardTypes DEF Accept
  <2>5. Take(m) /\ UNCHANGED <<blacklist, blkDue>>
    BY <1>6 DEF Accept
  <2> QED
    BY <2>2, <2>3, <2>4, <2>5 DEF Take
<1>7. CASE SaveBlacklist
  BY <1>7 DEF SaveBlacklist
<1>8. CASE SaveOffset
  <2>1. Head(todo) \in Emissions
    BY <1>8, HeadTailProperties DEF SaveOffset
  <2> QED
    BY <1>8, <2>1 DEF SaveOffset, Emissions
<1>9. CASE Send
  <2>1. todo # << >>
    BY <1>9 DEF Send, SendReady
  <2>2. Head(todo) \in Emissions /\ Tail(todo) \in Seq(Emissions)
    BY <2>1, HeadTailProperties
  <2>3. [kind |-> Head(todo).kind, off |-> Head(todo).off, msg |-> cur.msg,
         at |-> cur.at, boot |-> boot, rx |-> rx] \in Events
    BY <2>2 DEF Emissions, Events
  <2>4. sent' \in Seq(Events)
    BY <1>9, <2>3, AppendProperties DEF Send
  <2> QED
    BY <1>9, <2>2, <2>4 DEF Send
<1>10. CASE Restart
  <2>1. << >> \in Seq(Entries) /\ << >> \in Seq(Nat) /\ << >> \in Seq(Emissions)
    BY EmptySeq
  <2>2. /\ NoEntries \in [Nodes -> Seq(Entries)] /\ NoEntries \in [Nodes -> Seq(Nat)]
        /\ NoSeqs \in [Nodes -> Nat \cup {NoSeq}]
        /\ NoAlerts \in [Nodes -> Nat \cup {Never}]
        /\ NoMids \in [Nodes -> MachineIds \cup {NoMid}]
    BY <2>1 DEF NoEntries, NoSeqs, NoAlerts, NoMids
  <2>3. /\ offset' = savedOffset /\ blacklist' = savedBlacklist /\ boot' = boot + 1
        /\ seen' = NoEntries /\ lastSeq' = NoSeqs /\ times' = NoEntries
        /\ floodAlerted' = NoAlerts /\ mids' = NoMids
        /\ todo' = << >> /\ saved' = FALSE /\ blkDue' = FALSE
    BY <1>10 DEF Restart, LoadOffset, LoadBlacklist
  <2>4. UNCHANGED <<now, savedOffset, savedBlacklist, cur, sent, rx>>
    BY <1>10 DEF Restart
  <2>5. /\ seen' \in [Nodes -> Seq(Entries)] /\ times' \in [Nodes -> Seq(Nat)]
        /\ lastSeq' \in [Nodes -> Nat \cup {NoSeq}]
        /\ floodAlerted' \in [Nodes -> Nat \cup {Never}]
        /\ mids' \in [Nodes -> MachineIds \cup {NoMid}]
    BY <2>2, <2>3, Zenon
  <2>6. offset' \in Nat /\ blacklist' \subseteq Nodes /\ boot' \in Nat
    BY <2>3
  <2>7. saved' \in BOOLEAN /\ blkDue' \in BOOLEAN
    BY <2>3
  <2>8. todo' \in Seq(Emissions)
    BY <2>1, <2>3
  <2> QED
    BY <2>4, <2>5, <2>6, <2>7, <2>8
<1>11. CASE Tick
  BY <1>11 DEF Tick
<1>12. CASE UNCHANGED vars
  BY <1>12 DEF vars
<1> QED
  BY <1>1, <1>3, <1>4, <1>5, <1>6, <1>7, <1>8, <1>9, <1>10, <1>11, <1>12
     DEF Next, Receive

\* Every variable keeps its type, whatever messages are received (Controller, main).
THEOREM TypeCorrect == Spec => []TypeOK
BY TypeInit, TypeNext, PTL DEF Spec

------------------------------------------------------------------------------
(* The inductive invariants.                                                 *)

\* Numbers already given out stay at or below the file, pending ones at or above it.
Numbered ==
    /\ savedOffset <= offset
    /\ \A i \in DOMAIN sent : sent[i].off <= savedOffset /\ sent[i].rx <= rx
    /\ \A k \in DOMAIN todo : /\ todo[k].off <= todo[k].save
                              /\ savedOffset <= todo[k].save /\ todo[k].save <= offset
    /\ \A k, l \in DOMAIN todo :
           k < l => todo[k].off <= todo[l].off /\ todo[k].save <= todo[l].save
    /\ saved => todo # << >> /\ savedOffset = todo[1].save
    /\ \A i \in DOMAIN sent, k \in DOMAIN todo :
           \/ sent[i].off < todo[k].off
           \/ sent[i].off = todo[k].off /\ sent[i].rx = rx

\* A rogue alert pending or sent is about a blacklisted name; the file lags behind memory
\* only between the verdict and save_blacklist, when nothing can be sent.
Blacklisted ==
    /\ savedBlacklist \subseteq blacklist
    /\ ~blkDue => savedBlacklist = blacklist
    /\ blkDue => ~saved
    /\ saved => todo # << >>
    /\ blkDue => todo # << >>
    /\ \A k \in DOMAIN todo : todo[k].kind = "ROGUE_NODE" =>
           /\ k = Len(todo) /\ cur.msg.node \in blacklist
           /\ \A i \in DOMAIN sent :
                  sent[i].kind = "ROGUE_NODE" => sent[i].msg.node # cur.msg.node
    /\ \A i \in DOMAIN sent :
           sent[i].kind = "ROGUE_NODE" => sent[i].msg.node \in savedBlacklist

\* i was forwarded in this life of the process, on behalf of a tenant.
TenantNow(i) ==
    sent[i].kind = "TELEMETRY" /\ sent[i].boot = boot /\ sent[i].msg.node \notin Exempt

\* _last_seq bounds what was forwarded; the pending message is above all of it.
Sequenced ==
    /\ \A i \in DOMAIN sent : sent[i].boot <= boot
    /\ \A i \in DOMAIN sent : TenantNow(i) => sent[i].msg.seq <= lastSeq[sent[i].msg.node]
    /\ \A k \in DOMAIN todo : todo[k].kind = "TELEMETRY" =>
           /\ k = Len(todo) /\ cur.msg.seq = lastSeq[cur.msg.node]
           /\ \A i \in DOMAIN sent :
                  TenantNow(i) /\ sent[i].msg.node = cur.msg.node
                      => sent[i].msg.seq < cur.msg.seq

------------------------------------------------------------------------------
(* Offsets.                                                                  *)

\* Sending or dropping the head of the emissions shifts them by one.
LEMMA TailOfTodo ==
    ASSUME TypeOK, todo # << >>
    PROVE  /\ Head(todo) = todo[1] /\ 1 \in DOMAIN todo
           /\ DOMAIN todo = 1 .. Len(todo) /\ Len(todo) \in Nat \ {0}
           /\ Tail(todo) \in Seq(Emissions) /\ Len(Tail(todo)) = Len(todo) - 1
           /\ DOMAIN Tail(todo) = 1 .. Len(todo) - 1
           /\ \A k \in 1 .. Len(todo) - 1 : Tail(todo)[k] = todo[k + 1]
<1>1. todo \in Seq(Emissions)
  BY DEF TypeOK
<1>2. Len(todo) \in Nat \ {0} /\ DOMAIN todo = 1 .. Len(todo)
  BY <1>1, EmptySeq, LenProperties
<1>3. /\ Tail(todo) \in Seq(Emissions) /\ Len(Tail(todo)) = Len(todo) - 1
      /\ \A k \in 1 .. Len(Tail(todo)) : Tail(todo)[k] = todo[k + 1]
  BY <1>1, HeadTailProperties
<1>4. DOMAIN Tail(todo) = 1 .. Len(Tail(todo))
  BY <1>3, LenProperties
<1>5. Head(todo) = todo[1]
  BY <1>1
<1> QED
  BY <1>2, <1>3, <1>4, <1>5

\* What Send appends.
LEMMA SentGrows ==
    ASSUME TypeOK, Send
    PROVE  LET new == [kind |-> todo[1].kind, off |-> todo[1].off, msg |-> cur.msg,
                       at |-> cur.at, boot |-> boot, rx |-> rx]
           IN  /\ DOMAIN sent = 1 .. Len(sent) /\ Len(sent) \in Nat
               /\ DOMAIN sent' = 1 .. Len(sent) + 1
               /\ \A i \in DOMAIN sent : sent'[i] = sent[i]
               /\ sent'[Len(sent) + 1] = new
<1> DEFINE new == [kind |-> todo[1].kind, off |-> todo[1].off, msg |-> cur.msg,
                   at |-> cur.at, boot |-> boot, rx |-> rx]
<1>1. todo # << >>
  BY DEF Send, SendReady
<1>2. Head(todo) = todo[1] /\ todo[1] \in Emissions
  BY <1>1, TailOfTodo, ElementOfSeq DEF TypeOK
<1>3. new \in Events /\ sent \in Seq(Events)
  BY <1>2 DEF TypeOK, Events, Emissions
<1>4. sent' = Append(sent, new)
  BY <1>2 DEF Send
<1>5. /\ sent' \in Seq(Events) /\ Len(sent') = Len(sent) + 1
      /\ \A i \in 1 .. Len(sent) : sent'[i] = sent[i]
      /\ sent'[Len(sent) + 1] = new
  BY <1>3, <1>4, AppendProperties
<1> QED
  BY <1>3, <1>5, LenProperties

\* Only Send hands events to the socket.
LEMMA OnlySendSends == [Next]_vars => sent' = sent \/ Send
<1>1. ASSUME NEW m \in Messages, Receive(m) PROVE sent' = sent
  BY <1>1 DEF Receive, DropBlacklisted, Tampered, Rogue, Replayed, Accept, Reject, Take
<1> QED
  BY <1>1 DEF Next, SaveBlacklist, SaveOffset, Restart, Tick, vars

\* The types of what is pending and of what was sent.
LEMMA ElementTypes ==
    ASSUME TypeOK
    PROVE  /\ \A k \in DOMAIN todo : todo[k].off \in Nat /\ todo[k].save \in Nat
           /\ \A i \in DOMAIN sent :
                  /\ sent[i].off \in Nat /\ sent[i].rx \in Nat /\ sent[i].boot \in Nat
                  /\ sent[i].at \in Nat /\ sent[i].msg \in Messages
<1>1. todo \in Seq(Emissions) /\ sent \in Seq(Events)
  BY DEF TypeOK
<1>2. todo \in [1 .. Len(todo) -> Emissions] /\ sent \in [1 .. Len(sent) -> Events]
  BY <1>1, LenProperties
<1> QED
  BY <1>2 DEF Emissions, Events

\* Nothing is numbered at first.
LEMMA NumberedInit == Init => Numbered
BY DEF Init, Numbered

\* A new message is numbered above everything saved or sent before it.
LEMMA PlanNumbered ==
    ASSUME TypeOK, Numbered, NEW m, Take(m),
           offset' \in Nat, offset <= offset', todo' \in Seq(Emissions),
           \A k \in 1 .. Len(todo') :
               /\ offset + 1 <= todo'[k].off /\ todo'[k].off <= todo'[k].save
               /\ todo'[k].save <= offset',
           \A k, l \in 1 .. Len(todo') : k < l =>
               todo'[k].off <= todo'[l].off /\ todo'[k].save <= todo'[l].save
    PROVE  Numbered'
<1>1. /\ savedOffset' = savedOffset /\ sent' = sent /\ saved' = saved /\ rx' = rx + 1
      /\ todo = << >>
  BY DEF Take, disk
<1>2. DOMAIN todo' = 1 .. Len(todo') /\ todo' \in [1 .. Len(todo') -> Emissions]
  BY LenProperties
<1>3. sent \in [DOMAIN sent -> Events] /\ offset \in Nat /\ savedOffset \in Nat /\ rx \in Nat
  BY LenProperties DEF TypeOK
<1>4. saved = FALSE
  BY <1>1 DEF Numbered, TypeOK
<1>5. \A k \in DOMAIN todo' : todo'[k].off \in Nat /\ todo'[k].save \in Nat
  BY <1>2 DEF Emissions
<1>6. \A i \in DOMAIN sent : sent[i].off \in Nat /\ sent[i].rx \in Nat
  BY <1>3 DEF Events
<1>7. savedOffset' <= offset'
  BY <1>1, <1>3 DEF Numbered
<1>8. \A i \in DOMAIN sent' : sent'[i].off <= savedOffset' /\ sent'[i].rx <= rx'
  BY <1>1, <1>3, <1>6 DEF Numbered
<1>9. \A k \in DOMAIN todo' : /\ todo'[k].off <= todo'[k].save
                              /\ savedOffset' <= todo'[k].save /\ todo'[k].save <= offset'
  BY <1>1, <1>2, <1>3, <1>5 DEF Numbered
<1>10. \A i \in DOMAIN sent', k \in DOMAIN todo' : sent'[i].off < todo'[k].off
  BY <1>1, <1>2, <1>3, <1>5, <1>6 DEF Numbered
<1> QED
  BY <1>1, <1>2, <1>4, <1>7, <1>8, <1>9, <1>10 DEF Numbered

\* Every step keeps the numbers in order: sent, then saved, then pending, then the next.
LEMMA NumberedNext == TypeOK /\ Numbered /\ [Next]_vars => Numbered'
<1> SUFFICES ASSUME TypeOK, Numbered, [Next]_vars PROVE Numbered'
  OBVIOUS
<1> USE DEF disk, guards
<1>1. ASSUME NEW m \in Messages, DropBlacklisted(m) PROVE Numbered'
  <2>1. /\ todo = << >> /\ UNCHANGED <<savedOffset, offset, todo, sent, saved>>
        /\ rx' = rx + 1
    BY <1>1 DEF DropBlacklisted, Take
  <2>2. \A i \in DOMAIN sent : sent[i].rx \in Nat /\ sent[i].rx <= rx /\ rx \in Nat
    BY ElementTypes DEF TypeOK, Numbered
  <2> QED
    BY <2>1, <2>2 DEF Numbered
<1>2. ASSUME NEW m \in Messages, NEW kind \in Rejections, Reject(m, kind) PROVE Numbered'
  <2>1. offset \in Nat /\ offset' = offset + 1 /\ Take(m)
    BY <1>2 DEF Reject, TypeOK
  <2>2. /\ todo' \in Seq(Emissions) /\ Len(todo') = 1
        /\ todo'[1] = Emission(kind, offset + 1, offset + 1)
    BY <1>2, <2>1, RejectPlanFacts DEF Reject
  <2>3. \A k \in 1 .. Len(todo') : /\ k = 1 /\ todo'[k].off = offset + 1
                                   /\ todo'[k].save = offset + 1
    BY <2>2 DEF Emission
  <2> QED
    BY <2>1, <2>2, <2>3, PlanNumbered
<1>3. ASSUME NEW m \in Messages, Accept(m) PROVE Numbered'
  <2>1. /\ offset + 1 \in Nat /\ Take(m) /\ RemarksOn(m) \in Remarks
        /\ offset' = ForwardOffset(RemarksOn(m), offset + 1)
        /\ todo' = AcceptPlan(RemarksOn(m), offset + 1)
    BY <1>3, RemarksType DEF Accept, TypeOK
  <2>2. /\ offset' \in Nat /\ offset + 1 <= offset' /\ todo' \in Seq(Emissions)
        /\ \A k \in 1 .. Len(todo') :
               /\ offset + 1 <= todo'[k].off /\ todo'[k].off <= todo'[k].save
               /\ todo'[k].save <= offset'
        /\ \A k, l \in 1 .. Len(todo') : k < l =>
               todo'[k].off <= todo'[l].off /\ todo'[k].save <= todo'[l].save
    <3>1. /\ offset' \in Nat /\ offset + 1 <= offset' /\ todo' \in Seq(Emissions)
          /\ \A k \in 1 .. Len(todo') :
                 /\ offset + 1 <= todo'[k].off /\ todo'[k].off <= todo'[k].save
                 /\ todo'[k].save <= offset'
          /\ \A k, l \in 1 .. Len(todo') : k < l =>
                 /\ todo'[k].save <= todo'[l].save
                 /\ todo'[k].off < todo'[l].off
                        \/ (todo'[k].off = todo'[l].off /\ todo'[k].kind = "FLOOD_ATTACK")
      <4>1. PICK o \in Nat, remarks \in Remarks : o = offset + 1 /\ remarks = RemarksOn(m)
        BY <2>1
      <4>2. LET p == AcceptPlan(remarks, o)
                f == ForwardOffset(remarks, o)
            IN  /\ f \in Nat /\ o <= f /\ p \in Seq(Emissions)
                /\ \A k \in 1..Len(p) : /\ o <= p[k].off /\ p[k].off <= p[k].save
                                        /\ p[k].save <= f
                /\ \A k, l \in 1..Len(p) : k < l =>
                       /\ p[k].save <= p[l].save
                       /\ p[k].off < p[l].off
                              \/ (p[k].off = p[l].off /\ p[k].kind = "FLOOD_ATTACK")
        BY AcceptPlanNumbers
      <4> QED
        BY <2>1, <4>1, <4>2
    <3>2. \A k \in 1 .. Len(todo') : todo'[k] \in Emissions
      BY <3>1, ElementOfSeq
    <3>3. \A k \in 1 .. Len(todo') : todo'[k].off \in Nat
      BY <3>2 DEF Emissions
    <3> QED
      BY <3>1, <3>3
  <2>3. offset <= offset'
    BY <2>2 DEF TypeOK
  <2> QED
    BY <2>1, <2>2, <2>3, PlanNumbered
<1>4. ASSUME NEW m \in Messages, Receive(m) PROVE Numbered'
  <2>1. Tampered(m) => Reject(m, "TELEMETRY_TAMPER")
    BY DEF Tampered
  <2>2. Rogue(m) => Reject(m, "ROGUE_NODE")
    BY DEF Rogue
  <2>3. Replayed(m) => Reject(m, "REPLAY_ATTACK")
    BY DEF Replayed
  <2> QED
    BY <1>1, <1>2, <1>3, <1>4, <2>1, <2>2, <2>3 DEF Receive, Rejections
<1>5. CASE SaveBlacklist
  BY <1>5 DEF SaveBlacklist, Numbered
<1>6. CASE SaveOffset
  <2>1. /\ todo # << >> /\ ~saved /\ savedOffset' = todo[1].save /\ saved' = TRUE
        /\ UNCHANGED <<offset, todo, sent, rx>>
    BY <1>6, TailOfTodo DEF SaveOffset
  <2>2. 1 \in DOMAIN todo /\ \A k \in DOMAIN todo : k = 1 \/ 1 < k
    BY <2>1, TailOfTodo
  <2>3. savedOffset <= savedOffset' /\ savedOffset' <= offset
    BY <2>1, <2>2 DEF Numbered
  <2>4. \A k \in DOMAIN todo : todo[k].off \in Nat /\ todo[k].save \in Nat
    BY ElementTypes
  <2>5. \A i \in DOMAIN sent : sent[i].off \in Nat
    BY ElementTypes
  <2>6. \A k \in DOMAIN todo : savedOffset' <= todo[k].save
    BY <2>1, <2>2, <2>4 DEF Numbered
  <2>7. \A i \in DOMAIN sent : sent[i].off <= savedOffset'
    BY <2>1, <2>2, <2>3, <2>4, <2>5 DEF Numbered, TypeOK
  <2> QED
    BY <2>1, <2>3, <2>6, <2>7 DEF Numbered
<1>7. CASE Send
  <2>1. /\ todo # << >> /\ saved /\ todo' = Tail(todo) /\ saved' = FALSE
        /\ UNCHANGED <<savedOffset, offset, rx>>
    BY <1>7 DEF Send, SendReady
  <2>2. /\ 1 \in DOMAIN todo /\ DOMAIN todo' = 1 .. Len(todo) - 1
        /\ \A k \in DOMAIN todo' : /\ todo'[k] = todo[k + 1] /\ k + 1 \in DOMAIN todo
                                   /\ 1 < k + 1
        /\ \A k, l \in DOMAIN todo' : k < l => k + 1 < l + 1
    BY <2>1, TailOfTodo
  <2>3. \A k \in DOMAIN todo : todo[k].off \in Nat /\ todo[k].save \in Nat
    BY ElementTypes
  <2>4. /\ DOMAIN sent' = DOMAIN sent \cup {Len(sent) + 1}
        /\ \A i \in DOMAIN sent : sent'[i] = sent[i]
        /\ sent'[Len(sent) + 1].off = todo[1].off /\ sent'[Len(sent) + 1].rx = rx
    BY <1>7, SentGrows
  <2>5. todo[1].off <= savedOffset /\ rx \in Nat
    BY <2>1, <2>2 DEF Numbered, TypeOK
  <2>6. \A i \in DOMAIN sent' : sent'[i].off <= savedOffset' /\ sent'[i].rx <= rx'
    BY <2>1, <2>4, <2>5 DEF Numbered
  <2>7. \A k \in DOMAIN todo' : /\ todo'[k].off <= todo'[k].save
                                /\ savedOffset' <= todo'[k].save /\ todo'[k].save <= offset'
    BY <2>1, <2>2 DEF Numbered
  <2>8. \A k, l \in DOMAIN todo' :
            k < l => todo'[k].off <= todo'[l].off /\ todo'[k].save <= todo'[l].save
    BY <2>2 DEF Numbered
  <2>9. ASSUME NEW i \in DOMAIN sent', NEW k \in DOMAIN todo'
        PROVE  \/ sent'[i].off < todo'[k].off
               \/ sent'[i].off = todo'[k].off /\ sent'[i].rx = rx'
    <3>1. CASE i = Len(sent) + 1
      <4>1. todo[1].off <= todo[k + 1].off
        BY <2>2 DEF Numbered
      <4> QED
        BY <3>1, <4>1, <2>1, <2>2, <2>3, <2>4
    <3>2. CASE i \in DOMAIN sent
      BY <3>2, <2>1, <2>2, <2>4 DEF Numbered
    <3> QED
      BY <3>1, <3>2, <2>4
  <2> QED
    BY <2>1, <2>6, <2>7, <2>8, <2>9 DEF Numbered
<1>8. CASE Restart
  <2>1. /\ offset' = savedOffset /\ todo' = << >> /\ saved' = FALSE
        /\ UNCHANGED <<savedOffset, sent, rx>>
    BY <1>8 DEF Restart, LoadOffset
  <2> QED
    BY <2>1 DEF Numbered, TypeOK
<1>9. CASE Tick
  BY <1>9 DEF Tick, Numbered
<1>10. CASE UNCHANGED vars
  BY <1>10 DEF vars, Numbered
<1> QED
  BY <1>4, <1>5, <1>6, <1>7, <1>8, <1>9, <1>10 DEF Next

\* OffsetsNeverReused, of two events about different messages: the earlier one's number is
\* below the later one's when the later is sent, since it was at or below the saved number.
LEMMA OffsetsNext ==
    TypeOK /\ Numbered /\ OffsetsNeverReused /\ [Next]_vars => OffsetsNeverReused'
<1> SUFFICES ASSUME TypeOK, Numbered, OffsetsNeverReused, [Next]_vars
             PROVE  OffsetsNeverReused'
  OBVIOUS
<1>1. CASE sent' = sent
  BY <1>1 DEF OffsetsNeverReused
<1>2. CASE Send
  <2> SUFFICES ASSUME NEW i \in DOMAIN sent', NEW j \in DOMAIN sent', i < j
               PROVE  \/ sent'[i].off < sent'[j].off
                      \/ sent'[i].off = sent'[j].off /\ sent'[i].rx = sent'[j].rx
    BY DEF OffsetsNeverReused
  <2>1. /\ DOMAIN sent = 1 .. Len(sent) /\ Len(sent) \in Nat
        /\ DOMAIN sent' = 1 .. Len(sent) + 1
        /\ \A k \in DOMAIN sent : sent'[k] = sent[k]
        /\ sent'[Len(sent) + 1].off = todo[1].off /\ sent'[Len(sent) + 1].rx = rx
    BY <1>2, SentGrows
  <2>2. i \in DOMAIN sent
    BY <2>1
  <2>3. CASE j \in DOMAIN sent
    BY <2>1, <2>2, <2>3 DEF OffsetsNeverReused
  <2>4. CASE j = Len(sent) + 1
    <3>1. 1 \in DOMAIN todo
      BY <1>2, TailOfTodo DEF Send, SendReady
    <3> QED
      BY <2>1, <2>2, <2>4, <3>1 DEF Numbered
  <2> QED
    BY <2>1, <2>3, <2>4
<1> QED
  BY <1>1, <1>2, OnlySendSends

\* The offsets of the events the controller sends increase, whatever messages arrive and
\* wherever it is killed (save_offset precedes every send_json).
THEOREM OffsetsAreNeverReused == Spec => []OffsetsNeverReused
<1>1. Init => OffsetsNeverReused
  BY DEF Init, OffsetsNeverReused
<1> QED
  BY <1>1, TypeInit, TypeNext, NumberedInit, NumberedNext, OffsetsNext, PTL DEF Spec

------------------------------------------------------------------------------
(* The blacklist.                                                            *)

\* Every step keeps a name that was reported, or is about to be, on the blacklist.
LEMMA BlacklistedNext == TypeOK /\ Blacklisted /\ [Next]_vars => Blacklisted'
<1> SUFFICES ASSUME TypeOK, Blacklisted, [Next]_vars PROVE Blacklisted'
  OBVIOUS
<1>1. ASSUME NEW m \in Messages, Take(m)
      PROVE  /\ todo = << >> /\ blkDue = FALSE /\ saved' = FALSE /\ sent' = sent
             /\ savedBlacklist' = savedBlacklist /\ savedBlacklist = blacklist
             /\ cur'.msg = m
  BY <1>1 DEF Take, disk, Blacklisted, TypeOK
<1>2. ASSUME NEW m \in Messages, DropBlacklisted(m) PROVE Blacklisted'
  <2>1. Take(m) /\ UNCHANGED <<todo, blacklist, blkDue>>
    BY <1>2 DEF DropBlacklisted
  <2>2. todo' = << >> /\ DOMAIN todo' = {} /\ ~blkDue' /\ blacklist' = blacklist
    <3>1. todo = << >> /\ ~blkDue
      BY <1>1, <2>1
    <3> QED
      BY <2>1, <3>1
  <2> QED
    BY <1>1, <2>1, <2>2 DEF Blacklisted
<1>3. ASSUME NEW m \in Messages, Tampered(m) \/ Replayed(m) PROVE Blacklisted'
  <2>1. PICK kind \in Rejections \ {"ROGUE_NODE"} :
            Reject(m, kind) /\ UNCHANGED <<blacklist, blkDue>>
    BY <1>3 DEF Tampered, Replayed, Rejections
  <2>2. Take(m) /\ todo' = RejectPlan(kind, offset + 1) /\ offset + 1 \in Nat
    BY <2>1 DEF Reject, TypeOK
  <2>3. Len(todo') = 1 /\ todo'[1].kind # "ROGUE_NODE" /\ DOMAIN todo' = {1}
    BY <2>2, RejectPlanFacts DEF RejectPlan, Emission
  <2> QED
    BY <1>1, <2>1, <2>2, <2>3 DEF Blacklisted
<1>4. ASSUME NEW m \in Messages, Rogue(m) PROVE Blacklisted'
  <2>1. /\ Take(m) /\ m.node \notin blacklist /\ blkDue' = TRUE
        /\ blacklist' = blacklist \cup {m.node}
        /\ todo' = RejectPlan("ROGUE_NODE", offset + 1) /\ offset + 1 \in Nat
    BY <1>4 DEF Rogue, Reject, TypeOK
  <2>2. Len(todo') = 1 /\ DOMAIN todo' = {1} /\ todo' # << >>
    BY <2>1, RejectPlanFacts DEF RejectPlan, Rejections
  <2>3. \A i \in DOMAIN sent : sent[i].kind = "ROGUE_NODE" => sent[i].msg.node # m.node
    BY <2>1 DEF Blacklisted
  <2> QED
    BY <1>1, <2>1, <2>2, <2>3 DEF Blacklisted
<1>5. ASSUME NEW m \in Messages, Accept(m) PROVE Blacklisted'
  <2>1. /\ Take(m) /\ offset + 1 \in Nat /\ UNCHANGED <<blacklist, blkDue>>
        /\ todo' = AcceptPlan(RemarksOn(m), offset + 1)
    BY <1>5 DEF Accept, TypeOK
  <2>2. /\ \A k \in 1 .. Len(todo') : todo'[k].kind # "ROGUE_NODE"
        /\ todo' \in Seq(Emissions)
    BY <2>1, RemarksType, AcceptPlanNumbers, AcceptPlanKinds
  <2>3. \A k \in DOMAIN todo' : todo'[k].kind # "ROGUE_NODE"
    BY <2>2, LenProperties
  <2> QED
    BY <1>1, <2>1, <2>3 DEF Blacklisted
<1>6. CASE SaveBlacklist
  BY <1>6 DEF SaveBlacklist, Blacklisted
<1>7. CASE SaveOffset
  BY <1>7 DEF SaveOffset, Blacklisted
<1>8. CASE Send
  <2>1. /\ todo # << >> /\ saved /\ todo' = Tail(todo) /\ saved' = FALSE
        /\ UNCHANGED <<savedBlacklist, blacklist, blkDue, cur>>
    BY <1>8 DEF Send, SendReady, disk
  <2>2. ~blkDue /\ savedBlacklist = blacklist
    BY <2>1 DEF Blacklisted
  <2>3. /\ 1 \in DOMAIN todo /\ Len(todo) \in Nat /\ DOMAIN todo' = 1 .. Len(todo) - 1
        /\ Len(todo') = Len(todo) - 1
        /\ \A k \in DOMAIN todo' : todo'[k] = todo[k + 1] /\ k + 1 \in DOMAIN todo
    BY <2>1, TailOfTodo
  <2>4. /\ DOMAIN sent' = DOMAIN sent \cup {Len(sent) + 1}
        /\ \A i \in DOMAIN sent : sent'[i] = sent[i]
        /\ sent'[Len(sent) + 1].kind = todo[1].kind /\ sent'[Len(sent) + 1].msg = cur.msg
    BY <1>8, SentGrows
  <2>5. \A i \in DOMAIN sent' :
            sent'[i].kind = "ROGUE_NODE" => sent'[i].msg.node \in savedBlacklist'
    BY <2>1, <2>2, <2>3, <2>4 DEF Blacklisted
  <2>6. ASSUME NEW k \in DOMAIN todo', todo'[k].kind = "ROGUE_NODE"
        PROVE  /\ k = Len(todo') /\ cur.msg.node \in blacklist
               /\ \A i \in DOMAIN sent' :
                      sent'[i].kind = "ROGUE_NODE" => sent'[i].msg.node # cur.msg.node
    <3>1. /\ k + 1 = Len(todo) /\ cur.msg.node \in blacklist
          /\ \A i \in DOMAIN sent :
                 sent[i].kind = "ROGUE_NODE" => sent[i].msg.node # cur.msg.node
      BY <2>3, <2>6 DEF Blacklisted
    <3>2. todo[1].kind # "ROGUE_NODE"
      BY <2>3, <3>1 DEF Blacklisted
    <3> QED
      BY <2>3, <2>4, <3>1, <3>2
  <2> QED
    BY <2>1, <2>2, <2>5, <2>6 DEF Blacklisted
<1>9. CASE Restart
  BY <1>9 DEF Restart, LoadBlacklist, Blacklisted, disk
<1>10. CASE Tick
  BY <1>10 DEF Tick, Blacklisted, disk
<1>11. CASE UNCHANGED vars
  BY <1>11 DEF vars, Blacklisted, disk
<1> QED
  BY <1>2, <1>3, <1>4, <1>5, <1>6, <1>7, <1>8, <1>9, <1>10, <1>11 DEF Next, Receive

\* A report is only sent about a name that was not reported before.
LEMMA RogueNext ==
    TypeOK /\ Blacklisted /\ RogueReportedOnce /\ [Next]_vars => RogueReportedOnce'
<1> SUFFICES ASSUME TypeOK, Blacklisted, RogueReportedOnce, [Next]_vars
             PROVE  RogueReportedOnce'
  OBVIOUS
<1>1. CASE sent' = sent
  BY <1>1 DEF RogueReportedOnce
<1>2. CASE Send
  <2>1. /\ DOMAIN sent' = DOMAIN sent \cup {Len(sent) + 1}
        /\ \A i \in DOMAIN sent : sent'[i] = sent[i]
        /\ sent'[Len(sent) + 1].kind = todo[1].kind /\ sent'[Len(sent) + 1].msg = cur.msg
    BY <1>2, SentGrows
  <2>2. 1 \in DOMAIN todo
    BY <1>2, TailOfTodo DEF Send, SendReady
  <2>3. todo[1].kind = "ROGUE_NODE" => \A i \in DOMAIN sent :
            sent[i].kind = "ROGUE_NODE" => sent[i].msg.node # cur.msg.node
    BY <2>2 DEF Blacklisted
  <2> QED
    BY <2>1, <2>3 DEF RogueReportedOnce
<1> QED
  BY <1>1, <1>2, OnlySendSends

\* No unlisted name is reported twice, whatever crash falls between blacklisting it in
\* memory, writing blacklist.json and sending the alert (CHECK 2 of the loop).
THEOREM RogueIsReportedOnce == Spec => []RogueReportedOnce
<1>1. Init => Blacklisted /\ RogueReportedOnce
  BY DEF Init, Blacklisted, RogueReportedOnce
<1> QED
  BY <1>1, TypeInit, TypeNext, BlacklistedNext, RogueNext, PTL DEF Spec

------------------------------------------------------------------------------
(* Sequence numbers.                                                         *)

\* Every step keeps the accepted sequence numbers of a tenant below last_seq.
LEMMA SequencedNext == TypeOK /\ Sequenced /\ [Next]_vars => Sequenced'
<1> SUFFICES ASSUME TypeOK, Sequenced, [Next]_vars PROVE Sequenced'
  OBVIOUS
<1> USE DEF TenantNow
<1>1. ASSUME NEW m \in Messages, Take(m)
      PROVE  todo = << >> /\ sent' = sent /\ boot' = boot /\ cur'.msg = m
  BY <1>1 DEF Take
<1>2. ASSUME NEW m \in Messages, DropBlacklisted(m) PROVE Sequenced'
  <2>1. Take(m) /\ UNCHANGED <<todo, lastSeq>>
    BY <1>2 DEF DropBlacklisted, guards
  <2>2. DOMAIN todo' = {}
    BY <1>1, <2>1
  <2> QED
    BY <1>1, <2>1, <2>2 DEF Sequenced
<1>3. ASSUME NEW m \in Messages, Tampered(m) \/ Rogue(m) \/ Replayed(m) PROVE Sequenced'
  <2>1. PICK kind \in Rejections : Reject(m, kind) /\ UNCHANGED lastSeq
    BY <1>3 DEF Tampered, Rogue, Replayed, Rejections, guards
  <2>2. Take(m) /\ todo' = RejectPlan(kind, offset + 1) /\ offset + 1 \in Nat
    BY <2>1 DEF Reject, TypeOK
  <2>3. todo'[1].kind # "TELEMETRY" /\ DOMAIN todo' = {1}
    BY <2>2, RejectPlanFacts DEF RejectPlan, Emission, Rejections
  <2> QED
    BY <1>1, <2>1, <2>2, <2>3 DEF Sequenced
<1>4. ASSUME NEW m \in Messages, Accept(m) PROVE Sequenced'
  <2>1. /\ Take(m) /\ offset + 1 \in Nat /\ ~NonMonotonic(m)
        /\ todo' = AcceptPlan(RemarksOn(m), offset + 1)
        /\ lastSeq' = [lastSeq EXCEPT ![m.node] = m.seq]
    BY <1>4 DEF Accept, TypeOK
  <2>2. /\ \A k \in 1 .. Len(todo') : todo'[k].kind = "TELEMETRY" => k = Len(todo')
        /\ todo' \in Seq(Emissions)
    BY <2>1, RemarksType, AcceptPlanNumbers, AcceptPlanKinds
  <2>3. DOMAIN todo' = 1 .. Len(todo')
    BY <2>2, LenProperties
  <2>4. m.node \in Nodes /\ m.seq \in Nat
    BY GuardTypes
  <2>5. lastSeq'[m.node] = m.seq /\ \A n \in Nodes \ {m.node} : lastSeq'[n] = lastSeq[n]
    BY <2>1, <2>4 DEF TypeOK
  <2>6. \A i \in DOMAIN sent : sent[i].msg.node \in Nodes /\ sent[i].msg.seq \in Nat
    BY ElementTypes, GuardTypes
  <2>7. ASSUME NEW i \in DOMAIN sent, TenantNow(i), sent[i].msg.node = m.node
        PROVE  sent[i].msg.seq < m.seq
    <3>1. sent[i].msg.seq <= lastSeq[m.node] /\ lastSeq[m.node] < m.seq
      <4>1. lastSeq[m.node] \in Int
        BY <2>4 DEF TypeOK, NoSeq
      <4> QED
        BY <2>1, <2>4, <2>7, <4>1 DEF NonMonotonic, Sequenced
    <3>2. lastSeq[m.node] \in Int
      BY <2>4 DEF TypeOK, NoSeq
    <3> QED
      BY <2>4, <2>6, <3>1, <3>2
  <2>8. \A i \in DOMAIN sent : TenantNow(i) => sent[i].msg.seq <= lastSeq'[sent[i].msg.node]
    BY <2>4, <2>5, <2>6, <2>7 DEF Sequenced
  <2> QED
    BY <1>1, <2>1, <2>2, <2>3, <2>5, <2>7, <2>8 DEF Sequenced
<1>5. CASE SaveBlacklist
  BY <1>5 DEF SaveBlacklist, Sequenced, guards
<1>6. CASE SaveOffset
  BY <1>6 DEF SaveOffset, Sequenced, guards
<1>7. CASE Send
  <2>1. todo # << >> /\ todo' = Tail(todo) /\ UNCHANGED <<lastSeq, cur, boot>>
    BY <1>7 DEF Send, SendReady, guards
  <2>2. /\ 1 \in DOMAIN todo /\ Len(todo) \in Nat /\ DOMAIN todo' = 1 .. Len(todo) - 1
        /\ Len(todo') = Len(todo) - 1
        /\ \A k \in DOMAIN todo' : todo'[k] = todo[k + 1] /\ k + 1 \in DOMAIN todo
    BY <2>1, TailOfTodo
  <2>3. /\ DOMAIN sent' = DOMAIN sent \cup {Len(sent) + 1}
        /\ \A i \in DOMAIN sent : sent'[i] = sent[i]
        /\ sent'[Len(sent) + 1].kind = todo[1].kind /\ sent'[Len(sent) + 1].msg = cur.msg
        /\ sent'[Len(sent) + 1].boot = boot
    BY <1>7, SentGrows
  <2>4. cur.msg.seq \in Nat /\ boot \in Nat
    <3>1. cur.msg \in Messages /\ boot \in Nat
      BY DEF TypeOK
    <3> QED
      BY <3>1, GuardTypes
  <2>5. \A i \in DOMAIN sent' : sent'[i].boot <= boot'
    BY <2>1, <2>3, <2>4 DEF Sequenced
  <2>6. \A i \in DOMAIN sent' :
            TenantNow(i)' => sent'[i].msg.seq <= lastSeq'[sent'[i].msg.node]
    <3>1. todo[1].kind = "TELEMETRY" => cur.msg.seq = lastSeq[cur.msg.node]
      BY <2>2 DEF Sequenced
    <3> QED
      BY <2>1, <2>3, <2>4, <3>1 DEF Sequenced
  <2>7. ASSUME NEW k \in DOMAIN todo', todo'[k].kind = "TELEMETRY"
        PROVE  /\ k = Len(todo') /\ cur.msg.seq = lastSeq[cur.msg.node]
               /\ \A i \in DOMAIN sent' :
                      TenantNow(i)' /\ sent'[i].msg.node = cur.msg.node
                          => sent'[i].msg.seq < cur.msg.seq
    <3>1. /\ k + 1 = Len(todo) /\ cur.msg.seq = lastSeq[cur.msg.node]
          /\ \A i \in DOMAIN sent :
                 TenantNow(i) /\ sent[i].msg.node = cur.msg.node
                     => sent[i].msg.seq < cur.msg.seq
      BY <2>2, <2>7 DEF Sequenced
    <3>2. todo[1].kind # "TELEMETRY"
      BY <2>2, <3>1 DEF Sequenced
    <3> QED
      BY <2>1, <2>2, <2>3, <3>1, <3>2
  <2> QED
    BY <2>1, <2>5, <2>6, <2>7 DEF Sequenced
<1>8. CASE Restart
  <2>1. boot' = boot + 1 /\ sent' = sent /\ todo' = << >> /\ DOMAIN todo' = {}
    BY <1>8 DEF Restart
  <2>2. \A i \in DOMAIN sent : sent[i].boot \in Nat /\ sent[i].boot <= boot /\ boot \in Nat
    BY ElementTypes DEF TypeOK, Sequenced
  <2>3. \A i \in DOMAIN sent : sent[i].boot < boot'
    BY <2>1, <2>2
  <2> QED
    BY <2>1, <2>2, <2>3 DEF Sequenced
<1>9. CASE Tick
  BY <1>9 DEF Tick, Sequenced, guards
<1>10. CASE UNCHANGED vars
  BY <1>10 DEF vars, Sequenced, guards
<1> QED
  BY <1>2, <1>3, <1>4, <1>5, <1>6, <1>7, <1>8, <1>9, <1>10 DEF Next, Receive

\* A tenant message is only sent when its number exceeds those sent before it.
LEMMA TenantSeqNext ==
    TypeOK /\ Sequenced /\ TenantSeqIncreases /\ [Next]_vars => TenantSeqIncreases'
<1> SUFFICES ASSUME TypeOK, Sequenced, TenantSeqIncreases, [Next]_vars
             PROVE  TenantSeqIncreases'
  OBVIOUS
<1> USE DEF TenantSeqIncreases, Forwarded, Together
<1>1. CASE sent' = sent
  BY <1>1
<1>2. CASE Send
  <2> SUFFICES ASSUME NEW i \in DOMAIN sent', NEW j \in DOMAIN sent', i < j,
                      sent'[i].kind = "TELEMETRY", sent'[j].kind = "TELEMETRY",
                      sent'[i].msg.node = sent'[j].msg.node,
                      sent'[i].boot = sent'[j].boot, sent'[i].msg.node \notin Exempt
               PROVE  sent'[i].msg.seq < sent'[j].msg.seq
    OBVIOUS
  <2>1. /\ DOMAIN sent = 1 .. Len(sent) /\ Len(sent) \in Nat
        /\ DOMAIN sent' = 1 .. Len(sent) + 1
        /\ \A k \in DOMAIN sent : sent'[k] = sent[k]
        /\ sent'[Len(sent) + 1].kind = todo[1].kind /\ sent'[Len(sent) + 1].msg = cur.msg
        /\ sent'[Len(sent) + 1].boot = boot
    BY <1>2, SentGrows
  <2>2. i \in DOMAIN sent
    BY <2>1
  <2>3. CASE j \in DOMAIN sent
    BY <2>1, <2>2, <2>3
  <2>4. CASE j = Len(sent) + 1
    <3>1. 1 \in DOMAIN todo
      BY <1>2, TailOfTodo DEF Send, SendReady
    <3>2. TenantNow(i) /\ todo[1].kind = "TELEMETRY" /\ sent[i].msg.node = cur.msg.node
      BY <2>1, <2>2, <2>4 DEF TenantNow
    <3> QED
      BY <2>1, <2>2, <2>4, <3>1, <3>2 DEF Sequenced
  <2> QED
    BY <2>1, <2>3, <2>4
<1> QED
  BY <1>1, <1>2, OnlySendSends

\* What one life of the controller forwards of a tenant has increasing sequence numbers,
\* for any messages and any limits (ReplayGuard.check 2).
THEOREM TenantSeqAlwaysIncreases == Spec => []TenantSeqIncreases
<1>1. Init => Sequenced /\ TenantSeqIncreases
  BY DEF Init, Sequenced, TenantSeqIncreases, Forwarded
<1> QED
  BY <1>1, TypeInit, TypeNext, SequencedNext, TenantSeqNext, PTL DEF Spec

------------------------------------------------------------------------------
(* Alerts on accepted messages.                                              *)

\* What is planned for an accepted message: alerts for what CHECKS 4 and 5 found, then the
\* message.
LEMMA AcceptedKinds ==
    ASSUME TypeOK, NEW m \in Messages, Accept(m)
    PROVE  /\ DOMAIN todo' = 1 .. Len(todo')
           /\ \A k \in DOMAIN todo' :
                  /\ todo'[k].kind = "TELEMETRY" => k = Len(todo')
                  /\ todo'[k].kind = "FLOOD_ATTACK" => k = 1 /\ FloodReport(m.node)
           /\ Impersonates(m) => \E k \in DOMAIN todo' : todo'[k].kind = "NODE_IMPERSONATION"
<1>1. PICK o \in Nat, remarks \in Remarks :
          remarks = RemarksOn(m) /\ todo' = AcceptPlan(remarks, o)
  <2>1. offset + 1 \in Nat /\ todo' = AcceptPlan(RemarksOn(m), offset + 1)
    BY DEF Accept, TypeOK
  <2> QED
    BY <2>1, RemarksType
<1>2. DOMAIN todo' = 1 .. Len(todo')
  BY <1>1, AcceptPlanNumbers, LenProperties
<1>3. /\ "FLOOD_ATTACK" \in remarks => FloodReport(m.node)
      /\ Impersonates(m) => "NODE_IMPERSONATION" \in remarks
  BY <1>1 DEF RemarksOn
<1>4. \A k \in 1 .. Len(todo') :
          /\ todo'[k].kind = "TELEMETRY" => k = Len(todo')
          /\ todo'[k].kind = "FLOOD_ATTACK" => k = 1 /\ "FLOOD_ATTACK" \in remarks
  BY <1>1, AcceptPlanKinds
<1>5. "NODE_IMPERSONATION" \in remarks =>
          \E k \in 1 .. Len(todo') : todo'[k].kind = "NODE_IMPERSONATION"
  BY <1>1, AcceptPlanReports
<1> QED
  BY <1>2, <1>3, <1>4, <1>5

\* A flood alert of this life of the process.
FloodNow(i) == sent[i].kind = "FLOOD_ATTACK" /\ sent[i].boot = boot

\* flood_alerted is not before any alert about the node; a pending one is its last entry and
\* a window after the others.
Spaced ==
    /\ \A i \in DOMAIN sent : sent[i].boot <= boot
    /\ \A i \in DOMAIN sent : FloodNow(i) => sent[i].at <= floodAlerted[sent[i].msg.node]
    /\ \A k \in DOMAIN todo : todo[k].kind = "FLOOD_ATTACK" =>
           /\ k = 1 /\ floodAlerted[cur.msg.node] = cur.at
           /\ \A i \in DOMAIN sent : FloodNow(i) /\ sent[i].msg.node = cur.msg.node
                  => cur.at - sent[i].at >= FloodWindow

\* Every step keeps the flood alerts apart.
LEMMA SpacedNext == TypeOK /\ Spaced /\ [Next]_vars => Spaced'
<1> SUFFICES ASSUME TypeOK, Spaced, [Next]_vars PROVE Spaced'
  OBVIOUS
<1> USE DEF FloodNow
<1>1. ASSUME NEW m \in Messages, Take(m)
      PROVE  /\ todo = << >> /\ sent' = sent /\ boot' = boot
             /\ cur'.msg = m /\ cur'.at = now
  BY <1>1 DEF Take
<1>2. ASSUME NEW m \in Messages, DropBlacklisted(m) PROVE Spaced'
  <2>1. Take(m) /\ UNCHANGED <<todo, floodAlerted>>
    BY <1>2 DEF DropBlacklisted, guards
  <2>2. DOMAIN todo' = {}
    BY <1>1, <2>1
  <2> QED
    BY <1>1, <2>1, <2>2 DEF Spaced
<1>3. ASSUME NEW m \in Messages, Tampered(m) \/ Rogue(m) \/ Replayed(m) PROVE Spaced'
  <2>1. PICK kind \in Rejections : Reject(m, kind) /\ UNCHANGED floodAlerted
    BY <1>3 DEF Tampered, Rogue, Replayed, Rejections, guards
  <2>2. Take(m) /\ todo' = RejectPlan(kind, offset + 1) /\ offset + 1 \in Nat
    BY <2>1 DEF Reject, TypeOK
  <2>3. todo'[1].kind # "FLOOD_ATTACK" /\ DOMAIN todo' = {1}
    BY <2>2, RejectPlanFacts DEF RejectPlan, Emission, Rejections
  <2> QED
    BY <1>1, <2>1, <2>2, <2>3 DEF Spaced
<1>4. ASSUME NEW m \in Messages, Accept(m) PROVE Spaced'
  <2>1. /\ Take(m)
        /\ floodAlerted' = IF FloodReport(m.node)
                           THEN [floodAlerted EXCEPT ![m.node] = now] ELSE floodAlerted
    BY <1>4 DEF Accept
  <2>2. \A k \in DOMAIN todo' : todo'[k].kind = "FLOOD_ATTACK" => k = 1 /\ FloodReport(m.node)
    BY <1>4, AcceptedKinds
  <2>3. m.node \in Nodes /\ now \in Nat /\ floodAlerted \in [Nodes -> Nat \cup {Never}]
        /\ Never \in Int /\ FloodWindow \in Nat
    <3>1. FloodWindow \in Nat
      BY ConstantsAssumption
    <3>2. Never \in Int
      BY <3>1 DEF Never
    <3>3. m.node \in Nodes
      BY ConstantsAssumption DEF MessageType
    <3>4. now \in Nat /\ floodAlerted \in [Nodes -> Nat \cup {Never}]
      BY DEF TypeOK
    <3> QED
      BY <3>1, <3>2, <3>3, <3>4
  <2>4. \A i \in DOMAIN sent : sent[i].at \in Nat /\ sent[i].msg.node \in Nodes
    BY ElementTypes, GuardTypes
  <2>5. CASE ~FloodReport(m.node)
    BY <1>1, <2>1, <2>2, <2>5 DEF Spaced
  <2>6. CASE FloodReport(m.node)
    <3>1. /\ floodAlerted'[m.node] = now
          /\ \A n \in Nodes \ {m.node} : floodAlerted'[n] = floodAlerted[n]
      BY <2>1, <2>3, <2>6
    <3>2. ASSUME NEW i \in DOMAIN sent, FloodNow(i), sent[i].msg.node = m.node
          PROVE  now - sent[i].at >= FloodWindow /\ sent[i].at <= now
      <4>1. sent[i].at <= floodAlerted[m.node] /\ now - floodAlerted[m.node] >= FloodWindow
        BY <2>6, <3>2 DEF Spaced, FloodReport
      <4>2. floodAlerted[m.node] \in Int
        BY <2>3
      <4> QED
        BY <2>3, <2>4, <4>1, <4>2
    <3>3. \A i \in DOMAIN sent : FloodNow(i) => sent[i].at <= floodAlerted'[sent[i].msg.node]
      BY <2>4, <3>1, <3>2 DEF Spaced
    <3> QED
      BY <1>1, <2>1, <2>2, <3>1, <3>2, <3>3 DEF Spaced
  <2> QED
    BY <2>5, <2>6
<1>5. CASE SaveBlacklist
  BY <1>5 DEF SaveBlacklist, Spaced, guards
<1>6. CASE SaveOffset
  BY <1>6 DEF SaveOffset, Spaced, guards
<1>7. CASE Send
  <2>1. todo # << >> /\ todo' = Tail(todo) /\ UNCHANGED <<floodAlerted, cur, boot>>
    BY <1>7 DEF Send, SendReady, guards
  <2>2. /\ 1 \in DOMAIN todo /\ Len(todo) \in Nat /\ DOMAIN todo' = 1 .. Len(todo) - 1
        /\ \A k \in DOMAIN todo' : todo'[k] = todo[k + 1] /\ k + 1 \in DOMAIN todo
    BY <2>1, TailOfTodo
  <2>3. /\ DOMAIN sent' = DOMAIN sent \cup {Len(sent) + 1}
        /\ \A i \in DOMAIN sent : sent'[i] = sent[i]
        /\ sent'[Len(sent) + 1].kind = todo[1].kind /\ sent'[Len(sent) + 1].msg = cur.msg
        /\ sent'[Len(sent) + 1].boot = boot /\ sent'[Len(sent) + 1].at = cur.at
    BY <1>7, SentGrows
  <2>4. cur.at \in Nat /\ boot \in Nat
    BY DEF TypeOK
  <2>5. \A i \in DOMAIN sent' : sent'[i].boot <= boot'
    BY <2>1, <2>3, <2>4 DEF Spaced
  <2>6. \A k \in DOMAIN todo' : todo'[k].kind # "FLOOD_ATTACK"
    BY <2>2 DEF Spaced
  <2>7. \A i \in DOMAIN sent' : FloodNow(i)' => sent'[i].at <= floodAlerted'[sent'[i].msg.node]
    BY <2>1, <2>2, <2>3, <2>4 DEF Spaced
  <2> QED
    BY <2>5, <2>6, <2>7 DEF Spaced
<1>8. CASE Restart
  <2>1. boot' = boot + 1 /\ sent' = sent /\ todo' = << >> /\ DOMAIN todo' = {}
    BY <1>8 DEF Restart
  <2>2. \A i \in DOMAIN sent : sent[i].boot \in Nat /\ sent[i].boot <= boot /\ boot \in Nat
    BY ElementTypes DEF TypeOK, Spaced
  <2>3. \A i \in DOMAIN sent : sent[i].boot < boot'
    BY <2>1, <2>2
  <2> QED
    BY <2>1, <2>2, <2>3 DEF Spaced
<1>9. CASE Tick
  BY <1>9 DEF Tick, Spaced, guards
<1>10. CASE UNCHANGED vars
  BY <1>10 DEF vars, Spaced, guards
<1> QED
  BY <1>2, <1>3, <1>4, <1>5, <1>6, <1>7, <1>8, <1>9, <1>10 DEF Next, Receive

\* A flood alert is only sent a window after the last one about the node.
LEMMA OneFloodAlertNext ==
    TypeOK /\ Spaced /\ OneFloodAlertPerWindow /\ [Next]_vars => OneFloodAlertPerWindow'
<1> SUFFICES ASSUME TypeOK, Spaced, OneFloodAlertPerWindow, [Next]_vars
             PROVE  OneFloodAlertPerWindow'
  OBVIOUS
<1> USE DEF OneFloodAlertPerWindow, Together
<1>1. CASE sent' = sent
  BY <1>1
<1>2. CASE Send
  <2> SUFFICES ASSUME NEW i \in DOMAIN sent', NEW j \in DOMAIN sent', i < j,
                      sent'[i].msg.node = sent'[j].msg.node, sent'[i].boot = sent'[j].boot,
                      sent'[i].kind = "FLOOD_ATTACK", sent'[j].kind = "FLOOD_ATTACK"
               PROVE  sent'[j].at - sent'[i].at >= FloodWindow
    OBVIOUS
  <2>1. /\ DOMAIN sent = 1 .. Len(sent) /\ Len(sent) \in Nat
        /\ DOMAIN sent' = 1 .. Len(sent) + 1
        /\ \A k \in DOMAIN sent : sent'[k] = sent[k]
        /\ sent'[Len(sent) + 1].kind = todo[1].kind /\ sent'[Len(sent) + 1].msg = cur.msg
        /\ sent'[Len(sent) + 1].boot = boot /\ sent'[Len(sent) + 1].at = cur.at
    BY <1>2, SentGrows
  <2>2. i \in DOMAIN sent
    BY <2>1
  <2>3. CASE j \in DOMAIN sent
    BY <2>1, <2>2, <2>3
  <2>4. CASE j = Len(sent) + 1
    <3>1. 1 \in DOMAIN todo
      BY <1>2, TailOfTodo DEF Send, SendReady
    <3>2. FloodNow(i) /\ todo[1].kind = "FLOOD_ATTACK" /\ sent[i].msg.node = cur.msg.node
      BY <2>1, <2>2, <2>4 DEF FloodNow
    <3> QED
      BY <2>1, <2>2, <2>4, <3>1, <3>2 DEF Spaced
  <2> QED
    BY <2>1, <2>3, <2>4
<1> QED
  BY <1>1, <1>2, OnlySendSends

\* Two flood alerts about a node in one life of the controller are a window apart, for any
\* limit, any window and any arrivals (flood_alerted in the loop of main).
THEOREM FloodAlertsAreSpaced == Spec => []OneFloodAlertPerWindow
<1>1. Init => Spaced /\ OneFloodAlertPerWindow
  BY DEF Init, Spaced, OneFloodAlertPerWindow
<1> QED
  BY <1>1, TypeInit, TypeNext, SpacedNext, OneFloodAlertNext, PTL DEF Spec

------------------------------------------------------------------------------
(* Machines behind a name.                                                   *)

\* A message of this life of the process forwarded with a machine id.
MachineNow(i) ==
    sent[i].kind = "TELEMETRY" /\ sent[i].boot = boot /\ sent[i].msg.mid # NoMid

\* An impersonation alert about the node of i went out since, in this life.
ReportedSince(i) ==
    \E k \in DOMAIN sent : /\ i <= k /\ sent[k].kind = "NODE_IMPERSONATION"
                           /\ sent[k].msg.node = sent[i].msg.node /\ sent[k].boot = boot

\* One about the node of i is still to be sent.
ReportPending(i) ==
    /\ sent[i].msg.node = cur.msg.node
    /\ \E k \in DOMAIN todo : todo[k].kind = "NODE_IMPERSONATION"

\* node_machine_ids holds the machine of every message forwarded under the name, but for
\* those whose change is reported or about to be; a pending message is last and has its own
\* id recorded.
Identified ==
    /\ \A i \in DOMAIN sent : sent[i].boot <= boot
    /\ \A i \in DOMAIN sent : MachineNow(i) =>
           mids[sent[i].msg.node] = sent[i].msg.mid \/ ReportedSince(i) \/ ReportPending(i)
    /\ \A k \in DOMAIN todo : todo[k].kind = "TELEMETRY" =>
           /\ k = Len(todo)
           /\ cur.msg.mid # NoMid => mids[cur.msg.node] = cur.msg.mid

\* Steps that receive a message without changing node_machine_ids keep Identified when they
\* plan no forwarding.
LEMMA IdentifiedIdle ==
    ASSUME TypeOK, Identified, todo = << >>, UNCHANGED <<mids, sent, boot>>,
           \A k \in DOMAIN todo' : todo'[k].kind # "TELEMETRY"
    PROVE  Identified'
<1>1. DOMAIN todo = {}
  OBVIOUS
<1>2. \A i \in DOMAIN sent : MachineNow(i) =>
          mids[sent[i].msg.node] = sent[i].msg.mid \/ ReportedSince(i)
  BY <1>1 DEF Identified, ReportPending
<1>3. \A i \in DOMAIN sent : MachineNow(i)' = MachineNow(i)
  BY DEF MachineNow
<1>4. \A i \in DOMAIN sent : ReportedSince(i) => ReportedSince(i)'
  BY DEF ReportedSince
<1> QED
  BY <1>2, <1>3, <1>4 DEF Identified

\* Every step keeps Identified.
LEMMA IdentifiedNext == TypeOK /\ Identified /\ [Next]_vars => Identified'
<1> SUFFICES ASSUME TypeOK, Identified, [Next]_vars PROVE Identified'
  OBVIOUS
<1>1. ASSUME NEW m \in Messages, Take(m)
      PROVE  todo = << >> /\ sent' = sent /\ boot' = boot /\ cur'.msg = m
  BY <1>1 DEF Take
<1>2. ASSUME NEW m \in Messages, DropBlacklisted(m) PROVE Identified'
  <2>1. Take(m) /\ UNCHANGED <<todo, mids>>
    BY <1>2 DEF DropBlacklisted, guards
  <2>2. DOMAIN todo' = {}
    BY <1>1, <2>1
  <2> QED
    BY <1>1, <2>1, <2>2, IdentifiedIdle
<1>3. ASSUME NEW m \in Messages, Tampered(m) \/ Rogue(m) \/ Replayed(m) PROVE Identified'
  <2>1. PICK kind \in Rejections : Reject(m, kind) /\ UNCHANGED mids
    BY <1>3 DEF Tampered, Rogue, Replayed, Rejections, guards
  <2>2. Take(m) /\ todo' = RejectPlan(kind, offset + 1) /\ offset + 1 \in Nat
    BY <2>1 DEF Reject, TypeOK
  <2>3. todo'[1].kind # "TELEMETRY" /\ DOMAIN todo' = {1}
    BY <2>2, RejectPlanFacts DEF RejectPlan, Emission, Rejections
  <2> QED
    BY <1>1, <2>1, <2>2, <2>3, IdentifiedIdle
<1>4. ASSUME NEW m \in Messages, Accept(m) PROVE Identified'
  <2>1. /\ Take(m)
        /\ mids' = IF m.mid # NoMid THEN [mids EXCEPT ![m.node] = m.mid] ELSE mids
    BY <1>4 DEF Accept
  <2>2. /\ \A k \in DOMAIN todo' : todo'[k].kind = "TELEMETRY" => k = Len(todo')
        /\ Impersonates(m) => \E k \in DOMAIN todo' : todo'[k].kind = "NODE_IMPERSONATION"
    BY <1>4, AcceptedKinds
  <2>3. m.node \in Nodes /\ DOMAIN mids = Nodes
    BY ConstantsAssumption DEF MessageType, TypeOK
  <2>4. /\ m.mid # NoMid => mids'[m.node] = m.mid
        /\ m.mid = NoMid => mids'[m.node] = mids[m.node]
        /\ \A n \in Nodes \ {m.node} : mids'[n] = mids[n]
    BY <2>1, <2>3
  <2>5. \A i \in DOMAIN sent : sent[i].msg.node \in Nodes
    BY ElementTypes, GuardTypes
  <2>6. ASSUME NEW i \in DOMAIN sent, MachineNow(i)
        PROVE  mids'[sent[i].msg.node] = sent[i].msg.mid \/ ReportedSince(i)' \/ ReportPending(i)'
    <3>1. mids[sent[i].msg.node] = sent[i].msg.mid \/ ReportedSince(i)
      <4>1. DOMAIN todo = {}
        BY <1>1, <2>1
      <4> QED
        BY <2>6, <4>1 DEF Identified, ReportPending
    <3>2. CASE ReportedSince(i)
      BY <1>1, <2>1, <3>2 DEF ReportedSince
    <3>3. CASE mids[sent[i].msg.node] = sent[i].msg.mid /\ sent[i].msg.node # m.node
      BY <2>4, <2>5, <3>3
    <3>4. CASE mids[sent[i].msg.node] = sent[i].msg.mid /\ sent[i].msg.node = m.node
      <4>1. mids[m.node] # NoMid
        BY <2>6, <3>4 DEF MachineNow
      <4>2. CASE Impersonates(m)
        BY <1>1, <2>1, <2>2, <3>4, <4>2 DEF ReportPending
      <4>3. CASE ~Impersonates(m)
        BY <2>4, <3>4, <4>1, <4>3 DEF Impersonates
      <4> QED
        BY <4>2, <4>3
    <3> QED
      BY <3>1, <3>2, <3>3, <3>4
  <2>7. \A i \in DOMAIN sent : MachineNow(i)' = MachineNow(i)
    BY <1>1, <2>1 DEF MachineNow
  <2> QED
    BY <1>1, <2>1, <2>2, <2>4, <2>6, <2>7 DEF Identified
<1>5. CASE SaveBlacklist \/ SaveOffset \/ Tick \/ UNCHANGED vars
  <2>1. UNCHANGED <<sent, boot, mids, todo, cur>>
    BY <1>5 DEF SaveBlacklist, SaveOffset, Tick, vars, guards
  <2> QED
    BY <2>1 DEF Identified, MachineNow, ReportedSince, ReportPending
<1>6. CASE Send
  <2>1. todo # << >> /\ todo' = Tail(todo) /\ UNCHANGED <<mids, cur, boot>>
    BY <1>6 DEF Send, SendReady, guards
  <2>2. /\ 1 \in DOMAIN todo /\ Len(todo) \in Nat
        /\ DOMAIN todo = 1 .. Len(todo) /\ DOMAIN todo' = 1 .. Len(todo) - 1
        /\ Len(todo') = Len(todo) - 1
        /\ \A k \in DOMAIN todo' : todo'[k] = todo[k + 1] /\ k + 1 \in DOMAIN todo
    BY <2>1, TailOfTodo DEF TypeOK
  <2>3. /\ DOMAIN sent = 1 .. Len(sent) /\ Len(sent) \in Nat
        /\ DOMAIN sent' = DOMAIN sent \cup {Len(sent) + 1}
        /\ \A i \in DOMAIN sent : sent'[i] = sent[i]
        /\ sent'[Len(sent) + 1].kind = todo[1].kind /\ sent'[Len(sent) + 1].msg = cur.msg
        /\ sent'[Len(sent) + 1].boot = boot
    BY <1>6, SentGrows
  <2>4. boot \in Nat
    BY DEF TypeOK
  <2>5. \A i \in DOMAIN sent' : sent'[i].boot <= boot'
    BY <2>1, <2>3, <2>4 DEF Identified
  <2>6. ASSUME NEW i \in DOMAIN sent, MachineNow(i)
        PROVE  mids'[sent[i].msg.node] = sent[i].msg.mid \/ ReportedSince(i)' \/ ReportPending(i)'
    <3>1. CASE ReportedSince(i)
      BY <2>1, <2>3, <3>1 DEF ReportedSince
    <3>2. CASE ReportPending(i)
      <4>1. PICK k \in DOMAIN todo : todo[k].kind = "NODE_IMPERSONATION"
        BY <3>2 DEF ReportPending
      <4>2. CASE k = 1
        <5>1. i <= Len(sent) + 1 /\ Len(sent) + 1 \in DOMAIN sent'
          BY <2>3
        <5> QED
          BY <2>1, <2>3, <3>2, <4>1, <4>2, <5>1 DEF ReportedSince, ReportPending
      <4>3. CASE k # 1
        <5>1. k - 1 \in DOMAIN todo' /\ todo'[k - 1] = todo[k]
          BY <2>2, <4>3
        <5> QED
          BY <2>1, <2>3, <3>2, <4>1, <5>1 DEF ReportPending
      <4> QED
        BY <4>2, <4>3
    <3>3. CASE mids[sent[i].msg.node] = sent[i].msg.mid
      BY <2>1, <3>3
    <3> QED
      BY <2>6, <3>1, <3>2, <3>3 DEF Identified
  <2>7. \A i \in DOMAIN sent : MachineNow(i)' => MachineNow(i)
    BY <2>1, <2>3 DEF MachineNow
  <2>8. ASSUME NEW i \in DOMAIN sent', i = Len(sent) + 1, MachineNow(i)'
        PROVE  mids'[sent'[i].msg.node] = sent'[i].msg.mid
    <3>1. todo[1].kind = "TELEMETRY" /\ cur.msg.mid # NoMid /\ sent'[i].msg = cur.msg
      BY <2>3, <2>8 DEF MachineNow
    <3>2. mids[cur.msg.node] = cur.msg.mid
      BY <2>2, <3>1 DEF Identified
    <3> QED
      BY <2>1, <3>1, <3>2
  <2>9. ASSUME NEW i \in DOMAIN sent', MachineNow(i)'
        PROVE  \/ mids'[sent'[i].msg.node] = sent'[i].msg.mid
               \/ ReportedSince(i)' \/ ReportPending(i)'
    <3>1. CASE i \in DOMAIN sent
      BY <2>3, <2>6, <2>7, <2>9, <3>1
    <3>2. CASE i = Len(sent) + 1
      BY <2>8, <2>9, <3>2
    <3> QED
      BY <2>3, <3>1, <3>2
  <2>10. \A k \in DOMAIN todo' : todo'[k].kind = "TELEMETRY" =>
             /\ k = Len(todo')
             /\ cur'.msg.mid # NoMid => mids'[cur'.msg.node] = cur'.msg.mid
    BY <2>1, <2>2 DEF Identified
  <2> QED
    BY <2>5, <2>9, <2>10 DEF Identified
<1>7. CASE Restart
  <2>1. boot' = boot + 1 /\ sent' = sent /\ todo' = << >> /\ DOMAIN todo' = {}
    BY <1>7 DEF Restart
  <2>2. \A i \in DOMAIN sent : sent[i].boot \in Nat /\ sent[i].boot <= boot /\ boot \in Nat
    BY ElementTypes DEF TypeOK, Identified
  <2>3. \A i \in DOMAIN sent : sent[i].boot < boot'
    BY <2>1, <2>2
  <2>4. \A i \in DOMAIN sent' : sent'[i].boot <= boot' /\ ~MachineNow(i)'
    BY <2>1, <2>2, <2>3 DEF MachineNow
  <2> QED
    BY <2>1, <2>4 DEF Identified
<1> QED
  BY <1>2, <1>3, <1>4, <1>5, <1>6, <1>7 DEF Next, Receive

\* A message is only forwarded from another machine once an alert about its node went out.
LEMMA MachineChangeNext ==
    TypeOK /\ Identified /\ MachineChangeIsReported /\ [Next]_vars => MachineChangeIsReported'
<1> SUFFICES ASSUME TypeOK, Identified, MachineChangeIsReported, [Next]_vars
             PROVE  MachineChangeIsReported'
  OBVIOUS
<1> USE DEF MachineChangeIsReported, Forwarded, Together
<1>1. CASE sent' = sent
  BY <1>1
<1>2. CASE Send
  <2> SUFFICES ASSUME NEW i \in DOMAIN sent', NEW j \in DOMAIN sent', i < j,
                      sent'[i].kind = "TELEMETRY", sent'[j].kind = "TELEMETRY",
                      sent'[i].msg.node = sent'[j].msg.node, sent'[i].boot = sent'[j].boot,
                      sent'[i].msg.mid # NoMid, sent'[j].msg.mid # NoMid,
                      sent'[i].msg.mid # sent'[j].msg.mid
               PROVE  \E k \in i .. j :
                          /\ sent'[k].kind = "NODE_IMPERSONATION"
                          /\ sent'[k].msg.node = sent'[j].msg.node
                          /\ sent'[k].boot = sent'[j].boot
    OBVIOUS
  <2>1. /\ DOMAIN sent = 1 .. Len(sent) /\ Len(sent) \in Nat
        /\ DOMAIN sent' = 1 .. Len(sent) + 1
        /\ \A k \in DOMAIN sent : sent'[k] = sent[k]
        /\ sent'[Len(sent) + 1].kind = todo[1].kind /\ sent'[Len(sent) + 1].msg = cur.msg
        /\ sent'[Len(sent) + 1].boot = boot
    BY <1>2, SentGrows
  <2>2. i \in DOMAIN sent
    BY <2>1
  <2>3. CASE j \in DOMAIN sent
    <3>1. PICK k \in i .. j : /\ sent[k].kind = "NODE_IMPERSONATION"
                              /\ sent[k].msg.node = sent[j].msg.node
                              /\ sent[k].boot = sent[j].boot
      BY <2>1, <2>2, <2>3
    <3>2. k \in DOMAIN sent
      BY <2>1, <2>2, <2>3
    <3> QED
      BY <2>1, <2>3, <3>1, <3>2
  <2>4. CASE j = Len(sent) + 1
    <3>1. 1 \in DOMAIN todo /\ DOMAIN todo = 1 .. Len(todo) /\ todo[1].kind = "TELEMETRY"
      BY <1>2, <2>1, <2>4, TailOfTodo DEF Send, SendReady, TypeOK
    <3>2. 1 = Len(todo) /\ (cur.msg.mid # NoMid => mids[cur.msg.node] = cur.msg.mid)
      BY <3>1 DEF Identified
    <3>3. ~ReportPending(i)
      <4>1. DOMAIN todo = 1 .. 1
        BY <3>1, <3>2
      <4>2. \A k \in DOMAIN todo : k = 1
        BY <4>1
      <4> QED
        BY <3>1, <4>2 DEF ReportPending
    <3>4. MachineNow(i) /\ mids[sent[i].msg.node] # sent[i].msg.mid
      BY <2>1, <2>2, <2>4, <3>2 DEF MachineNow
    <3>5. ReportedSince(i)
      BY <2>2, <3>3, <3>4 DEF Identified
    <3>6. PICK k \in DOMAIN sent : /\ i <= k /\ sent[k].kind = "NODE_IMPERSONATION"
                                   /\ sent[k].msg.node = sent[i].msg.node
                                   /\ sent[k].boot = boot
      BY <3>5 DEF ReportedSince
    <3>7. k \in i .. j /\ sent'[k] = sent[k]
      BY <2>1, <2>2, <2>4, <3>6
    <3> QED
      BY <2>1, <2>2, <2>4, <3>6, <3>7
  <2> QED
    BY <2>1, <2>3, <2>4
<1> QED
  BY <1>1, <1>2, OnlySendSends

\* In one life of the controller no message is forwarded from another machine under the same
\* name without an impersonation alert in between, for any messages and limits (CHECK 5).
THEOREM MachineChangesAreReported == Spec => []MachineChangeIsReported
<1>1. Init => Identified /\ MachineChangeIsReported
  BY DEF Init, Identified, MachineChangeIsReported, Forwarded
<1> QED
  BY <1>1, TypeInit, TypeNext, IdentifiedNext, MachineChangeNext, PTL DEF Spec

=============================================================================
