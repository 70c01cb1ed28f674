--------------------------- MODULE OffsetLinkProofs ---------------------------
(***************************************************************************)
(* Proofs about OffsetLink for every set of verdicts and any number of     *)
(* messages, crashes and resets: types, the order of the table, what the   *)
(* filter drops, and, without resets, the refinement of OrderedLink.       *)
(***************************************************************************)
EXTENDS OffsetLink, GateEmissionsProofs

------------------------------------------------------------------------------
(* Lemmas about the operators.                                               *)

\* The parts of a sequence are sequences; they hold elements of it in its order.
LEMMA PartOf ==
    ASSUME NEW S, NEW s \in Seq(S), NEW k \in 0..Len(s)
    PROVE  /\ SubSeq(s, 1, k) \in Seq(S)
           /\ Len(SubSeq(s, 1, k)) = k
           /\ \A i \in 1..k : SubSeq(s, 1, k)[i] = s[i]
           /\ SubSeq(s, k + 1, Len(s)) \in Seq(S)
           /\ Len(SubSeq(s, k + 1, Len(s))) = Len(s) - k
           /\ \A i \in 1..(Len(s) - k) : SubSeq(s, k + 1, Len(s))[i] = s[k + i]
<1> DEFINE L == Len(s)
<1>1. L \in Nat /\ k \in Nat /\ k <= L /\ \A i \in 1..L : s[i] \in S
  BY LenProperties, ElementOfSeq
<1>2. k \in 0..L
  OBVIOUS
<1> HIDE DEF L
<1>3. \A i \in 1..k : s[i] \in S
  BY <1>1
<1>4. \A i \in (k + 1)..L : s[i] \in S
  BY <1>1
<1>5. /\ SubSeq(s, 1, k) \in Seq(S)
      /\ Len(SubSeq(s, 1, k)) = IF 1 <= k THEN k - 1 + 1 ELSE 0
      /\ \A i \in 1..(k - 1 + 1) : SubSeq(s, 1, k)[i] = s[1 + i - 1]
  BY <1>1, <1>3, SubSeqProperties
<1>6. /\ SubSeq(s, k + 1, L) \in Seq(S)
      /\ Len(SubSeq(s, k + 1, L)) = IF k + 1 <= L THEN L - (k + 1) + 1 ELSE 0
      /\ \A i \in 1..(L - (k + 1) + 1) : SubSeq(s, k + 1, L)[i] = s[k + 1 + i - 1]
  <2>1. k + 1 \in Int /\ L \in Int
    BY <1>1
  <2> QED
    BY <1>4, <2>1, SubSeqProperties
<1>7. Len(SubSeq(s, 1, k)) = k /\ \A i \in 1..k : SubSeq(s, 1, k)[i] = s[i]
  BY <1>1, <1>5
<1>8. /\ Len(SubSeq(s, k + 1, L)) = L - k
      /\ \A i \in 1..(L - k) : SubSeq(s, k + 1, L)[i] = s[k + i]
  BY <1>1, <1>6
<1> QED
  BY <1>5, <1>6, <1>7, <1>8 DEF L

\* The elements of a sequence are of its kind.
LEMMA ContentsType ==
    ASSUME NEW S, NEW s \in Seq(S)
    PROVE  Contents(s) \subseteq S
BY LenProperties, ElementOfSeq DEF Contents

------------------------------------------------------------------------------
(* Type correctness.                                                         *)

\* The initial states are well typed.
LEMMA TypeInit == Init => TypeOK
<1> SUFFICES ASSUME Init PROVE TypeOK
  OBVIOUS
<1>1. \A S : << >> \in Seq(S)
  BY EmptySeq
<1>2. [kind |-> "TELEMETRY", off |-> 0, rx |-> 0, gen |-> 0] \in Events
  BY DEF Events, Kinds
<1>3. {up, saved} \subseteq BOOLEAN /\ straddled \in BOOLEAN
  BY DEF Init
<1>4. todo \in Seq(Emissions) /\ channel \in Seq(Events) /\ log \in Seq(Events)
  BY <1>1 DEF Init
<1>5. hand \in Events /\ skipped \subseteq Skips /\ lost \subseteq Events
  BY <1>2 DEF Init
<1>6. /\ {file, offset, rx, lastOffset, committed, sentTop} \subseteq Nat
      /\ {ctlCrashes, engCrashes, resets, gen} \subseteq Nat
  BY DEF Init
<1>7. pc \in {"recv", "alert", "write", "advance", "down"}
      /\ cmd \in {"idle", "memory", "file", "restart"}
  BY DEF Init
<1> QED
  BY <1>3, <1>4, <1>5, <1>6, <1>7 DEF TypeOK

\* The controller keeps the types.
LEMMA TypeController ==
    ASSUME TypeOK, Controller
    PROVE  TypeOK'
<1> USE DEF TypeOK, eng, bounds, history
<1>1. CASE GateReject
  <2>1. offset + 1 \in Nat
    OBVIOUS
  <2>2. todo' \in Seq(Emissions)
    BY <1>1, <2>1, RejectPlanFacts, LinkAssumption DEF GateReject
  <2> QED
    BY <1>1, <2>2 DEF GateReject
<1>2. CASE GateAccept
  <2>1. offset + 1 \in Nat
    OBVIOUS
  <2>2. todo' \in Seq(Emissions) /\ offset' \in Nat
    BY <1>2, <2>1, AcceptPlanNumbers, LinkAssumption DEF GateAccept
  <2>3. rx' = rx + 1 /\ UNCHANGED <<up, file, saved, channel, eng, cmd, bounds, history>>
    BY <1>2 DEF GateAccept
  <2> QED
    BY <2>2, <2>3
<1>3. CASE CtlSave
  <2>1. Head(todo) \in Emissions
    BY <1>3, HeadTailProperties DEF CtlSave
  <2> QED
    BY <1>3, <2>1 DEF CtlSave, Emissions
<1>4. CASE CtlSend
  <2>1. Head(todo) \in Emissions /\ todo' \in Seq(Emissions)
    BY <1>4, HeadTailProperties DEF CtlSend
  <2>2. [kind |-> Head(todo).kind, off |-> Head(todo).off, rx |-> rx, gen |-> gen] \in Events
    BY <2>1 DEF Emissions, Events
  <2>3. channel' \in Seq(Events)
    BY <1>4, <2>2, AppendProperties DEF CtlSend
  <2>4. sentTop' \in Nat
    BY <1>4, <2>1 DEF CtlSend, Emissions
  <2> QED
    BY <1>4, <2>1, <2>3, <2>4 DEF CtlSend
<1> QED
  BY <1>1, <1>2, <1>3, <1>4 DEF Controller

\* So does its end.
LEMMA TypeStop ==
    ASSUME TypeOK, CtlStop
    PROVE  /\ todo' = << >> /\ saved' = FALSE
           /\ channel' \in Seq(Events) /\ lost' \subseteq Events
           /\ \E k \in 0..Len(channel) : channel' = SubSeq(channel, 1, k)
<1>1. PICK k \in 0..Len(channel) :
          /\ channel' = SubSeq(channel, 1, k)
          /\ lost' = lost \cup Contents(SubSeq(channel, k + 1, Len(channel)))
  <2>1. PICK k \in (IF up THEN 0 ELSE Len(channel))..Len(channel) :
            /\ channel' = SubSeq(channel, 1, k)
            /\ lost' = lost \cup Contents(SubSeq(channel, k + 1, Len(channel)))
    BY DEF CtlStop
  <2>2. Len(channel) \in Nat
    BY LenProperties DEF TypeOK
  <2>3. k \in 0..Len(channel)
    BY <2>2
  <2> QED
    BY <2>1, <2>3
<1>2. channel \in Seq(Events) /\ lost \subseteq Events
  BY DEF TypeOK
<1>3. channel' \in Seq(Events) /\ Contents(SubSeq(channel, k + 1, Len(channel))) \subseteq Events
  BY <1>1, <1>2, PartOf, ContentsType
<1> QED
  BY <1>1, <1>2, <1>3 DEF CtlStop

\* The engine keeps the types.
LEMMA TypeEngine ==
    ASSUME TypeOK, Engine \/ EngCrash \/ EngBoot
    PROVE  TypeOK'
<1> USE DEF ctl, eng, bounds, history
<1>1. CASE DropMalformed \/ Skip \/ Admit
  <2>1. Head(channel) \in Events /\ channel' \in Seq(Events)
    BY <1>1, HeadTailProperties DEF DropMalformed, Skip, Admit, Recv, TypeOK
  <2>2. CASE Skip
    <3>1. [ev |-> Head(channel), committed |-> committed] \in Skips
      BY <2>1 DEF Skips, TypeOK
    <3> QED
      BY <2>1, <2>2, <3>1 DEF Skip, Recv, TypeOK
  <2>3. CASE Admit
    BY <2>1, <2>3 DEF Admit, Recv, TypeOK
  <2>4. CASE DropMalformed
    BY <2>1, <2>4 DEF DropMalformed, Recv, TypeOK
  <2> QED
    BY <1>1, <2>2, <2>3, <2>4
<1>2. CASE EmitAlert
  BY <1>2 DEF EmitAlert, TypeOK
<1>3. CASE WriteEvent
  <2>1. log' \in Seq(Events)
    BY <1>3, AppendProperties DEF WriteEvent, TypeOK
  <2>2. straddled' \in BOOLEAN
    BY <1>3 DEF WriteEvent, Straddle
  <2>3. committed' \in Nat
    BY <1>3 DEF WriteEvent, TypeOK, Events
  <2> QED
    BY <1>3, <2>1, <2>2, <2>3 DEF WriteEvent, TypeOK
<1>4. CASE PipelineError
  BY <1>4 DEF PipelineError, TypeOK
<1>5. CASE Advance
  <2>1. straddled' \in BOOLEAN
    BY <1>5 DEF Advance, Straddle
  <2>2. lastOffset' \in Nat
    BY <1>5 DEF Advance, TypeOK, Events
  <2> QED
    BY <1>5, <2>1, <2>2 DEF Advance, TypeOK
<1>6. CASE EngCrash
  <2>1. PICK k \in 0..Len(channel) :
            /\ channel' = SubSeq(channel, k + 1, Len(channel))
            /\ lost' = lost \cup Contents(SubSeq(channel, 1, k))
                            \cup (IF pc \in {"alert", "write"} THEN {hand} ELSE {})
    BY <1>6 DEF EngCrash
  <2>2. channel \in Seq(Events) /\ lost \subseteq Events /\ hand \in Events
    BY DEF TypeOK
  <2>3. channel' \in Seq(Events) /\ Contents(SubSeq(channel, 1, k)) \subseteq Events
    BY <2>1, <2>2, PartOf, ContentsType
  <2>4. lost' \subseteq Events
    BY <2>1, <2>2, <2>3
  <2>5. /\ engCrashes' = engCrashes + 1 /\ pc' = "down" /\ cmd' = "idle"
        /\ UNCHANGED <<ctl, hand, lastOffset, committed, ctlCrashes, resets, gen, sentTop,
                       log, skipped, straddled>>
    BY <1>6 DEF EngCrash
  <2> QED
    BY <2>3, <2>4, <2>5 DEF TypeOK
<1>7. CASE EngBoot
  BY <1>7 DEF EngBoot, Resume, TypeOK
<1> QED
  BY <1>1, <1>2, <1>3, <1>4, <1>5, <1>6, <1>7 DEF Engine

\* Every step keeps the types.
LEMMA TypeNext == TypeOK /\ [Next]_vars => TypeOK'
<1> SUFFICES ASSUME TypeOK, [Next]_vars PROVE TypeOK'
  OBVIOUS
<1> USE DEF ctl, eng, bounds, history
<1>1. CASE UNCHANGED vars
  BY <1>1 DEF TypeOK, vars
<1>2. CASE CtlCrash
  <2>1. /\ ctlCrashes' = ctlCrashes + 1
        /\ UNCHANGED <<offset, cmd, engCrashes, resets, gen>> /\ up' = FALSE
        /\ UNCHANGED <<file, rx, eng, sentTop, log, skipped, straddled>>
    BY <1>2 DEF CtlCrash, CtlStop
  <2>2. /\ todo' = << >> /\ saved' = FALSE
        /\ channel' \in Seq(Events) /\ lost' \subseteq Events
    BY <1>2, TypeStop DEF CtlCrash
  <2>3. {up', saved'} \subseteq BOOLEAN /\ todo' \in Seq(Emissions)
    BY <2>1, <2>2, EmptySeq
  <2> QED
    BY <2>1, <2>2, <2>3 DEF TypeOK
<1>3. CASE Reset
  <2>1. CASE ResetTables
    BY <2>1 DEF ResetTables, TypeOK
  <2>2. CASE ResetMemory
    BY <2>2 DEF ResetMemory, TypeOK
  <2>3. CASE ResetFile
    BY <2>3 DEF ResetFile, TypeOK
  <2>4. CASE ResetController
    <3>1. /\ gen' \in {gen, resets} /\ offset' \in {offset, file} /\ cmd' = "idle"
          /\ UNCHANGED <<ctlCrashes, engCrashes, resets>> /\ up' \in BOOLEAN
          /\ UNCHANGED <<file, rx, eng, sentTop, log, skipped, straddled>>
      BY <2>4 DEF ResetController, CtlStop, LoadOffset
    <3>2. /\ todo' = << >> /\ saved' = FALSE
          /\ channel' \in Seq(Events) /\ lost' \subseteq Events
      BY <2>4, TypeStop DEF ResetController
    <3>3. {up', saved'} \subseteq BOOLEAN /\ todo' \in Seq(Emissions)
      BY <3>1, <3>2, EmptySeq
    <3> QED
      BY <3>1, <3>2, <3>3 DEF TypeOK
  <2>5. CASE ResetFails
    BY <2>5 DEF ResetFails, TypeOK
  <2> QED
    BY <1>3, <2>1, <2>2, <2>3, <2>4, <2>5 DEF Reset
<1>4. CASE CtlBoot
  BY <1>4 DEF CtlBoot, LoadOffset, TypeOK
<1> QED
  BY <1>1, <1>2, <1>3, <1>4, TypeController, TypeEngine DEF Next

\* Both ends of the numbering keep the types of what they number and count (controller.py,
\* engine.py, cmd_server.py).
THEOREM LinkTypeCorrect == Spec => []TypeOK
BY TypeInit, TypeNext, PTL DEF Spec

------------------------------------------------------------------------------
(* The order of the events.                                                  *)

\* The place of an event among those of its message.
Rank(kind) == CASE kind = "FLOOD_ATTACK" -> 0
                [] kind = "TELEMETRY" -> 2
                [] OTHER -> 1

\* The numbering the controller uses is the one the engine filters by: no reset is under
\* way, or the one that is has not come to the filter yet.
Live == gen = resets \/ (cmd = "memory" /\ gen + 1 = resets)

\* e has a higher offset than f, or f is the flood alert about its message.
Lower(f, e) ==
    f.off < e.off \/ (f.off = e.off /\ f.rx = e.rx /\ f.kind = "FLOOD_ATTACK")

\* f was made before e: by an earlier message or earlier for the same one, in an earlier
\* generation or, while that is live, with a lower offset.
Before(f, e) ==
    /\ f.gen <= e.gen
    /\ f.rx < e.rx \/ (f.rx = e.rx /\ Rank(f.kind) < Rank(e.kind))
    /\ Live /\ f.gen = gen => Lower(f, e)

\* The event the k-th emission in hand will be.
Due(k) == [kind |-> todo[k].kind, off |-> todo[k].off, rx |-> rx, gen |-> gen]

\* e has been sent: the controller's counter and file have reached its offset, what is due
\* comes after it.
Past(e) ==
    /\ e.gen <= gen /\ e.rx <= rx /\ e.off >= 1
    /\ Live /\ e.gen = gen => e.off <= file /\ e.off <= offset
    /\ \A k \in 1..Len(todo) : Before(e, Due(k))

\* The engine holds an event that is neither recorded nor given up.
InHand == pc \in {"alert", "write"}

\* The log, the event in hand and the channel are one line of events in order.
Aligned ==
    /\ \A i, j \in 1..Len(log) : i < j => Before(log[i], log[j])
    /\ \A i, j \in 1..Len(channel) : i < j => Before(channel[i], channel[j])
    /\ \A i \in 1..Len(log), j \in 1..Len(channel) : Before(log[i], channel[j])
    /\ InHand => /\ Past(hand)
                 /\ \A i \in 1..Len(log) : Before(log[i], hand)
                 /\ \A j \in 1..Len(channel) : Before(hand, channel[j])
    /\ \A i \in 1..Len(log) : Past(log[i])
    /\ \A j \in 1..Len(channel) : Past(channel[j])

\* What is due is in order, counted, and saved as far as it is.
Planned ==
    /\ \A k \in 1..Len(todo) : /\ 1 <= todo[k].off /\ todo[k].off <= todo[k].save
                               /\ todo[k].save <= offset
    /\ \A k, l \in 1..Len(todo) : k < l => Before(Due(k), Due(l))
    /\ saved => todo # << >> /\ (Live => todo[1].save <= file)
    /\ ~up => todo = << >>

\* The controller is restarted once per reset at most, and not before its end.
Generations == gen <= resets /\ (cmd # "idle" => gen < resets)

\* At first there is nothing.
LEMMA OrderInit == Init => Aligned /\ Planned /\ Generations
<1> SUFFICES ASSUME Init PROVE Aligned /\ Planned /\ Generations
  OBVIOUS
<1>1. /\ log = << >> /\ channel = << >> /\ todo = << >> /\ Len(<< >>) = 0
      /\ ~InHand /\ gen = 0 /\ resets = 0 /\ cmd = "idle" /\ ~saved
  BY EmptySeq DEF Init, InHand
<1> QED
  BY <1>1 DEF Aligned, Planned, Generations

\* Resets begin and end one at a time.
LEMMA GenerationsNext == TypeOK /\ Generations /\ [Next]_vars => Generations'
<1> SUFFICES ASSUME TypeOK, Generations, [Next]_vars PROVE Generations'
  OBVIOUS
<1>1. gen \in Nat /\ resets \in Nat
  BY DEF TypeOK
<1>2. CASE ResetTables
  BY <1>1, <1>2 DEF ResetTables, Generations
<1>3. CASE ResetMemory \/ ResetFile
  BY <1>1, <1>3 DEF ResetMemory, ResetFile, Generations, bounds
<1>4. CASE ResetController
  BY <1>1, <1>4 DEF ResetController, Generations
<1>5. CASE EngCrash \/ ResetFails
  BY <1>1, <1>5 DEF EngCrash, ResetFails, Generations, bounds
<1>6. CASE UNCHANGED <<gen, resets, cmd>>
  BY <1>6 DEF Generations
<1>7. \/ ResetTables \/ ResetMemory \/ ResetFile \/ ResetController \/ EngCrash
      \/ ResetFails \/ UNCHANGED <<gen, resets, cmd>>
  BY DEF Next, vars, bounds, Controller, GateReject, GateAccept, CtlSave, CtlSend, CtlCrash,
         CtlBoot, Engine, DropMalformed, Skip, Admit, Recv, EmitAlert, WriteEvent,
         PipelineError, Advance, EngBoot, Reset
<1> QED
  BY <1>2, <1>3, <1>4, <1>5, <1>6, <1>7

\* A generation stays live or ends; a new one begins with the restart of the controller.
LEMMA LiveNext ==
    ASSUME TypeOK, Generations, [Next]_vars
    PROVE  \/ gen' = gen /\ (Live' => Live)
           \/ gen' \in Nat /\ gen < gen' /\ ResetController
<1>1. gen \in Nat /\ resets \in Nat
  BY DEF TypeOK
<1>2. CASE ResetTables
  BY <1>1, <1>2 DEF ResetTables, Generations, Live
<1>3. CASE ResetMemory \/ ResetFile
  BY <1>1, <1>3 DEF ResetMemory, ResetFile, Generations, Live, bounds
<1>4. CASE ResetController
  <2>1. /\ gen < resets /\ cmd = "restart" /\ cmd' = "idle" /\ resets' = resets
        /\ gen' = gen \/ gen' = resets
    BY <1>1, <1>4 DEF ResetController, Generations
  <2> QED
    BY <1>1, <1>4, <2>1 DEF Live
<1>5. CASE EngCrash \/ ResetFails
  BY <1>1, <1>5 DEF EngCrash, ResetFails, Generations, Live, bounds
<1>6. CASE UNCHANGED <<gen, resets, cmd>>
  BY <1>6 DEF Live
<1>7. \/ ResetTables \/ ResetMemory \/ ResetFile \/ ResetController \/ EngCrash
      \/ ResetFails \/ UNCHANGED <<gen, resets, cmd>>
  BY DEF Next, vars, bounds, Controller, GateReject, GateAccept, CtlSave, CtlSend, CtlCrash,
         CtlBoot, Engine, DropMalformed, Skip, Admit, Recv, EmitAlert, WriteEvent,
         PipelineError, Advance, EngBoot, Reset
<1> QED
  BY <1>2, <1>3, <1>4, <1>5, <1>6, <1>7

\* So what came before something still does.
LEMMA BeforeNext ==
    ASSUME TypeOK, Generations, [Next]_vars, NEW f \in Events, NEW e \in Events,
           f.gen <= gen, Before(f, e)
    PROVE  Before(f, e)'
<1>1. gen \in Nat /\ f.gen \in Nat
  BY DEF TypeOK, Events
<1>2. CASE gen' = gen /\ (Live' => Live)
  BY <1>2 DEF Before
<1>3. CASE gen' \in Nat /\ gen < gen'
  <2>1. f.gen # gen'
    BY <1>1, <1>3
  <2> QED
    BY <2>1 DEF Before
<1> QED
  BY <1>2, <1>3, LiveNext

\* A step that only takes events off the line, from the end or the beginning of the channel
\* or out of the engine's hand, keeps it in order.
LEMMA AlignedShorter ==
    ASSUME TypeOK, Generations, Aligned, [Next]_vars,
           log' = log,
           NEW d \in Nat,
           \A j \in 1..Len(channel') : j + d \in 1..Len(channel) /\ channel'[j] = channel[j + d],
           InHand' => InHand /\ hand' = hand,
           \A e \in Events : Past(e) => Past(e)'
    PROVE  Aligned'
<1>1. /\ \A i \in 1..Len(log) : log[i] \in Events /\ Past(log[i]) /\ log[i].gen <= gen
      /\ \A j \in 1..Len(channel) : /\ channel[j] \in Events /\ Past(channel[j])
                                    /\ channel[j].gen <= gen
      /\ InHand => hand \in Events /\ Past(hand) /\ hand.gen <= gen
  BY ElementOfSeq DEF TypeOK, Aligned, Past
<1>2. \A f, e \in Events : f.gen <= gen /\ Before(f, e) => Before(f, e)'
  BY BeforeNext
<1>3. (\A i, j \in 1..Len(log) : i < j => Before(log[i], log[j]))'
  BY <1>1, <1>2 DEF Aligned
<1>4. ASSUME NEW i \in 1..Len(channel'), NEW j \in 1..Len(channel'), i < j
      PROVE  Before(channel[i], channel[j])'
  <2>1. /\ i + d \in 1..Len(channel) /\ j + d \in 1..Len(channel) /\ i + d < j + d
        /\ channel'[i] = channel[i + d] /\ channel'[j] = channel[j + d]
    BY <1>4
  <2>2. PICK f \in Events, e \in Events : f = channel[i + d] /\ e = channel[j + d]
    BY <1>1, <2>1
  <2>3. Before(f, e) /\ f.gen <= gen
    BY <1>1, <2>1, <2>2 DEF Aligned
  <2>4. Before(f, e)'
    BY <1>2, <2>3
  <2> QED
    BY <2>1, <2>2, <2>4
<1>5. ASSUME NEW i \in 1..Len(log), NEW j \in 1..Len(channel')
      PROVE  Before(log[i], channel[j])'
  <2>1. j + d \in 1..Len(channel) /\ channel'[j] = channel[j + d] /\ log'[i] = log[i]
    OBVIOUS
  <2>2. PICK f \in Events, e \in Events : f = log[i] /\ e = channel[j + d]
    BY <1>1, <2>1
  <2>3. Before(f, e) /\ f.gen <= gen
    BY <1>1, <2>1, <2>2 DEF Aligned
  <2>4. Before(f, e)'
    BY <1>2, <2>3
  <2> QED
    BY <2>1, <2>2, <2>4
<1>6. ASSUME InHand'
      PROVE  /\ Past(hand)'
             /\ \A i \in 1..Len(log') : Before(log[i], hand)'
             /\ \A j \in 1..Len(channel') : Before(hand, channel[j])'
  <2>1. InHand /\ hand' = hand /\ Past(hand) /\ hand \in Events
    BY <1>1, <1>6
  <2>2. Past(hand)'
    BY <2>1
  <2>3. ASSUME NEW i \in 1..Len(log) PROVE Before(log[i], hand)'
    BY <1>1, <1>2, <2>1 DEF Aligned
  <2>4. ASSUME NEW j \in 1..Len(channel') PROVE Before(hand, channel[j])'
    <3>1. Before(hand, channel[j + d])
      BY <2>1 DEF Aligned
    <3> QED
      BY <1>1, <1>2, <2>1, <3>1
  <2> QED
    BY <2>2, <2>3, <2>4
<1>7. \A i \in 1..Len(log') : Past(log[i])'
  BY <1>1
<1>8. \A j \in 1..Len(channel') : Past(channel[j])'
  BY <1>1
<1> QED
  BY <1>3, <1>4, <1>5, <1>6, <1>7, <1>8 DEF Aligned

\* The plan for an accepted message is in the order of the ranks.
LEMMA PlanRanked ==
    ASSUME NEW o \in Nat, NEW remarks \in Remarks
    PROVE  LET p == AcceptPlan(remarks, o)
           IN  /\ \A k \in 1..Len(p) : p[k].kind \in Kinds
               /\ \A k, l \in 1..Len(p) : k < l => Rank(p[k].kind) < Rank(p[l].kind)
<1> DEFINE p == AcceptPlan(remarks, o)
<1>1. \A k \in 1..Len(p) :
          /\ p[k].kind \in {"FLOOD_ATTACK", "NODE_IMPERSONATION", "TELEMETRY"}
          /\ p[k].kind = "TELEMETRY" <=> k = Len(p)
          /\ p[k].kind = "FLOOD_ATTACK" => k = 1
          /\ p[k].kind = "NODE_IMPERSONATION" => k + 1 = Len(p)
  BY AcceptPlanKinds
<1>2. Len(p) \in Nat
  BY AcceptPlanNumbers, LenProperties
<1> HIDE DEF p
<1>3. /\ Rank("FLOOD_ATTACK") = 0 /\ Rank("NODE_IMPERSONATION") = 1 /\ Rank("TELEMETRY") = 2
      /\ {"FLOOD_ATTACK", "NODE_IMPERSONATION", "TELEMETRY"} \subseteq Kinds
  BY DEF Rank, Kinds, AlertKinds
<1>4. ASSUME NEW k \in 1..Len(p), NEW l \in 1..Len(p), k < l
      PROVE  Rank(p[k].kind) < Rank(p[l].kind)
  <2>1. CASE p[k].kind = "FLOOD_ATTACK"
    <3>1. p[l].kind # "FLOOD_ATTACK"
      BY <1>1, <1>2, <1>4, <2>1
    <3> QED
      BY <1>1, <1>3, <2>1, <3>1
  <2>2. CASE p[k].kind = "NODE_IMPERSONATION"
    <3>1. p[l].kind = "TELEMETRY"
      BY <1>1, <1>2, <1>4, <2>2
    <3> QED
      BY <1>3, <2>2, <3>1
  <2>3. p[k].kind # "TELEMETRY"
    BY <1>1, <1>2, <1>4
  <2> QED
    BY <1>1, <2>1, <2>2, <2>3
<1> QED
  BY <1>1, <1>3, <1>4 DEF p

\* Nothing precedes itself: the kinds of a message's events differ.
LEMMA RankDiffers ==
    \A k, l \in Kinds : /\ Rank(k) \in Nat
                        /\ Rank(k) < Rank(l) => k # l
BY DEF Rank, Kinds, AlertKinds

\* What is due becomes an event.
LEMMA DueType ==
    ASSUME TypeOK
    PROVE  \A k \in 1..Len(todo) : todo[k] \in Emissions /\ Due(k) \in Events
<1>1. \A k \in 1..Len(todo) : todo[k] \in Emissions
  BY ElementOfSeq DEF TypeOK
<1>2. rx \in Nat /\ gen \in Nat
  BY DEF TypeOK
<1> QED
  BY <1>1, <1>2 DEF Due, Events, Emissions

\* What the gate does with any message: a plan in order, numbered above the old offset and
\* up to the new one.
LEMMA GateShape ==
    ASSUME TypeOK, GateReject \/ GateAccept
    PROVE  /\ todo = << >>
           /\ rx' = rx + 1 /\ offset + 1 <= offset'
           /\ UNCHANGED <<up, file, saved, channel, eng, cmd, bounds, history>>
           /\ \A k \in 1..Len(todo') :
                  /\ todo'[k].kind \in Kinds /\ offset + 1 <= todo'[k].off
                  /\ todo'[k].off <= todo'[k].save /\ todo'[k].save <= offset'
           /\ \A k, l \in 1..Len(todo') : k < l =>
                  /\ Rank(todo'[k].kind) < Rank(todo'[l].kind)
                  /\ todo'[k].off < todo'[l].off
                        \/ (todo'[k].off = todo'[l].off /\ todo'[k].kind = "FLOOD_ATTACK")
<1>1. offset + 1 \in Nat
  BY DEF TypeOK
<1>2. CASE GateReject
  <2>1. PICK kind \in Rejections : todo' = RejectPlan(kind, offset + 1)
    BY <1>2, LinkAssumption DEF GateReject
  <2>2. /\ Len(todo') = 1 /\ todo'[1] = Emission(kind, offset + 1, offset + 1)
        /\ kind \in Kinds
    BY <2>1 DEF RejectPlan, Rejections, Kinds, AlertKinds
  <2>3. /\ todo'[1].kind = kind /\ todo'[1].off = offset + 1 /\ todo'[1].save = offset + 1
        /\ offset' = offset + 1
    BY <1>2, <2>2 DEF Emission, GateReject
  <2> QED
    BY <1>1, <1>2, <2>2, <2>3 DEF GateReject
<1>3. CASE GateAccept
  <2> DEFINE o == offset + 1
  <2>1. PICK remarks \in Remarks : /\ todo' = AcceptPlan(remarks, o)
                                   /\ offset' = ForwardOffset(remarks, o)
    BY <1>3, LinkAssumption DEF GateAccept
  <2>2. /\ offset' \in Nat /\ o <= offset'
        /\ \A k \in 1..Len(todo') : /\ todo'[k].kind \in Kinds /\ o <= todo'[k].off
                                    /\ todo'[k].off <= todo'[k].save
                                    /\ todo'[k].save <= offset'
        /\ \A k, l \in 1..Len(todo') : k < l =>
               /\ Rank(todo'[k].kind) < Rank(todo'[l].kind)
               /\ todo'[k].off < todo'[l].off
                      \/ (todo'[k].off = todo'[l].off /\ todo'[k].kind = "FLOOD_ATTACK")
    <3>1. o \in Nat
      BY <1>1
    <3> HIDE DEF o
    <3>2. LET p == AcceptPlan(remarks, o)
              f == ForwardOffset(remarks, o)
          IN  /\ f \in Nat /\ o <= f
              /\ \A k \in 1..Len(p) : /\ o <= p[k].off /\ p[k].off <= p[k].save
                                      /\ p[k].save <= f
              /\ \A k, l \in 1..Len(p) : k < l =>
                     p[k].off < p[l].off
                         \/ (p[k].off = p[l].off /\ p[k].kind = "FLOOD_ATTACK")
      BY <3>1, AcceptPlanNumbers
    <3>3. LET p == AcceptPlan(remarks, o)
          IN  /\ \A k \in 1..Len(p) : p[k].kind \in Kinds
              /\ \A k, l \in 1..Len(p) : k < l => Rank(p[k].kind) < Rank(p[l].kind)
      BY <3>1, PlanRanked
    <3> QED
      BY <2>1, <3>2, <3>3
  <2> QED
    BY <1>3, <2>2 DEF GateAccept
<1> QED
  BY <1>2, <1>3

\* What is past stays past, whatever happens.
LEMMA PastNext ==
    ASSUME TypeOK, Generations, Planned, [Next]_vars, NEW e \in Events, Past(e)
    PROVE  Past(e)'
<1>1. /\ {file, offset, rx, gen, resets} \subseteq Nat /\ todo \in Seq(Emissions)
      /\ {e.gen, e.rx, e.off} \subseteq Nat /\ Len(todo) \in Nat
  BY LenProperties DEF TypeOK, Events
<1>2. \A k \in 1..Len(todo) : Due(k) \in Events /\ todo[k] \in Emissions
  BY DueType
<1>3. \A d \in Events : Before(e, d) => Before(e, d)'
  BY BeforeNext DEF Past
<1>4. /\ e.gen <= gen /\ e.rx <= rx /\ e.off >= 1
      /\ Live /\ e.gen = gen => e.off <= file /\ e.off <= offset
      /\ \A k \in 1..Len(todo) : Before(e, Due(k))
  BY DEF Past
<1>5. CASE UNCHANGED <<file, offset, todo, rx>> /\ gen' = gen
  <2>1. Live' => Live
    BY <1>1, <1>5, LiveNext
  <2>2. ASSUME NEW k \in 1..Len(todo') PROVE Before(e, Due(k))'
    <3>1. PICK d \in Events : d = Due(k)
      BY <1>2, <1>5
    <3>2. Before(e, d)' /\ Due(k)' = d
      BY <1>3, <1>4, <1>5, <3>1 DEF Due
    <3> QED
      BY <3>2
  <2> QED
    BY <1>4, <1>5, <2>1, <2>2 DEF Past
<1>6. CASE CtlSave
  <2>1. /\ todo # << >> /\ file' = todo[1].save
        /\ UNCHANGED <<offset, todo, rx, gen, resets, cmd>>
    BY <1>6 DEF CtlSave, bounds
  <2>2. 1 \in 1..Len(todo)
    BY <1>1, <2>1, EmptySeq
  <2>3. Live /\ e.gen = gen => e.off <= todo[1].off
    <3>1. Before(e, Due(1)) /\ todo[1].off \in Nat
      BY <1>2, <1>4, <2>2 DEF Emissions
    <3>2. Due(1).off = todo[1].off /\ Due(1).gen = gen
      BY DEF Due
    <3> QED
      BY <1>1, <3>1, <3>2 DEF Before, Lower
  <2>4. Live' /\ e.gen = gen' => e.off <= file' /\ e.off <= offset'
    BY <1>1, <1>2, <1>4, <2>1, <2>2, <2>3 DEF Planned, Live, Emissions
  <2>5. ASSUME NEW k \in 1..Len(todo') PROVE Before(e, Due(k))'
    <3>1. PICK d \in Events : d = Due(k)
      BY <1>2, <2>1
    <3>2. Before(e, d)' /\ Due(k)' = d
      BY <1>3, <1>4, <2>1, <3>1 DEF Due
    <3> QED
      BY <3>2
  <2> QED
    BY <1>4, <2>1, <2>4, <2>5 DEF Past
<1>7. CASE CtlSend
  <2>1. /\ todo # << >> /\ todo' = Tail(todo)
        /\ UNCHANGED <<file, offset, rx, gen, resets, cmd>>
    BY <1>7 DEF CtlSend, bounds
  <2>2. /\ Len(todo') = Len(todo) - 1
        /\ \A k \in 1..Len(todo') : todo'[k] = todo[k + 1] /\ k + 1 \in 1..Len(todo)
    BY <1>1, <2>1, HeadTailProperties
  <2>3. ASSUME NEW k \in 1..Len(todo') PROVE Before(e, Due(k))'
    <3>1. PICK d \in Events : d = Due(k + 1) /\ Before(e, d)
      BY <1>2, <1>4, <2>2
    <3>2. Before(e, d)' /\ Due(k)' = d
      BY <1>3, <2>1, <2>2, <3>1 DEF Due
    <3> QED
      BY <3>2
  <2> QED
    BY <1>4, <2>1, <2>3 DEF Past, Live
<1>8. CASE CtlCrash \/ ResetController
  <2>1. /\ offset' \in {offset, file} /\ file' = file /\ todo' = << >> /\ rx' = rx
        /\ Len(<< >>) = 0
    BY <1>8 DEF CtlCrash, ResetController, CtlStop, LoadOffset
  <2>2. gen' \in Nat /\ gen <= gen' /\ (Live' /\ e.gen = gen' => Live /\ e.gen = gen)
    BY <1>1, <1>4, LiveNext
  <2> QED
    BY <1>1, <1>4, <2>1, <2>2 DEF Past
<1>9. CASE ResetFile
  <2>1. ~Live' /\ UNCHANGED <<offset, todo, rx, gen>>
    BY <1>1, <1>9 DEF ResetFile, Live, Generations, bounds
  <2>2. ASSUME NEW k \in 1..Len(todo') PROVE Before(e, Due(k))'
    <3>1. PICK d \in Events : d = Due(k)
      BY <1>2, <2>1
    <3>2. Before(e, d)' /\ Due(k)' = d
      BY <1>3, <1>4, <2>1, <3>1 DEF Due
    <3> QED
      BY <3>2
  <2> QED
    BY <1>4, <2>1, <2>2 DEF Past
<1>10. CASE GateReject \/ GateAccept
  <2>1. /\ rx' = rx + 1 /\ offset + 1 <= offset'
        /\ UNCHANGED <<file, gen, resets, cmd>>
        /\ \A k \in 1..Len(todo') : offset + 1 <= todo'[k].off
    BY <1>10, GateShape DEF bounds
  <2>2. offset' \in Nat /\ todo' \in Seq(Emissions)
    BY TypeNext DEF TypeOK
  <2>3. ASSUME NEW k \in 1..Len(todo') PROVE Before(e, Due(k))'
    <3>1. todo'[k] \in Emissions
      BY <2>2, ElementOfSeq
    <3>2. /\ Due(k)'.off = todo'[k].off /\ Due(k)'.rx = rx + 1 /\ Due(k)'.gen = gen
          /\ gen' = gen
      BY <2>1 DEF Due
    <3>3. e.rx < rx + 1 /\ e.gen <= gen
      BY <1>1, <1>4
    <3>4. Live' /\ e.gen = gen => e.off < todo'[k].off
      <4>1. todo'[k].off \in Nat /\ offset + 1 <= todo'[k].off
        BY <2>1, <3>1 DEF Emissions
      <4>2. Live' => Live
        BY <2>1 DEF Live
      <4> QED
        BY <1>1, <1>4, <4>1, <4>2
    <3> QED
      BY <1>1, <3>2, <3>3, <3>4 DEF Before, Lower
  <2>4. Live' /\ e.gen = gen' => e.off <= file' /\ e.off <= offset'
    BY <1>1, <1>4, <2>1, <2>2 DEF Live
  <2> QED
    BY <1>1, <1>4, <2>1, <2>3, <2>4 DEF Past
<1>11. CASE CtlBoot
  <2>1. offset' = file /\ UNCHANGED <<file, todo, rx, gen, resets, cmd>>
    BY <1>11 DEF CtlBoot, LoadOffset, bounds
  <2>2. ASSUME NEW k \in 1..Len(todo') PROVE Before(e, Due(k))'
    <3>1. PICK d \in Events : d = Due(k) /\ Before(e, d)
      BY <1>2, <1>4, <2>1
    <3>2. Before(e, d)' /\ Due(k)' = d
      BY <1>3, <2>1, <3>1 DEF Due
    <3> QED
      BY <3>2
  <2> QED
    BY <1>4, <2>1, <2>2 DEF Past, Live
<1>12. \/ GateReject \/ GateAccept \/ CtlSave \/ CtlSend \/ CtlCrash \/ ResetController
       \/ ResetFile \/ CtlBoot \/ (UNCHANGED <<file, offset, todo, rx>> /\ gen' = gen)
  BY DEF Next, vars, ctl, bounds, Controller, Engine, DropMalformed, Skip, Admit, Recv,
         EmitAlert, WriteEvent, PipelineError, Advance, EngCrash, EngBoot, Reset, ResetTables,
         ResetMemory, ResetFails
<1> QED
  BY <1>5, <1>6, <1>7, <1>8, <1>9, <1>10, <1>11, <1>12

\* The plan stays one.
LEMMA PlannedNext ==
    ASSUME TypeOK, Generations, Planned, [Next]_vars
    PROVE  Planned'
<1>1. /\ {file, offset, rx, gen, resets} \subseteq Nat /\ todo \in Seq(Emissions)
      /\ Len(todo) \in Nat
  BY LenProperties DEF TypeOK
<1>2. \A k \in 1..Len(todo) : Due(k) \in Events /\ todo[k] \in Emissions
  BY DueType
<1>3. \A f, e \in Events : f.gen <= gen /\ Before(f, e) => Before(f, e)'
  BY BeforeNext
<1>4. /\ \A k \in 1..Len(todo) : /\ 1 <= todo[k].off /\ todo[k].off <= todo[k].save
                                 /\ todo[k].save <= offset
      /\ \A k, l \in 1..Len(todo) : k < l => Before(Due(k), Due(l))
      /\ saved => todo # << >> /\ (Live => todo[1].save <= file)
      /\ ~up => todo = << >>
  BY DEF Planned
<1>5. \A k \in 1..Len(todo) : Due(k).gen <= gen
  BY <1>1 DEF Due
<1>6. ASSUME NEW d \in Nat, rx' = rx, gen' = gen, NEW k \in 1..Len(todo'), NEW l \in 1..Len(todo'),
             \A i \in 1..Len(todo') : i + d \in 1..Len(todo) /\ todo'[i] = todo[i + d],
             k < l
      PROVE  Before(Due(k), Due(l))'
  <2>1. k + d \in 1..Len(todo) /\ l + d \in 1..Len(todo) /\ k + d < l + d
    BY <1>6
  <2>2. PICK f \in Events, e \in Events : f = Due(k + d) /\ e = Due(l + d)
    BY <1>2, <2>1
  <2>3. Before(f, e) /\ f.gen <= gen
    BY <1>4, <1>5, <2>1, <2>2
  <2>4. Before(f, e)'
    BY <1>3, <2>3
  <2>5. Due(k)' = f /\ Due(l)' = e
    BY <1>6, <2>2 DEF Due
  <2> QED
    BY <2>4, <2>5
<1>7. CASE UNCHANGED <<todo, rx, gen, offset>> /\ (Live' /\ saved' => todo[1].save <= file')
           /\ (saved' => todo # << >>) /\ up' = up
  <2>1. ASSUME NEW k \in 1..Len(todo'), NEW l \in 1..Len(todo'), k < l
        PROVE  Before(Due(k), Due(l))'
    BY <1>1, <1>6, <1>7, <2>1, 0 \in Nat
  <2> QED
    BY <1>4, <1>7, <2>1 DEF Planned
<1>8. CASE UNCHANGED <<up, file, offset, todo, rx, saved>> /\ gen' = gen
  <2>1. Live' => Live
    BY <1>1, <1>8, LiveNext
  <2> QED
    BY <1>4, <1>7, <1>8, <2>1
<1>9. CASE CtlSave
  <2>1. /\ todo # << >> /\ file' = todo[1].save /\ UNCHANGED <<up, offset, todo, rx, gen>>
    BY <1>9 DEF CtlSave, bounds
  <2>2. 1 \in 1..Len(todo)
    BY <1>1, <2>1, EmptySeq
  <2>3. todo[1].save \in Nat
    BY <1>2, <2>2 DEF Emissions
  <2> QED
    BY <1>7, <2>1, <2>3
<1>10. CASE CtlSend
  <2>1. /\ todo # << >> /\ todo' = Tail(todo) /\ saved' = FALSE
        /\ UNCHANGED <<up, file, offset, rx, gen>>
    BY <1>10 DEF CtlSend, bounds
  <2>2. \A k \in 1..Len(todo') : k + 1 \in 1..Len(todo) /\ todo'[k] = todo[k + 1]
    BY <1>1, <2>1, HeadTailProperties
  <2>3. ASSUME NEW k \in 1..Len(todo'), NEW l \in 1..Len(todo'), k < l
        PROVE  Before(Due(k), Due(l))'
    BY <1>6, <2>1, <2>2, <2>3, 1 \in Nat
  <2>4. \A k \in 1..Len(todo') : /\ 1 <= todo'[k].off /\ todo'[k].off <= todo'[k].save
                                 /\ todo'[k].save <= offset'
    BY <1>4, <2>1, <2>2
  <2> QED
    BY <1>4, <2>1, <2>3, <2>4 DEF Planned
<1>11. CASE CtlCrash \/ ResetController
  <2>1. Len(todo') = 0 /\ todo' = << >> /\ ~saved'
    BY <1>11, EmptySeq DEF CtlCrash, ResetController, CtlStop
  <2> QED
    BY <2>1 DEF Planned
<1>12. CASE ResetFile
  <2>1. ~Live' /\ UNCHANGED <<up, offset, todo, saved, rx, gen>>
    BY <1>1, <1>12 DEF ResetFile, Live, Generations, bounds
  <2> QED
    BY <1>4, <1>7, <2>1
<1>13. CASE GateReject \/ GateAccept
  <2>1. /\ rx' \in Nat /\ gen' = gen /\ gen \in Nat /\ ~saved' /\ offset' \in Nat
        /\ todo' \in Seq(Emissions) /\ up'
    <3>1. up /\ up' = up /\ todo = << >> /\ saved' = saved /\ gen' = gen
      BY <1>13 DEF GateReject, GateAccept, bounds
    <3>2. rx' \in Nat /\ gen \in Nat /\ offset' \in Nat /\ todo' \in Seq(Emissions)
      BY <1>1, <1>13, TypeNext DEF TypeOK, Next, Controller
    <3> QED
      BY <1>4, <3>1, <3>2
  <2>2. /\ \A k \in 1..Len(todo') : /\ offset + 1 <= todo'[k].off
                                    /\ todo'[k].off <= todo'[k].save
                                    /\ todo'[k].save <= offset'
        /\ \A k, l \in 1..Len(todo') : k < l =>
               /\ Rank(todo'[k].kind) < Rank(todo'[l].kind)
               /\ todo'[k].off < todo'[l].off
                      \/ (todo'[k].off = todo'[l].off /\ todo'[k].kind = "FLOOD_ATTACK")
    BY <1>13, GateShape
  <2>3. \A k, l \in 1..Len(todo') : k < l => Before(Due(k), Due(l))'
    BY <2>1, <2>2 DEF Before, Lower, Due
  <2>4. \A k \in 1..Len(todo') : 1 <= todo'[k].off
    <3>1. \A k \in 1..Len(todo') : todo'[k] \in Emissions
      BY <2>1, ElementOfSeq
    <3> QED
      BY <1>1, <2>2, <3>1 DEF Emissions
  <2> QED
    BY <2>1, <2>2, <2>3, <2>4 DEF Planned
<1>14. CASE CtlBoot
  <2>1. todo' = << >> /\ Len(<< >>) = 0 /\ ~saved'
    BY <1>4, <1>14, EmptySeq DEF CtlBoot
  <2> QED
    BY <2>1 DEF Planned
<1>15. \/ GateReject \/ GateAccept \/ CtlSave \/ CtlSend \/ CtlCrash \/ ResetController
       \/ ResetFile \/ CtlBoot
       \/ UNCHANGED <<up, file, offset, todo, rx, saved>> /\ gen' = gen
  BY DEF Next, vars, ctl, bounds, Controller, Engine, DropMalformed, Skip, Admit, Recv,
         EmitAlert, WriteEvent, PipelineError, Advance, EngCrash, EngBoot, Reset, ResetTables,
         ResetMemory, ResetFails
<1> QED
  BY <1>8, <1>9, <1>10, <1>11, <1>12, <1>13, <1>14, <1>15

\* What an event in line is: typed, made, and past.
LEMMA InLine ==
    ASSUME TypeOK, Aligned
    PROVE  /\ Len(log) \in Nat /\ Len(channel) \in Nat
           /\ \A i \in 1..Len(log) : log[i] \in Events /\ Past(log[i]) /\ log[i].gen <= gen
           /\ \A j \in 1..Len(channel) : /\ channel[j] \in Events /\ Past(channel[j])
                                         /\ channel[j].gen <= gen
           /\ InHand => hand \in Events /\ Past(hand) /\ hand.gen <= gen
BY LenProperties, ElementOfSeq DEF TypeOK, Aligned, Past

\* An emission joins the end of the line.
LEMMA AlignedSend ==
    ASSUME TypeOK, Generations, Planned, Aligned, CtlSend
    PROVE  Aligned'
<1>1. /\ todo # << >> /\ saved
      /\ channel' = Append(channel, Due(1))
      /\ todo' = Tail(todo)
      /\ UNCHANGED <<file, offset, rx, log, pc, hand, gen, resets, cmd>>
  BY DEF CtlSend, Due, eng, bounds
<1>2. /\ todo \in Seq(Emissions) /\ channel \in Seq(Events)
      /\ {file, offset, rx, gen} \subseteq Nat
  BY DEF TypeOK
<1>3. /\ 1 \in 1..Len(todo)
      /\ \A k \in 1..Len(todo') : k + 1 \in 1..Len(todo) /\ todo'[k] = todo[k + 1]
  BY <1>1, <1>2, LenProperties, EmptySeq, HeadTailProperties
<1>4. PICK d \in Events : d = Due(1)
  BY <1>3, DueType
<1>5. /\ d.gen = gen /\ d.rx = rx /\ d.off = todo[1].off
      /\ todo[1].off \in Nat /\ todo[1].save \in Nat
  <2>1. todo[1] \in Emissions
    BY <1>3, DueType
  <2> QED
    BY <1>4, <2>1 DEF Due, Emissions
<1>6. [Next]_vars
  BY DEF Next, Controller
<1>7. \A f, e \in Events : f.gen <= gen /\ Before(f, e) => Before(f, e)'
  BY <1>6, BeforeNext
<1>8. \A e \in Events : Past(e) => Past(e)'
  BY <1>6, PastNext
<1>9. \A e \in Events : Past(e) => Before(e, d) /\ Before(e, d)'
  BY <1>3, <1>4, <1>7 DEF Past
<1>10. Past(d)'
  <2>1. Live' => d.off <= file /\ d.off <= offset
    BY <1>1, <1>2, <1>3, <1>5 DEF Planned, Live
  <2>2. d.off >= 1
    BY <1>3, <1>5 DEF Planned
  <2>3. ASSUME NEW k \in 1..Len(todo') PROVE Before(d, Due(k))'
    <3>1. PICK e \in Events : e = Due(k + 1)
      BY <1>3, DueType
    <3>2. Before(d, e)
      <4>1. k + 1 \in 1..Len(todo) /\ 1 < k + 1
        BY <1>3
      <4> QED
        BY <1>3, <1>4, <3>1, <4>1 DEF Planned
    <3>3. Before(d, e)'
      BY <1>2, <1>5, <1>7, <3>2
    <3>4. Due(k)' = e
      BY <1>1, <1>3, <3>1 DEF Due
    <3> QED
      BY <3>3, <3>4
  <2> QED
    BY <1>1, <1>2, <1>5, <2>1, <2>2, <2>3 DEF Past
<1>11. /\ Len(channel') = Len(channel) + 1 /\ channel'[Len(channel) + 1] = d
       /\ \A j \in 1..Len(channel) : channel'[j] = channel[j]
       /\ Len(channel) \in Nat
  BY <1>1, <1>2, <1>4, AppendProperties, LenProperties
<1>12. (\A i, j \in 1..Len(log) : i < j => Before(log[i], log[j]))'
  BY <1>1, <1>7, InLine DEF Aligned
<1>13. ASSUME NEW j \in 1..Len(channel')
       PROVE  \/ j = Len(channel) + 1 /\ channel'[j] = d
              \/ j \in 1..Len(channel) /\ channel'[j] = channel[j]
  BY <1>11
<1>14. ASSUME NEW f \in Events, Past(f), f.gen <= gen, NEW j \in 1..Len(channel'),
              j \in 1..Len(channel) => Before(f, channel[j])
       PROVE  \E e \in Events : e = channel'[j] /\ Before(f, e)'
  <2>1. CASE channel'[j] = d
    BY <1>9, <1>14, <2>1
  <2>2. CASE j \in 1..Len(channel) /\ channel'[j] = channel[j]
    BY <1>7, <1>14, <2>2, InLine
  <2> QED
    BY <1>13, <2>1, <2>2
<1>15. ASSUME NEW i \in 1..Len(channel'), NEW j \in 1..Len(channel'), i < j
       PROVE  Before(channel[i], channel[j])'
  <2>1. i \in 1..Len(channel) /\ channel'[i] = channel[i]
    BY <1>11, <1>15
  <2>2. PICK f \in Events : f = channel[i] /\ Past(f) /\ f.gen <= gen
    BY <2>1, InLine
  <2>3. j \in 1..Len(channel) => Before(f, channel[j])
    BY <1>15, <2>1, <2>2 DEF Aligned
  <2>4. PICK e \in Events : e = channel'[j] /\ Before(f, e)'
    BY <1>14, <2>2, <2>3
  <2> QED
    BY <2>1, <2>2, <2>4
<1>16. ASSUME NEW i \in 1..Len(log'), NEW j \in 1..Len(channel')
       PROVE  Before(log[i], channel[j])'
  <2>1. PICK f \in Events : f = log[i] /\ Past(f) /\ f.gen <= gen
    BY <1>1, InLine
  <2>2. j \in 1..Len(channel) => Before(f, channel[j])
    BY <1>1, <2>1 DEF Aligned
  <2>3. PICK e \in Events : e = channel'[j] /\ Before(f, e)'
    BY <1>14, <2>1, <2>2
  <2>4. log'[i] = f
    BY <1>1, <2>1
  <2> QED
    BY <2>3, <2>4
<1>17. ASSUME InHand'
       PROVE  /\ Past(hand)'
              /\ \A i \in 1..Len(log') : Before(log[i], hand)'
              /\ \A j \in 1..Len(channel') : Before(hand, channel[j])'
  <2>1. PICK f \in Events : f = hand /\ Past(f) /\ f.gen <= gen /\ hand' = f
    BY <1>1, <1>17, InLine DEF InHand
  <2>2. InHand
    BY <1>1, <1>17 DEF InHand
  <2>3. Past(hand)'
    BY <1>8, <2>1
  <2>4. ASSUME NEW i \in 1..Len(log') PROVE Before(log[i], hand)'
    BY <1>1, <1>7, <2>1, <2>2, InLine DEF Aligned
  <2>5. ASSUME NEW j \in 1..Len(channel') PROVE Before(hand, channel[j])'
    <3>1. j \in 1..Len(channel) => Before(f, channel[j])
      BY <2>1, <2>2 DEF Aligned
    <3>2. PICK e \in Events : e = channel'[j] /\ Before(f, e)'
      BY <1>14, <2>1, <3>1
    <3> QED
      BY <2>1, <3>2
  <2> QED
    BY <2>3, <2>4, <2>5
<1>18. \A i \in 1..Len(log') : Past(log[i])'
  BY <1>1, <1>8, InLine
<1>19. ASSUME NEW j \in 1..Len(channel') PROVE Past(channel[j])'
  BY <1>8, <1>10, <1>13, InLine
<1> QED
  BY <1>12, <1>15, <1>16, <1>17, <1>18, <1>19 DEF Aligned

\* The event in hand is recorded behind the events it came after.
LEMMA AlignedWrite ==
    ASSUME TypeOK, Generations, Planned, Aligned, WriteEvent
    PROVE  Aligned'
<1>1. /\ pc = "write" /\ pc' = "advance" /\ log' = Append(log, hand)
      /\ UNCHANGED <<channel, hand>>
  BY DEF WriteEvent
<1>2. [Next]_vars
  BY DEF Next, Engine
<1>3. \A f, e \in Events : f.gen <= gen /\ Before(f, e) => Before(f, e)'
  BY <1>2, BeforeNext
<1>4. \A e \in Events : Past(e) => Past(e)'
  BY <1>2, PastNext
<1>5. InHand /\ ~InHand'
  BY <1>1 DEF InHand
<1>6. log \in Seq(Events) /\ hand \in Events
  BY DEF TypeOK
<1>7. /\ Len(log') = Len(log) + 1 /\ log'[Len(log) + 1] = hand /\ Len(log) \in Nat
      /\ \A i \in 1..Len(log) : log'[i] = log[i]
  BY <1>1, <1>6, AppendProperties, LenProperties
<1>8. ASSUME NEW i \in 1..Len(log')
      PROVE  \E f \in Events : /\ f = log'[i] /\ Past(f) /\ f.gen <= gen
                               /\ \A j \in 1..Len(channel) : Before(f, channel[j])
                               /\ i <= Len(log) => f = log[i] /\ Before(f, hand)
  <2>1. CASE i <= Len(log)
    <3>1. i \in 1..Len(log) /\ log'[i] = log[i]
      BY <1>7, <2>1
    <3> QED
      BY <1>5, <3>1, InLine DEF Aligned
  <2>2. CASE i = Len(log) + 1
    BY <1>5, <1>7, <2>2, InLine DEF Aligned
  <2> QED
    BY <1>7, <2>1, <2>2
<1>9. ASSUME NEW i \in 1..Len(log'), NEW j \in 1..Len(log'), i < j
      PROVE  Before(log[i], log[j])'
  <2>1. i \in 1..Len(log)
    BY <1>7, <1>9
  <2>2. PICK f \in Events : /\ f = log'[i] /\ f = log[i] /\ f.gen <= gen /\ Before(f, hand)
    BY <1>7, <1>8, <2>1
  <2>3. PICK e \in Events : e = log'[j] /\ (j <= Len(log) => e = log[j])
    BY <1>8
  <2>4. Before(f, e)
    <3>1. CASE j \in 1..Len(log)
      BY <1>9, <2>1, <2>2, <2>3, <3>1 DEF Aligned
    <3>2. CASE j = Len(log) + 1
      BY <1>7, <2>2, <2>3, <3>2
    <3> QED
      BY <1>7, <3>1, <3>2
  <2> QED
    BY <1>3, <2>2, <2>3, <2>4
<1>10. ASSUME NEW i \in 1..Len(channel'), NEW j \in 1..Len(channel'), i < j
       PROVE  Before(channel[i], channel[j])'
  BY <1>1, <1>3, <1>10, InLine DEF Aligned
<1>11. ASSUME NEW i \in 1..Len(log'), NEW j \in 1..Len(channel')
       PROVE  Before(log[i], channel[j])'
  <2>1. PICK f \in Events : f = log'[i] /\ f.gen <= gen /\ Before(f, channel[j])
    BY <1>1, <1>8
  <2>2. channel[j] \in Events /\ channel'[j] = channel[j]
    BY <1>1, InLine
  <2>3. PICK e \in Events : e = channel[j]
    BY <2>2
  <2>4. Before(f, e)'
    BY <1>3, <2>1, <2>3
  <2> QED
    BY <2>1, <2>2, <2>3, <2>4
<1>12. ASSUME NEW i \in 1..Len(log') PROVE Past(log[i])'
  BY <1>4, <1>8
<1>13. ASSUME NEW j \in 1..Len(channel') PROVE Past(channel[j])'
  BY <1>1, <1>4, InLine
<1> QED
  BY <1>5, <1>9, <1>10, <1>11, <1>12, <1>13 DEF Aligned

\* The first event of the channel is taken in hand.
LEMMA AlignedAdmit ==
    ASSUME TypeOK, Generations, Planned, Aligned, Admit
    PROVE  Aligned'
<1>1. /\ channel # << >> /\ channel' = Tail(channel) /\ hand' = Head(channel)
      /\ log' = log
  BY DEF Admit, Recv
<1>2. [Next]_vars
  BY DEF Next, Engine
<1>3. \A f, e \in Events : f.gen <= gen /\ Before(f, e) => Before(f, e)'
  BY <1>2, BeforeNext
<1>4. \A e \in Events : Past(e) => Past(e)'
  BY <1>2, PastNext
<1>5. channel \in Seq(Events)
  BY DEF TypeOK
<1>6. /\ 1 \in 1..Len(channel) /\ hand' = channel[1]
      /\ \A j \in 1..Len(channel') : /\ j + 1 \in 1..Len(channel) /\ 1 < j + 1
                                     /\ channel'[j] = channel[j + 1]
  BY <1>1, <1>5, LenProperties, EmptySeq, HeadTailProperties
<1>7. PICK h \in Events : h = channel[1] /\ h = hand' /\ Past(h) /\ h.gen <= gen
  BY <1>6, InLine
<1>8. ASSUME NEW j \in 1..Len(channel')
      PROVE  \E e \in Events : e = channel'[j] /\ e = channel[j + 1] /\ Past(e) /\ e.gen <= gen
  BY <1>6, InLine
<1>9. (\A i, j \in 1..Len(log) : i < j => Before(log[i], log[j]))'
  BY <1>1, <1>3, InLine DEF Aligned
<1>10. ASSUME NEW i \in 1..Len(channel'), NEW j \in 1..Len(channel'), i < j
       PROVE  Before(channel[i], channel[j])'
  <2>1. PICK f \in Events : f = channel'[i] /\ f = channel[i + 1] /\ f.gen <= gen
    BY <1>8
  <2>2. PICK e \in Events : e = channel'[j] /\ e = channel[j + 1]
    BY <1>8
  <2>3. i + 1 \in 1..Len(channel) /\ j + 1 \in 1..Len(channel) /\ i + 1 < j + 1
    BY <1>6, <1>10
  <2>4. Before(f, e)
    BY <2>1, <2>2, <2>3 DEF Aligned
  <2> QED
    BY <1>3, <2>1, <2>2, <2>4
<1>11. ASSUME NEW i \in 1..Len(log'), NEW j \in 1..Len(channel')
       PROVE  Before(log[i], channel[j])'
  <2>1. PICK f \in Events : f = log'[i] /\ f = log[i] /\ f.gen <= gen
    BY <1>1, InLine
  <2>2. PICK e \in Events : e = channel'[j] /\ e = channel[j + 1]
    BY <1>8
  <2>3. Before(f, e)
    BY <1>1, <1>6, <2>1, <2>2 DEF Aligned
  <2> QED
    BY <1>3, <2>1, <2>2, <2>3
<1>12. ASSUME NEW i \in 1..Len(log') PROVE Before(log[i], hand)'
  <2>1. PICK f \in Events : f = log'[i] /\ f = log[i] /\ f.gen <= gen
    BY <1>1, InLine
  <2>2. Before(f, h)
    BY <1>1, <1>6, <1>7, <2>1 DEF Aligned
  <2> QED
    BY <1>3, <1>7, <2>1, <2>2
<1>13. ASSUME NEW j \in 1..Len(channel') PROVE Before(hand, channel[j])'
  <2>1. PICK e \in Events : e = channel'[j] /\ e = channel[j + 1]
    BY <1>8
  <2>2. Before(h, e)
    BY <1>6, <1>7, <2>1 DEF Aligned
  <2> QED
    BY <1>3, <1>7, <2>1, <2>2
<1>14. Past(hand)'
  BY <1>4, <1>7
<1>15. ASSUME NEW i \in 1..Len(log') PROVE Past(log[i])'
  BY <1>1, <1>4, InLine
<1>16. ASSUME NEW j \in 1..Len(channel') PROVE Past(channel[j])'
  BY <1>4, <1>8
<1> QED
  BY <1>9, <1>10, <1>11, <1>12, <1>13, <1>14, <1>15, <1>16 DEF Aligned

\* The line stays in order whatever happens.
LEMMA AlignedNext ==
    ASSUME TypeOK, Generations, Planned, Aligned, [Next]_vars
    PROVE  Aligned'
<1>1. channel \in Seq(Events) /\ Len(channel) \in Nat
  BY LenProperties DEF TypeOK
<1>2. \A e \in Events : Past(e) => Past(e)'
  BY PastNext
<1>3. ASSUME NEW d \in Nat, log' = log,
             \A j \in 1..Len(channel') : /\ j + d \in 1..Len(channel)
                                         /\ channel'[j] = channel[j + d],
             InHand' => InHand /\ hand' = hand
      PROVE  Aligned'
  BY <1>2, <1>3, AlignedShorter
<1>4. CASE UNCHANGED <<channel, log>> /\ (InHand' => InHand /\ hand' = hand)
  BY <1>1, <1>3, <1>4, 0 \in Nat
<1>5. CASE DropMalformed \/ Skip
  <2>1. /\ channel # << >> /\ channel' = Tail(channel) /\ UNCHANGED <<log, pc, hand>>
    BY <1>5 DEF DropMalformed, Skip, Recv
  <2>2. \A j \in 1..Len(channel') : j + 1 \in 1..Len(channel) /\ channel'[j] = channel[j + 1]
    BY <1>1, <2>1, HeadTailProperties
  <2> QED
    <3>1. log' = log /\ (InHand' => InHand /\ hand' = hand)
      BY <2>1 DEF InHand
    <3> QED
      BY <1>3, <2>2, <3>1, 1 \in Nat
<1>6. CASE EngCrash
  <2>1. PICK k \in 0..Len(channel) : channel' = SubSeq(channel, k + 1, Len(channel))
    BY <1>6 DEF EngCrash
  <2>2. log' = log /\ ~InHand'
    BY <1>6 DEF EngCrash, InHand
  <2>3. /\ k \in Nat /\ Len(channel') = Len(channel) - k
        /\ \A j \in 1..(Len(channel) - k) : channel'[j] = channel[k + j]
    BY <1>1, <2>1, PartOf
  <2>4. \A j \in 1..Len(channel') : j + k \in 1..Len(channel) /\ channel'[j] = channel[j + k]
    BY <1>1, <2>3
  <2> QED
    BY <1>3, <2>2, <2>3, <2>4
<1>7. CASE CtlCrash \/ ResetController
  <2>1. PICK k \in 0..Len(channel) : channel' = SubSeq(channel, 1, k)
    BY <1>7, TypeStop DEF CtlCrash, ResetController
  <2>2. UNCHANGED <<log, pc, hand>>
    BY <1>7 DEF CtlCrash, ResetController, CtlStop, eng
  <2>3. /\ k \in Nat /\ Len(channel') = k
        /\ \A j \in 1..k : channel'[j] = channel[j]
    BY <1>1, <2>1, PartOf
  <2>4. \A j \in 1..Len(channel') : j + 0 \in 1..Len(channel) /\ channel'[j] = channel[j + 0]
    BY <1>1, <2>1, <2>3
  <2> QED
    BY <1>3, <2>2, <2>4, 0 \in Nat DEF InHand
<1>8. CASE EmitAlert \/ PipelineError \/ Advance
  <2>1. UNCHANGED <<channel, log>> /\ (InHand' => InHand /\ hand' = hand)
    BY <1>8 DEF EmitAlert, PipelineError, Advance, InHand, history
  <2> QED
    BY <1>4, <2>1
<1>9. CASE UNCHANGED <<channel, log, pc, hand>>
  BY <1>4, <1>9 DEF InHand
<1>10. CASE CtlSend
  BY <1>10, AlignedSend
<1>11. CASE WriteEvent
  BY <1>11, AlignedWrite
<1>12. CASE Admit
  BY <1>12, AlignedAdmit
<1>13. CASE EngBoot
  <2>1. UNCHANGED <<channel, log>> /\ ~InHand'
    BY <1>13 DEF EngBoot, InHand, history
  <2> QED
    BY <1>4, <2>1
<1>14. \/ CtlSend \/ WriteEvent \/ Admit \/ DropMalformed \/ Skip \/ EngCrash \/ EngBoot
       \/ CtlCrash \/ ResetController \/ EmitAlert \/ PipelineError \/ Advance
       \/ UNCHANGED <<channel, log, pc, hand>>
  BY DEF Next, vars, eng, history, bounds, Controller, GateReject, GateAccept, CtlSave,
         CtlBoot, Engine, Reset, ResetTables, ResetMemory, ResetFile, ResetFails
<1> QED
  BY <1>5, <1>6, <1>7, <1>8, <1>9, <1>10, <1>11, <1>12, <1>13, <1>14

\* Events in line are recorded in order.
LEMMA AlignedInOrder == TypeOK /\ Aligned => CommittedInOrder
<1> SUFFICES ASSUME TypeOK, Aligned, NEW i \in DOMAIN log, NEW j \in DOMAIN log, i < j
             PROVE  \/ log[i].rx < log[j].rx
                    \/ log[i].rx = log[j].rx /\ log[i].kind # log[j].kind
  BY DEF CommittedInOrder
<1>1. i \in 1..Len(log) /\ j \in 1..Len(log)
  BY LenProperties DEF TypeOK
<1>2. log[i].kind \in Kinds /\ log[j].kind \in Kinds
  BY <1>1, InLine DEF Events
<1> QED
  BY <1>1, <1>2, RankDiffers DEF Aligned, Before

\* Whatever crashes, whatever fails and however often the numbering is reset meanwhile, the
\* table has the events in the order of their messages, none twice (engine.py main,
\* event_writer.py, cmd_server.py _do_reset).
THEOREM EventsInOrder == Spec => []CommittedInOrder
<1> DEFINE Inv == TypeOK /\ Generations /\ Planned /\ Aligned
<1>1. Init => Inv
  BY TypeInit, OrderInit
<1>2. Inv /\ [Next]_vars => Inv'
  BY TypeNext, GenerationsNext, PlannedNext, AlignedNext
<1>3. Inv => CommittedInOrder
  BY AlignedInOrder
<1> QED
  BY <1>1, <1>2, <1>3, PTL DEF Spec

------------------------------------------------------------------------------
(* What the filter drops.                                                    *)

\* x is the offset of the last event of the table, and of this generation.
Tip(x) == log # << >> /\ log[Len(log)].off = x /\ log[Len(log)].gen = gen

\* Both of the engine's offsets are the last recorded event's, or none at all once a reset
\* has come to them; a straddling event spoils that.
Tipped ==
    ~straddled => /\ committed = 0 \/ Tip(committed)
                  /\ gen < resets => committed = 0
                  /\ pc \notin {"advance", "down"} => lastOffset = 0 \/ Tip(lastOffset)
                  /\ ~Live /\ pc # "down" => lastOffset = 0

\* Between the commit and the assignment of last_offset the event in hand is the last one.
Advancing == pc = "advance" => log # << >> /\ hand = log[Len(log)]

\* The flood alert of e's message is on record, with e's offset.
Answered(e) ==
    \E i \in 1..Len(log) :
        log[i].kind = "FLOOD_ATTACK" /\ log[i].rx = e.rx /\ log[i].off = e.off
            /\ e.kind # "FLOOD_ATTACK"

Explained == \A s \in skipped : straddled \/ Answered(s.ev)

\* At first the engine has seen nothing.
LEMMA TippedInit == Init => Tipped /\ Advancing /\ Explained
BY DEF Init, Tipped, Advancing, Explained

\* The engine holds the last recorded event until it has advanced.
LEMMA AdvancingNext ==
    ASSUME TypeOK, Advancing, [Next]_vars
    PROVE  Advancing'
<1>1. CASE WriteEvent
  <2>1. log' = Append(log, hand) /\ hand' = hand /\ log \in Seq(Events) /\ hand \in Events
    BY <1>1 DEF WriteEvent, TypeOK
  <2>2. Len(log') = Len(log) + 1 /\ log'[Len(log) + 1] = hand /\ Len(log) \in Nat
    BY <2>1, AppendProperties, LenProperties
  <2>3. log' # << >> /\ hand' = log'[Len(log')]
    BY <2>1, <2>2, EmptySeq
  <2> QED
    BY <2>3 DEF Advancing
<1>2. CASE UNCHANGED <<pc, hand, log>>
  BY <1>2 DEF Advancing
<1>3. CASE pc' # "advance"
  BY <1>3 DEF Advancing
<1>4. WriteEvent \/ UNCHANGED <<pc, hand, log>> \/ pc' # "advance"
  BY DEF Next, vars, eng, history, bounds, Controller, GateReject, GateAccept, CtlSave,
         CtlSend, CtlCrash, CtlStop, CtlBoot, EngBoot,
         Engine, DropMalformed, Skip, Recv, Admit, EmitAlert, PipelineError,
         Advance, EngCrash, Reset, ResetTables, ResetMemory, ResetFile, ResetController,
         ResetFails
<1> QED
  BY <1>1, <1>2, <1>3, <1>4

\* The engine's offsets stay where the table ends.
LEMMA TippedNext ==
    ASSUME TypeOK, Generations, Aligned, Advancing, Tipped, [Next]_vars
    PROVE  Tipped'
<1>1. gen \in Nat /\ resets \in Nat /\ gen <= resets /\ (cmd # "idle" => gen < resets)
  BY DEF TypeOK, Generations
<1>2. CASE WriteEvent
  <2>1. SUFFICES ASSUME ~straddled' PROVE Tipped'
    BY DEF Tipped
  <2>2. /\ pc = "write" /\ pc' = "advance" /\ committed' = hand.off
        /\ log' = Append(log, hand) /\ UNCHANGED <<gen, resets, cmd>>
        /\ straddled' = (straddled \/ hand.gen < resets)
    BY <1>2 DEF WriteEvent, Straddle, bounds
  <2>3. hand \in Events /\ hand.gen <= gen /\ hand.gen \in Nat /\ log \in Seq(Events)
    BY <2>2, InLine DEF InHand, TypeOK, Events
  <2>4. hand.gen = gen /\ gen = resets
    <3>1. ~(hand.gen < resets)
      BY <2>1, <2>2, Zenon
    <3> QED
      BY <1>1, <2>3, <3>1
  <2>5. Len(log') = Len(log) + 1 /\ log'[Len(log) + 1] = hand /\ Len(log) \in Nat
    BY <2>2, <2>3, AppendProperties, LenProperties
  <2>6. Tip(committed)'
    BY <2>2, <2>4, <2>5, EmptySeq DEF Tip
  <2> QED
    BY <1>1, <2>2, <2>4, <2>6 DEF Tipped, Live
<1>3. CASE Advance
  <2>1. SUFFICES ASSUME ~straddled' PROVE Tipped'
    BY DEF Tipped
  <2>2. /\ pc = "advance" /\ lastOffset' = hand.off
        /\ UNCHANGED <<gen, resets, cmd, log, committed>>
        /\ straddled' = (straddled \/ hand.gen < resets)
    BY <1>3 DEF Advance, Straddle, bounds
  <2>3. log # << >> /\ hand = log[Len(log)]
    BY <2>2 DEF Advancing
  <2>4. hand.gen \in Nat /\ hand.gen <= gen
    <3>1. log \in Seq(Events) /\ Len(log) \in 1..Len(log)
      BY <2>3, LenProperties, EmptySeq DEF TypeOK
    <3> QED
      BY <2>3, <3>1, InLine DEF Events
  <2>5. hand.gen = gen /\ gen = resets /\ ~straddled
    <3>1. ~(hand.gen < resets) /\ ~straddled
      BY <2>1, <2>2, Zenon
    <3> QED
      BY <1>1, <2>4, <3>1
  <2>6. Tip(lastOffset)' /\ Live'
    BY <2>2, <2>3, <2>5 DEF Tip, Live
  <2>7. committed' = 0 \/ Tip(committed)'
    BY <2>2, <2>5 DEF Tipped, Tip
  <2> QED
    BY <1>1, <2>2, <2>5, <2>6, <2>7 DEF Tipped
<1>4. CASE EngBoot
  <2>1. /\ pc' = "recv" /\ lastOffset' = committed
        /\ UNCHANGED <<committed, log, gen, resets, straddled>>
    BY <1>4 DEF EngBoot, Resume, bounds, history
  <2>2. ~Live' => gen < resets
    BY <1>1, <2>1 DEF Live
  <2> QED
    BY <2>1, <2>2 DEF Tipped, Tip
<1>5. CASE ResetTables
  <2>1. /\ cmd = "idle" /\ cmd' = "memory" /\ committed' = 0 /\ resets' = resets + 1
        /\ UNCHANGED <<pc, lastOffset, log, gen, straddled>>
    BY <1>5 DEF ResetTables, history
  <2>2. ~Live' => ~Live
    BY <1>1, <2>1 DEF Live
  <2> QED
    BY <2>1, <2>2 DEF Tipped, Tip
<1>6. CASE ResetMemory
  <2>1. lastOffset' = 0 /\ UNCHANGED <<pc, committed, log, gen, resets, straddled>>
    BY <1>6 DEF ResetMemory, bounds, history
  <2> QED
    BY <2>1 DEF Tipped, Tip
<1>7. CASE ResetFile
  <2>1. /\ cmd = "file" /\ UNCHANGED <<pc, lastOffset, committed, log, gen, resets, straddled>>
    BY <1>7 DEF ResetFile, eng, bounds, history
  <2>2. ~Live
    BY <1>1, <2>1 DEF Live
  <2> QED
    BY <2>1, <2>2 DEF Tipped, Tip
<1>8. CASE ResetController
  <2>1. /\ cmd = "restart" /\ cmd' = "idle" /\ gen' \in {gen, resets}
        /\ UNCHANGED <<pc, lastOffset, committed, log, resets, straddled>>
    BY <1>8 DEF ResetController, CtlStop, eng
  <2>2. ~Live /\ gen < resets
    BY <1>1, <2>1 DEF Live
  <2> QED
    BY <2>1, <2>2 DEF Tipped
<1>9. CASE /\ UNCHANGED <<lastOffset, committed, log, gen, resets, cmd, straddled>>
           /\ pc' # "advance" => pc # "advance"
           /\ pc = "down" => pc' = "down"
  BY <1>9 DEF Tipped, Tip, Live
<1>10. CASE EngCrash
  <2>1. /\ pc' = "down" /\ UNCHANGED <<lastOffset, committed, log, gen, resets, straddled>>
    BY <1>10 DEF EngCrash
  <2> QED
    BY <2>1 DEF Tipped, Tip
<1>11. CASE ResetFails
  <2>1. /\ cmd \in {"file", "restart"}
        /\ UNCHANGED <<pc, lastOffset, committed, log, gen, resets, straddled>>
    BY <1>11 DEF ResetFails, eng, bounds, history
  <2>2. ~Live
    BY <1>1, <2>1 DEF Live
  <2> QED
    BY <2>1, <2>2 DEF Tipped, Tip
<1>12. \/ WriteEvent \/ Advance \/ EngCrash \/ EngBoot \/ Reset
       \/ /\ UNCHANGED <<lastOffset, committed, log, gen, resets, cmd, straddled>>
          /\ pc' # "advance" => pc # "advance"
          /\ pc = "down" => pc' = "down"
  BY DEF Next, vars, eng, history, bounds, Controller, GateReject, GateAccept, CtlSave,
         CtlSend, CtlCrash, CtlStop, CtlBoot, EngBoot,
         Engine, DropMalformed, Skip, Recv, Admit, EmitAlert, PipelineError
<1> QED
  BY <1>2, <1>3, <1>4, <1>5, <1>6, <1>7, <1>8, <1>9, <1>10, <1>11, <1>12 DEF Reset

\* Only the companion of a recorded flood alert is dropped.
LEMMA SkipAnswered ==
    ASSUME TypeOK, Generations, Aligned, Tipped, Skip
    PROVE  straddled \/ Answered(Head(channel))
<1> SUFFICES ASSUME ~straddled PROVE Answered(Head(channel))
  OBVIOUS
<1>1. /\ pc = "recv" /\ channel # << >> /\ Head(channel).off <= lastOffset
  BY DEF Skip, Recv, AlreadySeen
<1>2. channel \in Seq(Events) /\ log \in Seq(Events)
  BY DEF TypeOK
<1>3. 1 \in 1..Len(channel) /\ Head(channel) = channel[1]
  BY <1>1, <1>2, LenProperties, EmptySeq, HeadTailProperties
<1>4. PICK e \in Events : e = channel[1] /\ e.off >= 1 /\ e.gen <= gen
  BY <1>3, InLine DEF Past
<1>5. {e.off, e.rx, e.gen, gen, lastOffset} \subseteq Nat
  BY DEF TypeOK, Events
<1>6. lastOffset # 0
  BY <1>1, <1>3, <1>4, <1>5
<1>7. Tip(lastOffset) /\ Live
  BY <1>1, <1>6 DEF Tipped
<1>8. Len(log) \in 1..Len(log)
  BY <1>2, <1>7, LenProperties, EmptySeq DEF Tip
<1>9. PICK t \in Events : t = log[Len(log)] /\ t.off = lastOffset /\ t.gen = gen
  BY <1>7, <1>8, InLine DEF Tip
<1>10. Before(t, e)
  BY <1>3, <1>4, <1>8, <1>9 DEF Aligned
<1>11. t.off = e.off /\ t.rx = e.rx /\ t.kind = "FLOOD_ATTACK"
  BY <1>1, <1>3, <1>4, <1>5, <1>7, <1>9, <1>10 DEF Before, Lower
<1>12. e.kind # "FLOOD_ATTACK"
  <2>1. Rank(t.kind) < Rank(e.kind) /\ t.kind \in Kinds /\ e.kind \in Kinds
    BY <1>5, <1>10, <1>11 DEF Before, Events
  <2> QED
    BY <1>11, <2>1, RankDiffers
<1> QED
  BY <1>3, <1>4, <1>8, <1>9, <1>11, <1>12 DEF Answered

\* What was answered stays so: the history only grows.
LEMMA ExplainedNext ==
    ASSUME TypeOK, Generations, Aligned, Tipped, Explained, [Next]_vars
    PROVE  Explained'
<1>1. straddled => straddled'
  BY DEF Next, vars, history, Controller, GateReject, GateAccept, CtlSave, CtlSend, CtlCrash,
         CtlStop, CtlBoot, EngBoot, Engine, DropMalformed, Skip, Recv, Admit, EmitAlert, WriteEvent, PipelineError, Advance,
         Straddle, EngCrash, Reset, ResetTables, ResetMemory, ResetFile, ResetController,
         ResetFails
<1>2. log' = log \/ log' = Append(log, hand)
  BY DEF Next, vars, history, Controller, GateReject, GateAccept, CtlSave, CtlSend, CtlCrash,
         CtlStop, CtlBoot, EngBoot, Engine, DropMalformed, Skip, Recv, Admit, EmitAlert, WriteEvent, PipelineError, Advance,
         EngCrash, Reset, ResetTables, ResetMemory, ResetFile, ResetController,
         ResetFails
<1>3. /\ Len(log) \in Nat /\ 1..Len(log) \subseteq 1..Len(log')
      /\ \A i \in 1..Len(log) : log'[i] = log[i]
  <2>1. log \in Seq(Events) /\ hand \in Events
    BY DEF TypeOK
  <2> QED
    BY <1>2, <2>1, AppendProperties, LenProperties
<1>4. ASSUME NEW e, Answered(e) PROVE Answered(e)'
  BY <1>3, <1>4 DEF Answered
<1>5. CASE Skip
  <2>1. skipped' = skipped \cup {[ev |-> Head(channel), committed |-> committed]}
        /\ straddled' = straddled
    BY <1>5 DEF Skip, Recv
  <2>2. PICK e : e = Head(channel) /\ (straddled \/ Answered(e))
    BY <1>5, SkipAnswered
  <2>3. ASSUME NEW s \in skipped' PROVE straddled' \/ Answered(s.ev)'
    <3>1. CASE s \in skipped
      BY <1>1, <1>4, <3>1 DEF Explained
    <3>2. CASE s.ev = e
      BY <1>4, <2>1, <2>2, <3>2
    <3> QED
      BY <2>1, <2>2, <3>1, <3>2
  <2> QED
    BY <2>3 DEF Explained
<1>6. CASE skipped' = skipped
  BY <1>1, <1>4, <1>6 DEF Explained
<1>7. Skip \/ skipped' = skipped
  BY DEF Next, vars, history, Controller, GateReject, GateAccept, CtlSave, CtlSend, CtlCrash,
         CtlStop, CtlBoot, EngBoot, Engine, DropMalformed, Recv, Admit, EmitAlert, WriteEvent, PipelineError, Advance,
         EngCrash, Reset, ResetTables, ResetMemory, ResetFile, ResetController,
         ResetFails
<1> QED
  BY <1>5, <1>6, <1>7

\* The filter of the engine (engine.py main, `offset <= last_offset`) drops an event only if
\* the flood alert of its message was recorded under the same number, or if an event
\* overlapped a reset, however often either side crashes.
THEOREM SkipsExplained == Spec => []SkipsAreExplained
<1> DEFINE Inv == /\ TypeOK /\ Generations /\ Planned /\ Aligned
                  /\ Tipped /\ Advancing /\ Explained
<1>1. Init => Inv
  BY TypeInit, OrderInit, TippedInit
<1>2. Inv /\ [Next]_vars => Inv'
  BY TypeNext, GenerationsNext, PlannedNext, AlignedNext, TippedNext, AdvancingNext,
     ExplainedNext
<1>3. Inv => SkipsAreExplained
  <2> SUFFICES ASSUME TypeOK, Explained, NEW s \in skipped, ~straddled
               PROVE  FloodCompanion(s.ev)
    BY DEF SkipsAreExplained
  <2>1. PICK i \in 1..Len(log) : /\ log[i].kind = "FLOOD_ATTACK" /\ log[i].rx = s.ev.rx
                                 /\ log[i].off = s.ev.off /\ s.ev.kind # "FLOOD_ATTACK"
    BY DEF Explained, Answered
  <2>2. log[i] \in Contents(log)
    BY <2>1, LenProperties DEF Contents, TypeOK
  <2> QED
    BY <2>1, <2>2 DEF FloodCompanion
<1> QED
  BY <1>1, <1>2, <1>3, PTL DEF Spec

------------------------------------------------------------------------------
(* Without a reset the filter does what the README says.                     *)

\* What the engine knows in memory is what it has committed, but for the moment between the
\* transaction and the assignment.
Synced ==
    /\ resets = 0 /\ cmd = "idle"
    /\ pc \notin {"advance", "down"} => lastOffset = committed
    /\ pc = "advance" => committed = hand.off

\* Without a reset nothing but the commit and the assignment after it moves an offset.
LEMMA SyncedNext ==
    ASSUME MaxReset = 0, Synced, SkipsOnlyCommitted, [Next]_vars
    PROVE  Synced' /\ SkipsOnlyCommitted'
<1>1. CASE Skip
  <2>1. /\ pc = "recv" /\ Head(channel).off <= lastOffset
        /\ skipped' = skipped \cup {[ev |-> Head(channel), committed |-> committed]}
        /\ UNCHANGED <<pc, hand, lastOffset, committed, cmd, resets>>
    BY <1>1 DEF Skip, Recv, AlreadySeen, bounds
  <2>2. Head(channel).off <= committed
    BY <2>1 DEF Synced
  <2>3. SkipsOnlyCommitted'
    BY <2>1, <2>2 DEF SkipsOnlyCommitted
  <2> QED
    BY <2>1, <2>3 DEF Synced
<1>2. CASE ~Skip
  <2>1. UNCHANGED skipped
    BY <1>2 DEF Next, vars, history, Controller, GateReject, GateAccept, CtlSave, CtlSend,
                CtlCrash, CtlStop, CtlBoot, EngBoot, Engine,
                DropMalformed, Recv, Admit, EmitAlert, WriteEvent, PipelineError, Advance,
                EngCrash, Reset, ResetTables, ResetMemory, ResetFile, ResetController,
         ResetFails
  <2>2. SkipsOnlyCommitted'
    BY <2>1 DEF SkipsOnlyCommitted
  <2>3. CASE Admit
    <3>1. /\ pc = "recv" /\ pc' \notin {"advance", "down"}
          /\ UNCHANGED <<lastOffset, committed, cmd, resets>>
      BY <2>3 DEF Admit, Recv, bounds
    <3> QED
      BY <2>2, <3>1 DEF Synced
  <2>4. CASE EmitAlert \/ PipelineError
    <3>1. /\ pc \notin {"advance", "down"} /\ pc' \notin {"advance", "down"}
          /\ UNCHANGED <<lastOffset, committed, cmd, resets>>
      BY <2>4 DEF EmitAlert, PipelineError, bounds
    <3> QED
      BY <2>2, <3>1 DEF Synced
  <2>5. CASE WriteEvent
    <3>1. committed' = hand.off /\ pc' = "advance" /\ UNCHANGED <<hand, cmd, resets>>
      BY <2>5 DEF WriteEvent, bounds
    <3> QED
      BY <2>2, <3>1 DEF Synced
  <2>6. CASE Advance
    <3>1. /\ pc = "advance" /\ pc' = "recv" /\ lastOffset' = hand.off
          /\ UNCHANGED <<committed, cmd, resets>>
      BY <2>6 DEF Advance, bounds
    <3> QED
      BY <2>2, <3>1 DEF Synced
  <2>7. CASE EngCrash
    <3>1. pc' = "down" /\ cmd' = "idle" /\ resets' = resets
      BY <2>7 DEF EngCrash
    <3> QED
      BY <2>2, <3>1 DEF Synced
  <2>10. CASE EngBoot
    <3>1. pc' = "recv" /\ lastOffset' = committed /\ UNCHANGED <<committed, cmd, resets>>
      BY <2>10 DEF EngBoot, Resume, bounds
    <3> QED
      BY <2>2, <3>1 DEF Synced
  <2>11. CASE DropMalformed
    <3>1. pc = "recv" /\ UNCHANGED <<pc, hand, lastOffset, committed, cmd, resets>>
      BY <2>11 DEF DropMalformed, Recv, bounds
    <3> QED
      BY <2>2, <3>1 DEF Synced
  <2>8. CASE Controller \/ CtlCrash \/ CtlBoot \/ UNCHANGED vars
    <3>1. UNCHANGED <<pc, hand, lastOffset, committed, cmd, resets>>
      BY <2>8 DEF Controller, GateReject, GateAccept, CtlSave, CtlSend, CtlCrash, CtlStop,
                  CtlBoot, vars, eng, bounds
    <3> QED
      BY <2>2, <3>1 DEF Synced
  <2>9. ~Reset
    BY DEF Synced, Reset, ResetTables, ResetMemory, ResetFile, ResetController,
         ResetFails
  <2> QED
    BY <1>2, <2>3, <2>4, <2>5, <2>6, <2>7, <2>8, <2>9, <2>10, <2>11 DEF Next, Engine
<1> QED
  BY <1>1, <1>2

\* src/README.md:203 holds of the engine's filter as long as nobody resets: it skips only what
\* has an offset at or below the last committed one, through any crashes of both processes.
\* The run reset_straddled shows what a reset does to it.
THEOREM SkipsCommittedOnly ==
    ASSUME MaxReset = 0
    PROVE  Spec => []SkipsOnlyCommitted
<1>1. Init => Synced /\ SkipsOnlyCommitted
  BY DEF Init, Synced, SkipsOnlyCommitted
<1>2. Synced /\ SkipsOnlyCommitted /\ [Next]_vars => Synced' /\ SkipsOnlyCommitted'
  BY SyncedNext
<1> QED
  BY <1>1, <1>2, PTL DEF Spec

------------------------------------------------------------------------------
(* The refinement of the ordered link, without resets.                       *)

\* Nothing is numbered below what was sent before it, and nothing is handled below what was
\* recorded before it.
Kept ==
    /\ committed = LastRecorded /\ (pc \notin {"advance", "down"} => lastOffset = committed)
    /\ InHand => hand.off > LastRecorded /\ hand.off <= sentTop
    /\ LastRecorded <= sentTop /\ sentTop <= file /\ sentTop <= offset
    /\ \A j \in 1..Len(channel) : channel[j].off <= sentTop
    /\ \A k \in 1..Len(todo) : todo[k].off >= sentTop

\* The offsets of the table, as a sequence.
LEMMA RecordedType ==
    ASSUME NEW s \in Seq(Events)
    PROVE  /\ [i \in DOMAIN s |-> s[i].off] \in Seq(Nat)
           /\ Len([i \in DOMAIN s |-> s[i].off]) = Len(s)
           /\ \A i \in 1..Len(s) : [j \in DOMAIN s |-> s[j].off][i] = s[i].off
<1>1. Len(s) \in Nat /\ DOMAIN s = 1..Len(s)
  BY LenProperties
<1>2. \A i \in 1..Len(s) : s[i].off \in Nat
  <2>1. \A i \in 1..Len(s) : s[i] \in Events
    BY ElementOfSeq
  <2> QED
    BY <2>1 DEF Events
<1> QED
  BY <1>1, <1>2

\* The last offset recorded.
LEMMA LastRecordedType ==
    ASSUME TypeOK
    PROVE  LastRecorded \in Nat
<1>1. log \in Seq(Events)
  BY DEF TypeOK
<1>2. CASE log # << >>
  <2>1. Len(log) \in 1..Len(log)
    BY <1>1, <1>2, LenProperties, EmptySeq
  <2>2. log[Len(log)] \in Events
    BY <1>1, <2>1, ElementOfSeq
  <2> QED
    BY <1>2, <2>2 DEF LastRecorded, Events
<1> QED
  BY <1>2 DEF LastRecorded

\* At first both ends are at zero.
LEMMA KeptInit == Init => Kept
<1> SUFFICES ASSUME Init PROVE Kept
  OBVIOUS
<1>1. Len(<< >>) = 0 /\ LastRecorded = 0 /\ ~InHand
  BY EmptySeq DEF Init, LastRecorded, InHand
<1> QED
  BY <1>1 DEF Init, Kept

\* Sending numbers upwards, from what the file covers.
LEMMA KeptSend ==
    ASSUME TypeOK, Planned, Kept, Live, CtlSend
    PROVE  /\ sentTop' = todo[1].off /\ sentTop <= todo[1].off /\ todo[1].off \in Nat
           /\ Kept'
<1>1. /\ todo # << >> /\ saved /\ todo' = Tail(todo)
      /\ channel' = Append(channel, Due(1))
      /\ sentTop' = IF todo[1].off > sentTop THEN todo[1].off ELSE sentTop
      /\ UNCHANGED <<file, offset, pc, hand, lastOffset, committed, log>>
  BY DEF CtlSend, Due, eng
<1>2. todo \in Seq(Emissions) /\ channel \in Seq(Events)
      /\ {file, offset, sentTop} \subseteq Nat
  BY DEF TypeOK
<1>3. /\ 1 \in 1..Len(todo)
      /\ \A k \in 1..Len(todo') : /\ k + 1 \in 1..Len(todo) /\ 1 < k + 1
                                  /\ todo'[k] = todo[k + 1]
  BY <1>1, <1>2, LenProperties, EmptySeq, HeadTailProperties
<1>4. \A k \in 1..Len(todo) : todo[k].off \in Nat /\ todo[k].save \in Nat
  <2>1. \A k \in 1..Len(todo) : todo[k] \in Emissions
    BY DueType
  <2> QED
    BY <2>1 DEF Emissions
<1>5. sentTop' = todo[1].off /\ sentTop <= todo[1].off
  BY <1>1, <1>2, <1>3, <1>4 DEF Kept
<1>6. sentTop' <= file' /\ sentTop' <= offset'
  BY <1>1, <1>2, <1>3, <1>4, <1>5 DEF Planned
<1>7. ASSUME NEW k \in 1..Len(todo') PROVE todo'[k].off >= sentTop'
  <2>1. Before(Due(1), Due(k + 1)) /\ k + 1 \in 1..Len(todo)
    BY <1>3 DEF Planned
  <2>2. /\ Due(1).off = todo[1].off /\ Due(k + 1).off = todo[k + 1].off /\ Due(1).gen = gen
    BY DEF Due
  <2>3. Lower(Due(1), Due(k + 1))
    BY <2>1, <2>2 DEF Before
  <2>4. todo[1].off < todo[k + 1].off \/ todo[1].off = todo[k + 1].off
    BY <2>2, <2>3 DEF Lower
  <2> QED
    BY <1>3, <1>4, <1>5, <2>1, <2>4
<1>8. ASSUME NEW j \in 1..Len(channel') PROVE channel'[j].off <= sentTop'
  <2>1. Due(1) \in Events /\ Due(1).off = todo[1].off
    BY <1>3, DueType DEF Due
  <2>2. \/ j = Len(channel) + 1 /\ channel'[j] = Due(1)
        \/ j \in 1..Len(channel) /\ channel'[j] = channel[j]
    BY <1>1, <1>2, <2>1, AppendProperties, LenProperties
  <2>3. CASE channel'[j] = Due(1)
    BY <1>3, <1>4, <1>5, <2>1, <2>3
  <2>4. CASE j \in 1..Len(channel) /\ channel'[j] = channel[j]
    <3>1. channel[j].off \in Nat
      <4>1. channel[j] \in Events
        BY <1>2, <2>4, ElementOfSeq
      <4> QED
        BY <4>1 DEF Events
    <3> QED
      BY <1>2, <1>3, <1>4, <1>5, <2>4, <3>1 DEF Kept
  <2> QED
    BY <2>2, <2>3, <2>4
<1>9. LastRecorded \in Nat /\ LastRecorded' = LastRecorded /\ hand.off \in Nat
  BY <1>1, LastRecordedType DEF LastRecorded, TypeOK, Events
<1>10. InHand' => hand'.off > LastRecorded' /\ hand'.off <= sentTop'
  BY <1>1, <1>2, <1>3, <1>4, <1>5, <1>9 DEF Kept, InHand
<1>11. LastRecorded' <= sentTop'
  BY <1>2, <1>3, <1>4, <1>5, <1>9 DEF Kept
<1>12. committed' = LastRecorded' /\ (pc' \notin {"advance", "down"} => lastOffset' = committed')
  BY <1>1, <1>9 DEF Kept
<1> QED
  BY <1>3, <1>4, <1>5, <1>6, <1>7, <1>8, <1>10, <1>11, <1>12 DEF Kept

\* Recording the event in hand: a number above all recorded ones.
LEMMA KeptWrite ==
    ASSUME TypeOK, Kept, WriteEvent
    PROVE  /\ LastRecorded' = hand.off /\ LastRecorded < hand.off
           /\ Recorded' = Append(Recorded, hand.off)
           /\ Kept'
<1>1. /\ pc = "write" /\ pc' = "advance" /\ log' = Append(log, hand) /\ committed' = hand.off
      /\ UNCHANGED <<file, offset, todo, channel, hand, sentTop>>
  BY DEF WriteEvent, ctl
<1>2. log \in Seq(Events) /\ hand \in Events /\ hand.off \in Nat
  BY DEF TypeOK, Events
<1>3. /\ log' \in Seq(Events) /\ Len(log') = Len(log) + 1 /\ Len(log) \in Nat
      /\ log'[Len(log) + 1] = hand
      /\ \A i \in 1..Len(log) : log'[i] = log[i]
  BY <1>1, <1>2, AppendProperties, LenProperties
<1>4. LastRecorded' = hand.off
  BY <1>3, EmptySeq DEF LastRecorded
<1>5. LastRecorded < hand.off /\ hand.off <= sentTop
  BY <1>1, <1>2, LastRecordedType DEF Kept, InHand
<1>6. Recorded' = Append(Recorded, hand.off)
  <2> DEFINE r == Recorded
             rr == Recorded'
             a == Append(r, hand.off)
  <2>1. r \in Seq(Nat) /\ Len(r) = Len(log) /\ \A i \in 1..Len(log) : r[i] = log[i].off
    BY <1>2, RecordedType DEF Recorded
  <2>2. rr \in Seq(Nat) /\ Len(rr) = Len(log') /\ \A i \in 1..Len(log') : rr[i] = log'[i].off
    BY <1>3, RecordedType DEF Recorded
  <2> HIDE DEF r, rr
  <2>3. /\ a \in Seq(Nat) /\ Len(a) = Len(r) + 1 /\ a[Len(r) + 1] = hand.off
        /\ \A i \in 1..Len(r) : a[i] = r[i]
    BY <1>2, <2>1, AppendProperties
  <2> HIDE DEF a
  <2>4. ASSUME NEW i \in 1..Len(rr) PROVE rr[i] = a[i]
    <3>1. CASE i \in 1..Len(log)
      BY <1>3, <2>1, <2>2, <2>3, <3>1
    <3>2. CASE i = Len(log) + 1
      BY <1>3, <2>1, <2>2, <2>3, <3>2
    <3> QED
      BY <1>3, <2>2, <3>1, <3>2
  <2>5. rr = a
    BY <1>3, <2>1, <2>2, <2>3, <2>4, SeqEqual
  <2> QED
    BY <2>5 DEF r, rr, a
<1>7. ~InHand'
  BY <1>1 DEF InHand
<1> QED
  BY <1>1, <1>4, <1>5, <1>6, <1>7 DEF Kept

\* A step that sends nothing adds nothing to the channel.
LEMMA ChannelShrinks ==
    ASSUME TypeOK, [Next]_vars, ~CtlSend
    PROVE  \A j \in 1..Len(channel') : \E i \in 1..Len(channel) : channel'[j] = channel[i]
<1>1. channel \in Seq(Events) /\ Len(channel) \in Nat
  BY LenProperties DEF TypeOK
<1>2. CASE Recv
  <2>1. channel # << >> /\ channel' = Tail(channel)
    BY <1>2 DEF Recv
  <2>2. \A j \in 1..Len(channel') : j + 1 \in 1..Len(channel) /\ channel'[j] = channel[j + 1]
    BY <1>1, <2>1, HeadTailProperties
  <2> QED
    BY <2>2
<1>3. CASE EngCrash
  <2>1. PICK k \in 0..Len(channel) : channel' = SubSeq(channel, k + 1, Len(channel))
    BY <1>3 DEF EngCrash
  <2>2. /\ Len(channel') = Len(channel) - k
        /\ \A j \in 1..(Len(channel) - k) : channel'[j] = channel[k + j]
    BY <1>1, <2>1, PartOf
  <2>3. \A j \in 1..Len(channel') : k + j \in 1..Len(channel) /\ channel'[j] = channel[k + j]
    BY <1>1, <2>2
  <2> QED
    BY <2>3
<1>4. CASE CtlStop
  <2>1. PICK k \in 0..Len(channel) : channel' = SubSeq(channel, 1, k)
    BY <1>1, <1>4 DEF CtlStop
  <2>2. Len(channel') = k /\ \A j \in 1..k : channel'[j] = channel[j]
    BY <1>1, <2>1, PartOf
  <2> QED
    BY <1>1, <2>2
<1>5. CASE channel' = channel
  BY <1>5
<1>6. Recv \/ EngCrash \/ CtlStop \/ channel' = channel
  BY DEF Next, vars, Controller, GateReject, GateAccept, CtlSave, CtlCrash, CtlBoot, Engine,
         DropMalformed, Skip, Admit, EmitAlert, WriteEvent, PipelineError, Advance, EngBoot,
         Reset, ResetTables, ResetMemory, ResetFile, ResetController, ResetFails
<1> QED
  BY <1>2, <1>3, <1>4, <1>5, <1>6

\* The rest of the steps: nothing is sent and nothing recorded.
LEMMA KeptOther ==
    ASSUME TypeOK, Generations, Planned, Advancing, Kept, resets' = 0, [Next]_vars,
           ~CtlSend, ~WriteEvent
    PROVE  /\ UNCHANGED <<sentTop, log>> /\ Transit' \subseteq Transit
           /\ Kept'
<1>1. /\ {file, offset, sentTop, lastOffset, committed, hand.off, resets, gen} \subseteq Nat
      /\ LastRecorded \in Nat /\ channel \in Seq(Events) /\ Len(channel) \in Nat
      /\ Len(channel') \in Nat
  BY LastRecordedType, TypeNext, LenProperties DEF TypeOK, Events
<1>2. ~Reset
  <2>1. resets = 0 /\ ~ResetTables
    <3>1. resets' = resets \/ (ResetTables /\ resets' = resets + 1)
      BY DEF Next, vars, bounds, Controller, GateReject, GateAccept, CtlSave, CtlCrash, CtlBoot,
             Engine, DropMalformed, Skip, Recv, Admit, EmitAlert, PipelineError, Advance,
             EngCrash, EngBoot, Reset, ResetTables, ResetMemory, ResetFile, ResetController,
             ResetFails
    <3>2. ResetTables => resets' = resets + 1
      BY DEF ResetTables
    <3> QED
      BY <1>1, <3>1, <3>2
  <2>2. cmd = "idle"
    BY <1>1, <2>1 DEF Generations
  <2> QED
    BY <2>1, <2>2 DEF Reset, ResetMemory, ResetFile, ResetController, ResetFails
<1>3. \/ GateReject \/ GateAccept \/ CtlSave \/ CtlCrash \/ CtlBoot \/ Engine \/ EngCrash
      \/ EngBoot \/ UNCHANGED vars
  BY <1>2 DEF Next, Controller
<1>4. UNCHANGED <<sentTop, log>>
  BY <1>3 DEF vars, history, GateReject, GateAccept, CtlSave, CtlCrash, CtlStop, CtlBoot,
         Engine, DropMalformed, Skip, Recv, Admit, EmitAlert, PipelineError, Advance,
         EngCrash, EngBoot
<1>5. LastRecorded' = LastRecorded
  BY <1>4 DEF LastRecorded
<1>6. \A j \in 1..Len(channel') : \E i \in 1..Len(channel) : channel'[j] = channel[i]
  BY ChannelShrinks
<1>7. InHand' => \/ InHand /\ hand' = hand
                 \/ /\ Len(channel) >= 1 /\ hand' = channel[1]
                    /\ hand'.off > lastOffset /\ pc = "recv"
  <2>1. CASE Admit
    <3>1. /\ pc = "recv" /\ channel # << >> /\ hand' = Head(channel)
          /\ ~(Head(channel).off <= lastOffset)
      BY <2>1 DEF Admit, Recv, AlreadySeen
    <3>2. Len(channel) >= 1 /\ Head(channel) = channel[1] /\ channel[1] \in Events
      BY <1>1, <3>1, EmptySeq, HeadTailProperties, ElementOfSeq
    <3> QED
      BY <1>1, <3>1, <3>2 DEF Events
  <2>2. CASE ~Admit
    BY <1>3, <2>2 DEF vars, eng, InHand, GateReject, GateAccept, CtlSave, CtlCrash, CtlStop,
         CtlBoot, Engine, DropMalformed, Skip, EmitAlert, PipelineError, Advance, EngCrash, EngBoot
  <2> QED
    BY <2>1, <2>2
<1>8. Transit' \subseteq Transit
  <2>1. DOMAIN channel = 1..Len(channel) /\ DOMAIN channel' = 1..Len(channel')
    BY <1>1, TypeNext, LenProperties DEF TypeOK
  <2>2. Contents(channel') \subseteq Contents(channel)
    BY <1>6, <2>1 DEF Contents
  <2>3. InHand' => (InHand /\ hand' = hand) \/ hand' \in Contents(channel)
    BY <1>1, <1>7, <2>1 DEF Contents
  <2> QED
    BY <2>2, <2>3 DEF Transit, InHand
<1>9. committed' = LastRecorded' /\ (pc' \notin {"advance", "down"} => lastOffset' = committed')
  <2>1. CASE Advance
    <3>1. /\ pc = "advance" /\ pc' = "recv" /\ lastOffset' = hand.off /\ committed' = committed
      BY <2>1 DEF Advance
    <3>2. log # << >> /\ hand = log[Len(log)]
      BY <3>1 DEF Advancing
    <3>3. LastRecorded = hand.off
      BY <3>2 DEF LastRecorded
    <3> QED
      BY <1>5, <3>1, <3>3 DEF Kept
  <2>2. CASE EngCrash
    BY <1>5, <2>2 DEF EngCrash, Kept
  <2>3. CASE EngBoot
    BY <1>5, <2>3 DEF EngBoot, Resume, Kept
  <2>4. CASE /\ UNCHANGED <<committed, lastOffset>>
             /\ pc \in {"advance", "down"} => pc' = pc
    BY <1>5, <2>4 DEF Kept
  <2>5. \/ Advance \/ EngCrash \/ EngBoot
        \/ UNCHANGED <<committed, lastOffset>> /\ (pc \in {"advance", "down"} => pc' = pc)
    BY <1>3 DEF vars, eng, GateReject, GateAccept, CtlSave, CtlCrash, CtlStop, CtlBoot, Engine,
         DropMalformed, Skip, Recv, Admit, EmitAlert, PipelineError
  <2> QED
    BY <2>1, <2>2, <2>3, <2>4, <2>5
<1>10. InHand' => hand'.off > LastRecorded' /\ hand'.off <= sentTop'
  <2>1. CASE InHand /\ hand' = hand
    BY <1>4, <1>5, <2>1 DEF Kept
  <2>2. CASE /\ Len(channel) >= 1 /\ hand' = channel[1]
             /\ hand'.off > lastOffset /\ pc = "recv"
    BY <1>1, <1>4, <1>5, <2>2 DEF Kept
  <2> QED
    BY <1>7, <2>1, <2>2
<1>11. LastRecorded' <= sentTop'
  BY <1>4, <1>5 DEF Kept
<1>12. \A j \in 1..Len(channel') : channel'[j].off <= sentTop'
  BY <1>4, <1>6 DEF Kept
<1>13. /\ sentTop' <= file' /\ sentTop' <= offset'
       /\ \A k \in 1..Len(todo') : todo'[k].off >= sentTop'
  <2>1. CASE GateReject \/ GateAccept
    <3>1. /\ offset + 1 <= offset' /\ file' = file /\ offset' \in Nat
          /\ todo' \in Seq(Emissions)
          /\ \A k \in 1..Len(todo') : offset + 1 <= todo'[k].off
      BY <2>1, GateShape, TypeNext DEF TypeOK
    <3>2. \A k \in 1..Len(todo') : todo'[k] \in Emissions
      BY <3>1, ElementOfSeq
    <3>3. \A k \in 1..Len(todo') : todo'[k].off \in Nat
      BY <3>2 DEF Emissions
    <3> QED
      BY <1>1, <1>4, <3>1, <3>3 DEF Kept
  <2>2. CASE CtlSave
    <3>1. /\ todo # << >> /\ file' = todo[1].save /\ UNCHANGED <<offset, todo>>
      BY <2>2 DEF CtlSave
    <3>2. 1 \in 1..Len(todo)
      BY <3>1, LenProperties, EmptySeq DEF TypeOK
    <3>3. todo[1] \in Emissions
      BY <3>2, DueType
    <3>4. todo[1].off \in Nat /\ todo[1].save \in Nat
      BY <3>3 DEF Emissions
    <3> QED
      BY <1>1, <1>4, <3>1, <3>2, <3>4 DEF Kept, Planned
  <2>3. CASE CtlCrash \/ CtlBoot
    <3>1. /\ offset' = offset \/ offset' = file
          /\ file' = file
          /\ Len(todo') = 0 \/ todo' = todo
      BY <2>3, EmptySeq DEF CtlCrash, CtlStop, CtlBoot, LoadOffset
    <3> QED
      BY <1>4, <3>1 DEF Kept
  <2>4. CASE UNCHANGED <<file, offset, todo>>
    BY <1>4, <2>4 DEF Kept
  <2>5. \/ GateReject \/ GateAccept \/ CtlSave \/ CtlCrash \/ CtlBoot
        \/ UNCHANGED <<file, offset, todo>>
    BY <1>3 DEF vars, ctl, Engine, DropMalformed, Skip, Recv, Admit, EmitAlert, PipelineError,
         Advance, EngCrash, EngBoot
  <2> QED
    BY <2>1, <2>2, <2>3, <2>4, <2>5
<1> QED
  BY <1>4, <1>8, <1>9, <1>10, <1>11, <1>12, <1>13 DEF Kept

\* A reset never begins where none may.
LEMMA NoReset ==
    ASSUME MaxReset = 0, TypeOK, Generations, resets = 0, [Next]_vars
    PROVE  resets' = 0 /\ Live
<1>1. gen \in Nat
  BY DEF TypeOK
<1>2. resets' = resets
  BY DEF Next, vars, bounds, Controller, GateReject, GateAccept, CtlSave, CtlSend, CtlCrash,
         CtlBoot, Engine, DropMalformed, Skip, Recv, Admit, EmitAlert, WriteEvent,
         PipelineError, Advance, EngCrash, EngBoot, Reset, ResetTables, ResetMemory, ResetFile,
         ResetController, ResetFails
<1> QED
  BY <1>1, <1>2 DEF Live, Generations

\* The offsets in transit that are above the table's.
Above == {o \in Transit : o > LastRecorded}

\* The table of the link ends where the engine's table does.
LEMMA LastIsLast ==
    ASSUME TypeOK
    PROVE  Link!LastOf(Recorded) = LastRecorded
<1>1. log \in Seq(Events) /\ Len(log) \in Nat
  BY LenProperties DEF TypeOK
<1>2. /\ Recorded \in Seq(Nat) /\ Len(Recorded) = Len(log)
      /\ \A i \in 1..Len(log) : Recorded[i] = log[i].off
  BY <1>1, RecordedType DEF Recorded
<1>3. CASE log = << >>
  <2>1. Recorded = << >>
    BY <1>1, <1>2, <1>3, EmptySeq
  <2> QED
    BY <1>3, <2>1 DEF Link!LastOf, LastRecorded
<1>4. CASE log # << >>
  <2>1. Len(log) \in 1..Len(log) /\ Recorded # << >>
    BY <1>1, <1>2, <1>4, EmptySeq
  <2> QED
    BY <1>2, <1>4, <2>1 DEF Link!LastOf, LastRecorded
<1> QED
  BY <1>3, <1>4

\* Sending hands a number to the link, or nothing it does not have.
LEMMA SendSubmits ==
    ASSUME TypeOK, Planned, Kept, Live, CtlSend
    PROVE  Link!Submit \/ UNCHANGED <<sentTop, Above, Recorded>>
<1> DEFINE o == todo[1].off
<1>1. sentTop' = o /\ sentTop <= o /\ o \in Nat
  BY KeptSend
<1>2. /\ channel' = Append(channel, Due(1)) /\ UNCHANGED <<pc, hand, log>>
  BY DEF CtlSend, Due, eng
<1>3. LastRecorded' = LastRecorded /\ Recorded' = Recorded /\ LastRecorded \in Nat
      /\ LastRecorded <= sentTop /\ sentTop \in Nat
  BY <1>2, LastRecordedType DEF LastRecorded, Recorded, Kept, TypeOK
<1>4. Transit' = Transit \cup {o}
  <2>1. channel \in Seq(Events) /\ todo # << >> /\ todo \in Seq(Emissions)
    BY DEF TypeOK, CtlSend
  <2>2. Due(1) \in Events /\ Due(1).off = o
    BY <2>1, DueType, LenProperties, EmptySeq DEF Due
  <2>3. /\ channel' \in Seq(Events)
        /\ Len(channel') = Len(channel) + 1 /\ channel'[Len(channel) + 1] = Due(1)
        /\ \A j \in 1..Len(channel) : channel'[j] = channel[j]
        /\ Len(channel) \in Nat
    BY <1>2, <2>1, <2>2, AppendProperties, LenProperties
  <2>4. DOMAIN channel = 1..Len(channel) /\ DOMAIN channel' = 1..(Len(channel) + 1)
    BY <2>1, <2>3, LenProperties
  <2>5. Contents(channel') = Contents(channel) \cup {Due(1)}
    <3>1. ASSUME NEW e \in Contents(channel') PROVE e \in Contents(channel) \cup {Due(1)}
      BY <2>3, <2>4 DEF Contents
    <3>2. ASSUME NEW e \in Contents(channel) PROVE e \in Contents(channel')
      BY <2>3, <2>4 DEF Contents
    <3>3. Due(1) \in Contents(channel')
      BY <2>3, <2>4 DEF Contents
    <3> QED
      BY <3>1, <3>2, <3>3
  <2> QED
    BY <1>2, <2>2, <2>5 DEF Transit
<1> HIDE DEF o
<1>5. CASE o > LastRecorded
  <2>1. Above' = Above \cup {o}
    BY <1>3, <1>4, <1>5 DEF Above
  <2>2. sentTop' > Link!LastOf(Recorded)
    BY <1>1, <1>5, LastIsLast
  <2> QED
    BY <1>1, <1>3, <2>1, <2>2 DEF Link!Submit, Above
<1>6. CASE ~(o > LastRecorded)
  <2>1. Above' = Above
    BY <1>3, <1>4, <1>6 DEF Above
  <2>2. sentTop' = sentTop
    BY <1>1, <1>3, <1>6
  <2> QED
    BY <1>3, <2>1, <2>2
<1> QED
  BY <1>5, <1>6

\* Writing records the number of the event in hand, which leaves behind the smaller ones.
LEMMA WriteRecords ==
    ASSUME TypeOK, Kept, WriteEvent
    PROVE  \E o \in Above : Link!Record(o)
<1>1. PICK o \in Nat : o = hand.off
  BY DEF TypeOK, Events
<1>2. /\ LastRecorded' = o /\ LastRecorded < o /\ Recorded' = Append(Recorded, o)
      /\ LastRecorded \in Nat
  BY <1>1, KeptWrite, LastRecordedType
<1>3. /\ pc = "write" /\ pc' = "advance" /\ UNCHANGED <<channel, hand, sentTop>>
  BY DEF WriteEvent
<1>4. /\ Transit = {e.off : e \in Contents(channel)} \cup {o}
      /\ Transit' = {e.off : e \in Contents(channel)}
  BY <1>1, <1>3 DEF Transit, Contents
<1>5. o \in Above
  BY <1>2, <1>4 DEF Above
<1>6. {e.off : e \in Contents(channel)} \subseteq Nat
  <2>1. channel \in Seq(Events)
    BY DEF TypeOK
  <2>2. Contents(channel) \subseteq Events
    BY <2>1, ContentsType
  <2> QED
    BY <2>2 DEF Events
<1>7. Above' = {p \in Above : p > o}
  <2>1. ASSUME NEW p \in Above' PROVE p \in Above /\ p > o
    <3>1. p \in Transit' /\ p > LastRecorded'
      BY <2>1 DEF Above
    <3>2. p \in Transit /\ p \in Nat /\ p > o
      BY <1>2, <1>4, <1>6, <3>1
    <3> QED
      BY <1>2, <3>2 DEF Above
  <2>2. ASSUME NEW p \in Above, p > o PROVE p \in Above'
    BY <1>2, <1>4, <1>6, <2>2 DEF Above
  <2> QED
    BY <2>1, <2>2
<1>8. o > Link!LastOf(Recorded)
  BY <1>2, LastIsLast
<1>9. Link!Record(o)
  BY <1>2, <1>3, <1>5, <1>7, <1>8 DEF Link!Record, Above
<1> QED
  BY <1>5, <1>9

\* Without resets the numbering of events (controller.py main, engine.py main) is an ordered
\* link: what the engine records are numbers that were sent, each larger than the one before
\* it, through any number of crashes of both processes.
THEOREM LinkRefined ==
    ASSUME MaxReset = 0
    PROVE  Spec => RefinesLink
<1> DEFINE Inv == /\ TypeOK /\ Generations /\ Planned /\ Advancing
                  /\ Kept /\ resets = 0
<1>1. Init => Inv
  BY TypeInit, OrderInit, TippedInit, KeptInit DEF Init
<1>2. ASSUME Inv, [Next]_vars
      PROVE  Inv' /\ [Link!Next]_(Link!LinkVars)
  <2>1. resets' = 0 /\ Live
    BY <1>2, NoReset
  <2>2. Kept' /\ [Link!Next]_(Link!LinkVars)
    <3>1. CASE CtlSend
      <4>1. Kept'
        BY <1>2, <2>1, <3>1, KeptSend
      <4>2. Link!Submit \/ UNCHANGED <<sentTop, Above, Recorded>>
        BY <1>2, <2>1, <3>1, SendSubmits
      <4> QED
        BY <4>1, <4>2 DEF Link!Next, Link!LinkVars, Above
    <3>2. CASE WriteEvent
      <4>1. Kept'
        BY <1>2, <3>2, KeptWrite
      <4>2. \E o \in Above : Link!Record(o)
        BY <1>2, <3>2, WriteRecords
      <4> QED
        BY <4>1, <4>2 DEF Link!Next, Above
    <3>3. CASE ~CtlSend /\ ~WriteEvent
      <4>1. UNCHANGED <<sentTop, log>> /\ Transit' \subseteq Transit /\ Kept'
        BY <1>2, <2>1, <3>3, KeptOther
      <4>2. LastRecorded' = LastRecorded /\ Recorded' = Recorded
        BY <4>1 DEF LastRecorded, Recorded
      <4>3. Above' \subseteq Above
        BY <4>1, <4>2 DEF Above
      <4> QED
        BY <4>1, <4>2, <4>3 DEF Link!Next, Link!Lose, Above
    <3> QED
      BY <3>1, <3>2, <3>3
  <2> QED
    BY <1>2, <2>1, <2>2, TypeNext, GenerationsNext, PlannedNext, AdvancingNext
<1>3. Init => Link!Init
  <2> SUFFICES ASSUME Init PROVE Link!Init
    OBVIOUS
  <2>1. channel = << >> /\ log = << >> /\ pc = "recv" /\ sentTop = 0
    BY DEF Init
  <2>2. DOMAIN << >> = {}
    OBVIOUS
  <2>3. Transit = {}
    BY <2>1, <2>2 DEF Transit, Contents
  <2>4. Recorded = << >>
    <3>1. log \in Seq(Events) /\ Len(log) = 0
      BY <2>1, EmptySeq
    <3> QED
      BY <3>1, RecordedType, EmptySeq DEF Recorded
  <2> QED
    BY <2>1, <2>3, <2>4 DEF Link!Init
<1> QED
  BY <1>1, <1>2, <1>3, PTL DEF Spec, RefinesLink, Link!Spec

=============================================================================
