--------------------------- MODULE EnforcementProofs ---------------------------
(***************************************************************************)
(* Proofs about Enforcement for every set of events, every bucket limit    *)
(* and every bound.                                                        *)
(***************************************************************************)
EXTENDS Enforcement, FiniteSets, TLAPS, SequenceTheorems, FiniteSetTheorems, FunctionTheorems

------------------------------------------------------------------------------
(* Type correctness.                                                         *)

\* Telemetry is an event, and so is every threat.
LEMMA EventTypes ==
    /\ Telemetry \in EventType
    /\ \A e \in {Telemetry} \cup Threats : e \in EventType
<1>1. Telemetry \in EventType
  BY DEF Telemetry, EventType
<1>2. Threats \subseteq EventType
  BY EnforcementAssumption
<1> QED
  BY <1>1, <1>2

\* What the scorer makes of an event in hand is a score.
LEMMA NewScoreType ==
    ASSUME score \in Nat, NEW e \in {Telemetry} \cup Threats
    PROVE  NewScore(e) \in Nat
<1>1. e.weight \in Nat
  BY EventTypes DEF EventType
<1>2. Decay \in Nat /\ NoDecay \in Nat
  BY EnforcementAssumption
<1> QED
  BY <1>1, <1>2 DEF NewScore

\* The initial state is well typed.
LEMMA TypeInit == Init => TypeOK
<1> SUFFICES ASSUME Init PROVE TypeOK
  OBVIOUS
<1>1. queue \in Seq({Telemetry} \cup Threats) /\ Len(queue) <= MaxQueue
  BY EnforcementAssumption, EmptySeq DEF Init
<1>2. {row, ip} \subseteq BOOLEAN
  BY Zenon DEF Init
<1> QED
  BY <1>1, <1>2 DEF Init, TypeOK, Statuses

\* The steps of the world keep the types.
LEMMA TypeWorld ==
    ASSUME TypeOK, Observe \/ Threaten \/ FallSilent
    PROVE  TypeOK'
<1> DEFINE E == {Telemetry} \cup Threats
<1>1. ASSUME NEW e \in E, Len(queue) < MaxQueue, queue' = Append(queue, e)
      PROVE  queue' \in Seq(E) /\ Len(queue') <= MaxQueue
  <2>1. queue \in Seq(E) /\ Len(queue) \in Nat /\ MaxQueue \in Nat
    BY EnforcementAssumption DEF TypeOK
  <2>2. queue' \in Seq(E) /\ Len(queue') = Len(queue) + 1
    BY <1>1, <2>1, AppendProperties
  <2> QED
    BY <1>1, <2>1, <2>2
<1>2. CASE Observe
  <2>1. queue' \in Seq(E) /\ Len(queue') <= MaxQueue
    BY <1>1, <1>2 DEF Observe
  <2> QED
    BY <1>2, <2>1 DEF Observe, TypeOK, node, main, bounds
<1>3. CASE Threaten
  <2>1. queue' \in Seq(E) /\ Len(queue') <= MaxQueue
    BY <1>1, <1>3 DEF Threaten
  <2> QED
    BY <1>3, <2>1 DEF Threaten, TypeOK, node, main
<1>4. CASE FallSilent
  BY <1>4 DEF FallSilent, TypeOK, node, main, bounds
<1> QED
  BY <1>2, <1>3, <1>4

\* The steps of the event loop and its errors keep the types.
LEMMA TypeLoop ==
    ASSUME TypeOK, EventLoop \/ PipelineError \/ PauseError \/ QuarantineError
    PROVE  TypeOK'
<1> USE DEF TypeOK, node, bounds
<1>1. CASE Recv
  <2>1. queue \in Seq({Telemetry} \cup Threats) /\ queue # << >>
    BY <1>1 DEF Recv
  <2>2. /\ ev' \in {Telemetry} \cup Threats
        /\ queue' \in Seq({Telemetry} \cup Threats)
        /\ Len(queue') = Len(queue) - 1 /\ Len(queue) \in Nat
    BY <1>1, <2>1, HeadTailProperties DEF Recv
  <2>3. Len(queue') <= MaxQueue
    <3>1. MaxQueue \in Nat /\ Len(queue) <= MaxQueue
      BY EnforcementAssumption
    <3> QED
      BY <2>2, <3>1
  <2>4. lastSeen' \in {"none", "fresh", "stale"} /\ pc' \in {"process", "alert"}
    BY <1>1 DEF Recv
  <2> QED
    BY <1>1, <2>2, <2>3, <2>4 DEF Recv
<1>2. CASE EmitFromEvent
  BY <1>2 DEF EmitFromEvent, Remedy, Fault
<1>3. CASE Process
  BY <1>3, NewScoreType DEF Process
<1>4. CASE WriteEvent
  BY <1>4 DEF WriteEvent
<1>5. CASE UpdateStatus
  BY <1>5 DEF UpdateStatus, StatusFor, Statuses, Dispatch
<1>6. CASE Pause \/ CheckRule \/ InsertRule \/ RecordAddress
  BY <1>6 DEF Pause, CheckRule, InsertRule, RecordAddress
<1>7. CASE Stop \/ Mark \/ Seize \/ Seal
  BY <1>7 DEF Stop, Mark, Seize, Seal, StopAt, MarkAt, Statuses, main
<1>8. CASE Detect
  BY <1>8 DEF Detect, Remedy, Fault
<1>9. CASE PipelineError \/ PauseError \/ QuarantineError
  BY <1>9 DEF PipelineError, PauseError, QuarantineError, Fault
<1> QED
  BY <1>1, <1>2, <1>3, <1>4, <1>5, <1>6, <1>7, <1>8, <1>9 DEF EventLoop

\* The commands keep the types.
LEMMA TypeCommands ==
    ASSUME TypeOK,
           Approve \/ Restart \/ Deny \/ Reset \/ CommandStep \/ NoDocker \/ CommandError
    PROVE  TypeOK'
<1> USE DEF TypeOK, node, main, bounds
<1>1. CASE Approve \/ Restart \/ Deny
  BY <1>1 DEF Approve, Restart, Deny, Begin
<1>2. CASE Reset
  <2>1. {row', ip'} \subseteq BOOLEAN
    BY <1>2, Zenon DEF Reset
  <2> QED
    BY <1>2, <2>1 DEF Reset, Statuses
<1>3. CASE Unpause \/ Start \/ RestartContainer
  BY <1>3 DEF Unpause, Start, RestartContainer, Released
<1>4. CASE Unblock \/ Free
  BY <1>4 DEF Unblock, Free, Unblocked
<1>5. CASE ClearAddress \/ Leftover
  <2>1. {row', ip'} \subseteq BOOLEAN
    BY <1>5, Zenon DEF ClearAddress, Leftover
  <2> QED
    BY <1>5, <2>1 DEF ClearAddress, Leftover
<1>6. CASE ClearScore
  <2>1. {score', new', drops'} \subseteq Nat
    BY <1>6 DEF ClearScore
  <2> QED
    BY <1>6, <2>1 DEF ClearScore
<1>7. CASE ClearStatus
  <2>1. {row', ip'} \subseteq BOOLEAN
    BY <1>7 DEF ClearStatus
  <2> QED
    BY <1>7, <2>1 DEF ClearStatus, Statuses
<1>8. CASE Kill \/ Block \/ MarkDenied \/ ForgetSeen
  BY <1>8 DEF Kill, Block, MarkDenied, ForgetSeen, Statuses
<1>9. CASE NoDocker \/ CommandError
  BY <1>9 DEF NoDocker, CommandError, Fault
<1> QED
  BY <1>1, <1>2, <1>3, <1>4, <1>5, <1>6, <1>7, <1>8, <1>9 DEF CommandStep

\* The heartbeat checker and a crash keep the types.
LEMMA TypeRest ==
    ASSUME TypeOK, Heartbeat \/ HeartbeatError \/ EngineCrash \/ EngineBoot
    PROVE  TypeOK'
<1> USE DEF TypeOK, node, main, bounds
<1>1. CASE Heartbeat
  BY <1>1 DEF Heartbeat, HeartbeatCheck, HeartbeatWrite, HeartbeatStop, HeartbeatMark,
              HeartbeatSeal, HeartbeatMarkAt, Statuses
<1>2. CASE HeartbeatError
  BY <1>2 DEF HeartbeatError, Fault
<1>3. CASE EngineCrash
  <2>1. queue' \in Seq({Telemetry} \cup Threats) /\ Len(queue') <= MaxQueue
    <3> DEFINE E == {Telemetry} \cup Threats
    <3>1. << >> \in Seq(E) /\ Len(<< >>) = 0 /\ 0 <= MaxQueue
      BY EmptySeq, EnforcementAssumption
    <3>2. queue' = queue \/ queue' = << >>
      BY <1>3 DEF EngineCrash
    <3>3. queue \in Seq(E) /\ Len(queue) <= MaxQueue
      OBVIOUS
    <3> QED
      BY <3>1, <3>2, <3>3
  <2>2. {score', new', drops'} \subseteq Nat
    BY <1>3 DEF EngineCrash
  <2>3. {threats', commands', resets', faults', crashes'} \subseteq Nat
    BY <1>3 DEF EngineCrash
  <2>4. /\ {row', ip'} \subseteq BOOLEAN /\ status' \in Statuses
        /\ container' \in {"running", "paused", "exited"}
        /\ ev' \in {Telemetry} \cup Threats /\ lastSeen' = "none"
        /\ pc' = "down" /\ cpc' = "idle" /\ hpc' = "idle"
    BY <1>3 DEF EngineCrash
  <2> QED
    BY <2>1, <2>2, <2>3, <2>4
<1>4. CASE EngineBoot
  BY <1>4 DEF EngineBoot
<1> QED
  BY <1>1, <1>2, <1>3, <1>4

\* Every step keeps the types.
LEMMA TypeNext == TypeOK /\ [Next]_vars => TypeOK'
<1> SUFFICES ASSUME TypeOK, [Next]_vars PROVE TypeOK'
  OBVIOUS
<1>1. CASE UNCHANGED vars
  BY <1>1 DEF TypeOK, vars, node, main, bounds
<1>2. CASE Next
  BY <1>2, TypeWorld, TypeLoop, TypeCommands, TypeRest DEF Next
<1> QED
  BY <1>1, <1>2

\* The rows, the container and the positions of the engine's threads always have their
\* types, whatever the threads do to each other (engine.py, cmd_server.py, router.py).
THEOREM TypeCorrect == Spec => []TypeOK
BY TypeInit, TypeNext, PTL DEF Spec

------------------------------------------------------------------------------
(* A committed score is enforced.                                            *)

\* A command is not at a step of reset unless there was a reset.
NotResetting == resets = 0 => cpc \notin {"memory", "restart", "leftover"}

\* Between the commit of a score and the call to Docker it asks for, the score is the one
\* committed or has been cleared by a command; a pause is asked for a "high" score only.
DecisionStands ==
    /\ pc = "status" => score \in {new, 0}
    /\ pc = "pause" => score <= HighTop

Enforced == NotResetting /\ DecisionStands /\ ScoreIsEnforced

\* Nothing is decided and nothing scored at the start.
LEMMA EnforcedInit == Init => Enforced
<1> SUFFICES ASSUME Init PROVE Enforced
  OBVIOUS
<1>1. MediumTop \in Nat /\ HighTop \in Nat
  BY EnforcementAssumption
<1> QED
  BY <1>1 DEF Init, Enforced, NotResetting, DecisionStands, ScoreIsEnforced

\* The steps that fail, lose or reset something disturb; what is left to show of them is
\* that the decision at hand still stands.
LEMMA DisturbedStep ==
    ASSUME TypeOK, Enforced,
           \/ PipelineError \/ PauseError \/ QuarantineError \/ NoDocker \/ CommandError
           \/ HeartbeatError \/ EngineCrash \/ Reset
    PROVE  Enforced'
<1>1. HighTop \in Nat
  BY EnforcementAssumption
<1>2. ~Undisturbed' /\ NotResetting'
  BY DEF TypeOK, Enforced, NotResetting, Undisturbed, Fault, PipelineError, PauseError,
         QuarantineError, NoDocker, CommandError, HeartbeatError, EngineCrash, Reset,
         Statuses
<1>3. DecisionStands'
  BY <1>1 DEF TypeOK, Enforced, DecisionStands, PipelineError, PauseError, QuarantineError,
              NoDocker, CommandError, HeartbeatError, EngineCrash, Reset, node, main
<1> QED
  BY <1>2, <1>3 DEF Enforced, ScoreIsEnforced

\* The event loop enforces what it commits.
LEMMA LoopStep ==
    ASSUME TypeOK, Enforced, EventLoop
    PROVE  Enforced'
<1> USE DEF Enforced, NotResetting, DecisionStands, ScoreIsEnforced, Undisturbed
<1>1. MediumTop \in Nat /\ HighTop \in Nat /\ score \in Nat /\ new \in Nat
  BY EnforcementAssumption DEF TypeOK
<1>2. CASE Recv \/ Process \/ CheckRule \/ InsertRule \/ RecordAddress \/ Mark \/ Seal
  BY <1>2 DEF Recv, Process, CheckRule, InsertRule, RecordAddress, Mark, Seal, MarkAt,
              node, bounds
<1>3. CASE EmitFromEvent \/ Detect
  BY <1>3 DEF TypeOK, EmitFromEvent, Detect, Remedy, Fault, node, bounds
<1>4. CASE WriteEvent
  BY <1>4 DEF WriteEvent, bounds
<1>5. CASE UpdateStatus
  <2>1. \/ pc' = "pause" /\ new <= HighTop
        \/ pc' = "stop"
        \/ pc' = "detect" /\ new <= MediumTop
    BY <1>1, <1>5 DEF UpdateStatus, Dispatch, Bucket
  <2>2. MediumTop < HighTop
    BY <1>1, EnforcementAssumption
  <2> QED
    BY <1>1, <1>5, <2>1, <2>2 DEF UpdateStatus, bounds
<1>6. CASE Pause
  BY <1>1, <1>6 DEF Pause, node, bounds
<1>7. CASE Stop \/ Seize
  BY <1>7 DEF Stop, Seize, StopAt, node, bounds
<1> QED
  BY <1>2, <1>3, <1>4, <1>5, <1>6, <1>7 DEF EventLoop

\* A command that releases the container clears the score before it is done.
LEMMA CommandsStep ==
    ASSUME TypeOK, Enforced, Approve \/ Restart \/ Deny \/ CommandStep
    PROVE  Enforced'
<1> USE DEF Enforced, NotResetting, DecisionStands, ScoreIsEnforced, Undisturbed
<1>1. MediumTop \in Nat /\ HighTop \in Nat /\ score \in Nat /\ new \in Nat
  BY EnforcementAssumption DEF TypeOK
<1>2. CASE Approve \/ Restart \/ Deny
  BY <1>2 DEF Approve, Restart, Deny, Begin, node, main
<1>3. CASE Unpause \/ Start \/ RestartContainer
  BY <1>3 DEF Unpause, Start, RestartContainer, Released, node, main, bounds
<1>4. CASE Unblock \/ Free \/ Leftover
  BY <1>4 DEF Unblock, Free, Unblocked, Leftover, node, main, bounds
<1>5. CASE ClearScore
  BY <1>1, <1>5 DEF ClearScore, main, bounds
<1>6. CASE ClearAddress \/ ClearStatus \/ Block \/ MarkDenied \/ ForgetSeen
  BY <1>6 DEF ClearAddress, ClearStatus, Block, MarkDenied, ForgetSeen, node, main, bounds
<1>7. CASE Kill
  BY <1>7 DEF Kill, node, main, bounds
<1> QED
  BY <1>2, <1>3, <1>4, <1>5, <1>6, <1>7 DEF CommandStep

\* The world sends and waits; the heartbeat checker only stops containers.
LEMMA OtherStep ==
    ASSUME TypeOK, Enforced, Observe \/ Threaten \/ FallSilent \/ Heartbeat \/ EngineBoot
    PROVE  Enforced'
<1> USE DEF Enforced, NotResetting, DecisionStands, ScoreIsEnforced, Undisturbed
<1>1. CASE Observe \/ Threaten \/ FallSilent
  BY <1>1 DEF Observe, Threaten, FallSilent, node, main, bounds
<1>2. CASE Heartbeat
  BY <1>2 DEF Heartbeat, HeartbeatCheck, HeartbeatWrite, HeartbeatStop, HeartbeatMark,
              HeartbeatSeal, HeartbeatMarkAt, node, main, bounds
<1>3. CASE EngineBoot
  BY <1>3 DEF EngineBoot, node, bounds
<1> QED
  BY <1>1, <1>2, <1>3

\* Every step keeps committed scores enforced.
LEMMA EnforcedNext == TypeOK /\ Enforced /\ [Next]_vars => Enforced'
<1> SUFFICES ASSUME TypeOK, Enforced, [Next]_vars PROVE Enforced'
  OBVIOUS
<1>1. CASE UNCHANGED vars
  BY <1>1 DEF Enforced, NotResetting, DecisionStands, ScoreIsEnforced, Undisturbed, vars,
              node, main, bounds
<1>2. CASE Next
  BY <1>2, DisturbedStep, LoopStep, CommandsStep, OtherStep DEF Next
<1> QED
  BY <1>1, <1>2

\* Without failures, crashes and resets no interleaving of the event loop, the commands and
\* the heartbeat checker leaves a committed high score on a running container, but for the
\* steps the property names (engine.py 186-226, router.py, cmd_server.py).
THEOREM ScoreAlwaysEnforced == Spec => []ScoreIsEnforced
<1>1. Enforced => ScoreIsEnforced
  BY DEF Enforced
<1> QED
  BY <1>1, TypeInit, TypeNext, EnforcedInit, EnforcedNext, PTL DEF Spec

------------------------------------------------------------------------------
(* A silenced node is silent.                                                *)

\* While the checker is at work, the lock keeps every writer of node_last_seen away.
LEMMA SilencedNext == HeardIsNotSilenced /\ [Next]_vars => HeardIsNotSilenced'
<1> SUFFICES ASSUME HeardIsNotSilenced, [Next]_vars PROVE HeardIsNotSilenced'
  OBVIOUS
<1> USE DEF HeardIsNotSilenced
<1>1. CASE Recv \/ ForgetSeen
  BY <1>1 DEF Recv, ForgetSeen, LockFree
<1>2. CASE HeartbeatCheck
  BY <1>2 DEF HeartbeatCheck, Due
<1>3. CASE FallSilent \/ EngineCrash \/ EngineBoot
  BY <1>3 DEF FallSilent, EngineCrash, EngineBoot
<1>4. CASE HeartbeatWrite \/ HeartbeatStop \/ HeartbeatMark \/ HeartbeatSeal \/ HeartbeatError
  BY <1>4 DEF HeartbeatWrite, HeartbeatStop, HeartbeatMark, HeartbeatSeal, HeartbeatMarkAt,
              HeartbeatError
<1>5. CASE \/ EmitFromEvent \/ Process \/ WriteEvent \/ UpdateStatus \/ Pause \/ CheckRule
           \/ InsertRule \/ RecordAddress \/ Stop \/ Mark \/ Detect \/ Seize \/ Seal
           \/ PipelineError \/ PauseError \/ QuarantineError
  <2>1. UNCHANGED <<lastSeen, hpc>>
    BY <1>5 DEF EmitFromEvent, Process, WriteEvent, UpdateStatus, Pause, CheckRule, InsertRule,
                RecordAddress, Stop, Mark, Detect, Seize, Seal, StopAt, MarkAt, PipelineError,
                PauseError, QuarantineError
  <2> QED
    BY <2>1
<1>6. CASE \/ Approve \/ Restart \/ Deny \/ Reset \/ NoDocker \/ CommandError
           \/ Unpause \/ Unblock \/ Free \/ Start \/ ClearScore \/ ClearAddress \/ ClearStatus
           \/ Kill \/ Block \/ MarkDenied \/ RestartContainer \/ Leftover
  <2>1. UNCHANGED <<lastSeen, hpc>>
    BY <1>6 DEF Approve, Restart, Deny, Begin, Reset, NoDocker, CommandError, Unpause, Start,
                RestartContainer, Released, Unblock, Free, Unblocked, ClearScore, ClearAddress,
                ClearStatus, Kill, Block, MarkDenied, Leftover
  <2> QED
    BY <2>1
<1>7. CASE Observe \/ Threaten \/ UNCHANGED vars
  BY <1>7 DEF Observe, Threaten, vars
<1> QED
  BY <1>1, <1>2, <1>3, <1>4, <1>5, <1>6, <1>7 DEF Next, EventLoop, CommandStep, Heartbeat

\* heartbeat_checker (engine.py): from the look at node_last_seen to the end of the
\* quarantine nothing is heard of the node, through errors, crashes and resets, because the
\* event loop and reset need the lock too.
THEOREM SilencedAreSilent == Spec => []HeardIsNotSilenced
<1>1. Init => HeardIsNotSilenced
  BY DEF Init, HeardIsNotSilenced
<1> QED
  BY <1>1, SilencedNext, PTL DEF Spec

------------------------------------------------------------------------------
(* How a score falls.                                                        *)

\* A decision that lowers the score is one decay of a score below NoDecay, also when a command
\* cleared the score it was based on in the meantime: then it does not lower it.
DecisionDecays ==
    pc = "write" /\ new < score => score < NoDecay /\ score - new <= Decay

\* The scorer adds, holds, or takes one decay off.
LEMMA NewScoreFalls ==
    ASSUME TypeOK, NewScore(ev) < score
    PROVE  score < NoDecay /\ score - NewScore(ev) <= Decay
<1>1. ev.weight \in Nat
  BY EventTypes DEF EventType, TypeOK
<1>2. Decay \in Nat /\ NoDecay \in Nat /\ score \in Nat
  BY EnforcementAssumption DEF TypeOK
<1>3. CASE ev.weight > 0
  BY <1>1, <1>2, <1>3 DEF NewScore
<1>4. CASE ev.weight = 0 /\ score >= NoDecay
  BY <1>1, <1>2, <1>4 DEF NewScore
<1>5. CASE ev.weight = 0 /\ score < NoDecay
  <2>1. NewScore(ev) = IF score > Decay THEN score - Decay ELSE 0
    BY <1>2, <1>5 DEF NewScore
  <2> QED
    BY <1>2, <1>5, <2>1
<1> QED
  BY <1>1, <1>2, <1>3, <1>4, <1>5

\* Only these steps touch the score; every step takes it down as the property says, and
\* leaves a decision that does.
LEMMA FallsNext ==
    TypeOK /\ DecisionDecays /\ [Next]_vars
        => /\ DecisionDecays'
           /\ score' < score => \/ cpc = "score" /\ cpc' # "score"
                                \/ resets' > resets
                                \/ score < NoDecay /\ score - score' <= Decay
<1> DEFINE Falls == score' < score => \/ cpc = "score" /\ cpc' # "score"
                                      \/ resets' > resets
                                      \/ score < NoDecay /\ score - score' <= Decay
<1> SUFFICES ASSUME TypeOK, DecisionDecays, [Next]_vars PROVE DecisionDecays' /\ Falls
  OBVIOUS
<1>1. /\ score \in Nat /\ new \in Nat /\ resets \in Nat
      /\ Decay \in Nat /\ NoDecay \in Nat
  BY EnforcementAssumption DEF TypeOK
<1>2. ASSUME UNCHANGED score, pc' # "write" PROVE DecisionDecays' /\ Falls
  BY <1>1, <1>2 DEF DecisionDecays
<1>3. ASSUME UNCHANGED <<score, new, pc>> PROVE DecisionDecays' /\ Falls
  BY <1>1, <1>3 DEF DecisionDecays
<1>4. CASE Process
  <2>1. UNCHANGED score /\ new' = NewScore(ev)
    BY <1>4 DEF Process, node
  <2> QED
    BY <1>1, <2>1, NewScoreFalls DEF DecisionDecays
<1>5. CASE WriteEvent
  BY <1>1, <1>5 DEF WriteEvent, DecisionDecays
<1>6. CASE ClearScore
  <2>1. score' = 0 /\ cpc = "score" /\ cpc' # "score" /\ UNCHANGED <<new, pc>>
    BY <1>6 DEF ClearScore, main
  <2> QED
    BY <1>1, <2>1 DEF DecisionDecays
<1>7. CASE Reset
  <2>1. score' = 0 /\ resets' = resets + 1 /\ UNCHANGED <<new, pc>>
    BY <1>7 DEF Reset, main
  <2> QED
    BY <1>1, <2>1 DEF DecisionDecays
<1>8. CASE \/ Recv \/ EmitFromEvent \/ UpdateStatus \/ Pause \/ CheckRule \/ InsertRule
           \/ RecordAddress \/ Stop \/ Mark \/ Detect \/ Seize \/ Seal
           \/ PipelineError \/ PauseError \/ QuarantineError \/ EngineCrash \/ EngineBoot
  <2>1. UNCHANGED score
    BY <1>8 DEF Recv, EmitFromEvent, UpdateStatus, Pause, CheckRule, InsertRule, RecordAddress,
                Stop, Mark, Detect, Seize, Seal, StopAt, MarkAt, PipelineError, PauseError,
                QuarantineError, EngineCrash, EngineBoot, node
  <2>2. pc' # "write"
    BY <1>8 DEF Recv, EmitFromEvent, UpdateStatus, Pause, CheckRule, InsertRule, RecordAddress,
                Stop, Mark, Detect, Seize, Seal, StopAt, MarkAt, PipelineError, PauseError,
                QuarantineError, EngineCrash, EngineBoot, Dispatch
  <2> QED
    BY <1>2, <2>1, <2>2
<1>9. CASE \/ Approve \/ Restart \/ Deny \/ NoDocker \/ CommandError
           \/ Unpause \/ Unblock \/ Free \/ Start \/ ClearAddress \/ ClearStatus
           \/ Kill \/ Block \/ MarkDenied \/ ForgetSeen \/ RestartContainer \/ Leftover
  <2>1. UNCHANGED <<score, new, pc>>
    BY <1>9 DEF Approve, Restart, Deny, Begin, NoDocker, CommandError, Unpause, Start,
                RestartContainer, Released, Unblock, Free, Unblocked, ClearAddress, ClearStatus,
                Kill, Block, MarkDenied, ForgetSeen, Leftover, node, main
  <2> QED
    BY <1>3, <2>1
<1>10. CASE \/ Observe \/ Threaten \/ FallSilent \/ HeartbeatCheck \/ HeartbeatWrite
            \/ HeartbeatStop \/ HeartbeatMark \/ HeartbeatSeal \/ HeartbeatError
            \/ UNCHANGED vars
  <2>1. UNCHANGED <<score, new, pc>>
    BY <1>10 DEF Observe, Threaten, FallSilent, HeartbeatCheck, HeartbeatWrite, HeartbeatStop,
                 HeartbeatMark, HeartbeatSeal, HeartbeatMarkAt, HeartbeatError, vars, node, main
  <2> QED
    BY <1>3, <2>1
<1> QED
  BY <1>4, <1>5, <1>6, <1>7, <1>8, <1>9, <1>10 DEF Next, EventLoop, CommandStep, Heartbeat

\* WeightedScorer.score and the three writers of a score (write_event, reset_node_score,
\* reset_all_tables): for any thresholds, any interleaving and any failures, a score falls
\* only by a command, by reset or by one decay below NoDecay.
THEOREM ScoreFallsAreExplained == Spec => FallsAreExplained
<1>1. Init => DecisionDecays
  BY DEF Init, DecisionDecays
<1>2. TypeOK /\ DecisionDecays /\ [Next]_vars
        => DecisionDecays'
           /\ [score' < score =>
                 \/ cpc = "score" /\ cpc' # "score"
                 \/ resets' > resets
                 \/ score < NoDecay /\ score - score' <= Decay]_vars
  BY FallsNext
<1> QED
  BY <1>1, <1>2, TypeInit, TypeNext, PTL DEF Spec, FallsAreExplained

------------------------------------------------------------------------------
(* How many DROP rules pile up.                                              *)

\* The places of a queue that hold an alert.
Alerts(q) == {i \in DOMAIN q : q[i] # Telemetry}

\* The times the playbook of the event in hand may still be carried out.
Owed ==
    IF ev = Telemetry \/ pc \in {"recv", "seize", "seal", "down"} THEN 0
    ELSE IF pc = "alert" THEN 2 ELSE 1

\* Every alert received accounts for two rules, those of its playbook that are still to come
\* included; one rule more is the freeze's, which is inserted where there is none.
Fits(owed, n, present, received) ==
    /\ owed + 2 * n <= 2 * received
    /\ present + owed + 2 * n <= 2 * received + 1

Accounted ==
    /\ Fits(Owed, Cardinality(Alerts(queue)), drops, threats)
    /\ pc = "insert" => drops = 0

\* What a step may do to the four numbers: an event is sent; one is received; a playbook is
\* carried out or given up, rules are deleted or a freeze inserts the first; the queue is lost.
Moves(o, n, d, t, o1, n1, d1, t1) ==
    \/ o1 = o /\ d1 = d /\ n1 <= n + 1 /\ t1 = t + 1
    \/ o = 0 /\ d1 = d /\ t1 = t /\ o1 = 0 /\ n1 <= n
    \/ o = 0 /\ d1 = d /\ t1 = t /\ o1 <= 2 /\ n1 + 1 <= n
    \/ n1 = n /\ t1 = t /\ o1 <= o /\ (d1 <= d \/ d1 <= 1)
    \/ n1 = n /\ t1 = t /\ o1 + 1 <= o /\ d1 = d + 1
    \/ n1 <= n /\ t1 = t /\ o1 = 0 /\ d1 = 0

\* The alerts of a queue are finitely many.
LEMMA AlertsFinite ==
    ASSUME NEW E, NEW q \in Seq(E)
    PROVE  IsFiniteSet(Alerts(q)) /\ Cardinality(Alerts(q)) \in Nat
<1>1. Len(q) \in Nat /\ DOMAIN q = 1 .. Len(q)
  BY LenProperties
<1>2. IsFiniteSet(1 .. Len(q))
  BY <1>1, FS_Interval
<1>3. Alerts(q) \subseteq 1 .. Len(q)
  BY <1>1 DEF Alerts
<1> QED
  BY <1>2, <1>3, FS_Subset, FS_CardinalityType

\* What is sent last adds itself to the alerts of the queue.
LEMMA AlertsAppend ==
    ASSUME NEW E, NEW q \in Seq(E), NEW e \in E
    PROVE  Cardinality(Alerts(Append(q, e)))
               = Cardinality(Alerts(q)) + (IF e = Telemetry THEN 0 ELSE 1)
<1>1. /\ Len(q) \in Nat /\ DOMAIN q = 1 .. Len(q)
      /\ DOMAIN Append(q, e) = 1 .. Len(q) + 1
      /\ Append(q, e)[Len(q) + 1] = e
      /\ \A i \in 1 .. Len(q) : Append(q, e)[i] = q[i]
  BY LenProperties, AppendProperties
<1>2. IsFiniteSet(Alerts(q)) /\ Cardinality(Alerts(q)) \in Nat
  BY AlertsFinite
<1>3. CASE e = Telemetry
  <2>1. Alerts(Append(q, e)) = Alerts(q)
    BY <1>1, <1>3 DEF Alerts
  <2> QED
    BY <1>2, <1>3, <2>1
<1>4. CASE e # Telemetry
  <2>1. Alerts(Append(q, e)) = Alerts(q) \cup {Len(q) + 1}
    BY <1>1, <1>4 DEF Alerts
  <2>2. Len(q) + 1 \notin Alerts(q)
    BY <1>1 DEF Alerts
  <2> QED
    BY <1>2, <1>4, <2>1, <2>2, FS_AddElement
<1> QED
  BY <1>3, <1>4

\* What is taken from the front is one alert less, if it is one.
LEMMA AlertsTail ==
    ASSUME NEW E, NEW q \in Seq(E), q # << >>
    PROVE  Cardinality(Alerts(Tail(q))) + (IF Head(q) = Telemetry THEN 0 ELSE 1)
               <= Cardinality(Alerts(q))
<1> DEFINE rest == Alerts(q) \ {1}
           f == [i \in Alerts(Tail(q)) |-> i + 1]
<1>1. /\ Len(q) \in Nat /\ DOMAIN q = 1 .. Len(q) /\ Len(q) >= 1 /\ Head(q) = q[1]
      /\ DOMAIN Tail(q) = 1 .. Len(q) - 1
      /\ \A i \in 1 .. Len(q) - 1 : Tail(q)[i] = q[i + 1]
      /\ Tail(q) \in Seq(E)
  BY LenProperties, HeadTailProperties, EmptySeq
<1>2. /\ IsFiniteSet(Alerts(q)) /\ Cardinality(Alerts(q)) \in Nat
      /\ IsFiniteSet(Alerts(Tail(q))) /\ Cardinality(Alerts(Tail(q))) \in Nat
  BY <1>1, AlertsFinite
<1>3. f \in Injection(Alerts(Tail(q)), rest)
  <2>1. ASSUME NEW i \in Alerts(Tail(q)) PROVE i \in Nat /\ i + 1 \in rest
    BY <1>1, <2>1 DEF Alerts
  <2>2. f \in [Alerts(Tail(q)) -> rest]
    BY <2>1
  <2>3. \A i, j \in Alerts(Tail(q)) : f[i] = f[j] => i = j
    BY <2>1
  <2> QED
    BY <2>2, <2>3 DEF Injection, IsInjective
<1>4. /\ IsFiniteSet(rest)
      /\ Cardinality(rest) = IF 1 \in Alerts(q) THEN Cardinality(Alerts(q)) - 1
                             ELSE Cardinality(Alerts(q))
  BY <1>2, FS_RemoveElement
<1>5. Cardinality(Alerts(Tail(q))) <= Cardinality(rest)
  BY <1>3, <1>4, FS_Injection
<1>6. 1 \in Alerts(q) <=> Head(q) # Telemetry
  BY <1>1 DEF Alerts
<1> HIDE DEF rest
<1> QED
  BY <1>2, <1>4, <1>5, <1>6

\* The queue's alerts at hand: their number is a natural one, and so are all counters.
LEMMA CountersType ==
    ASSUME TypeOK
    PROVE  /\ Cardinality(Alerts(queue)) \in Nat /\ drops \in Nat /\ threats \in Nat
           /\ Owed \in {0, 1, 2}
<1>1. queue \in Seq({Telemetry} \cup Threats)
  BY DEF TypeOK
<1> QED
  BY <1>1, AlertsFinite DEF TypeOK, Owed

\* The same after a step.
LEMMA CountersNextType ==
    ASSUME TypeOK'
    PROVE  /\ Cardinality(Alerts(queue')) \in Nat /\ drops' \in Nat /\ threats' \in Nat
           /\ Owed' \in {0, 1, 2}
<1>1. queue' \in Seq({Telemetry} \cup Threats)
  BY DEF TypeOK
<1> QED
  BY <1>1, AlertsFinite DEF TypeOK, Owed

\* A step that moves the numbers in one of these ways leaves room for what is owed.
LEMMA FitsNext ==
    ASSUME TypeOK, TypeOK', Accounted,
           Moves(Owed, Cardinality(Alerts(queue)), drops, threats,
                 Owed', Cardinality(Alerts(queue')), drops', threats')
    PROVE  Fits(Owed', Cardinality(Alerts(queue')), drops', threats')
<1>1. PICK o \in Nat, n \in Nat, d \in Nat, t \in Nat :
          o = Owed /\ n = Cardinality(Alerts(queue)) /\ d = drops /\ t = threats
  BY CountersType
<1>2. PICK o1 \in Nat, n1 \in Nat, d1 \in Nat, t1 \in Nat :
          o1 = Owed' /\ n1 = Cardinality(Alerts(queue')) /\ d1 = drops' /\ t1 = threats'
  BY CountersNextType
<1>3. Fits(o, n, d, t)
  BY <1>1 DEF Accounted
<1>4. Moves(o, n, d, t, o1, n1, d1, t1)
  BY <1>1, <1>2
<1>5. Fits(o1, n1, d1, t1)
  BY <1>3, <1>4 DEF Fits, Moves
<1> QED
  BY <1>2, <1>5

\* Events are sent and received; a playbook is carried out while it is owed.
LEMMA AccountedLoop ==
    ASSUME TypeOK, TypeOK', Accounted,
           Observe \/ Threaten \/ Recv \/ EmitFromEvent \/ Detect \/ CheckRule \/ InsertRule
    PROVE  Accounted'
<1> DEFINE E == {Telemetry} \cup Threats
           n == Cardinality(Alerts(queue))
<1>1. /\ n \in Nat /\ drops \in Nat /\ threats \in Nat /\ Owed \in Nat
      /\ n' \in Nat /\ drops' \in Nat /\ threats' \in Nat /\ Owed' \in Nat
  <2>1. queue \in Seq(E) /\ queue' \in Seq(E)
    BY DEF TypeOK
  <2> QED
    BY <2>1, AlertsFinite DEF TypeOK, Owed
<1>2. Fits(Owed, n, drops, threats) /\ (pc = "insert" => drops = 0)
  BY DEF Accounted
<1>3. queue \in Seq(E) /\ Telemetry \in E /\ Threats \subseteq E
  BY DEF TypeOK
<1>4. CASE Observe
  <2>1. n' = n
    BY <1>1, <1>3, <1>4, AlertsAppend DEF Observe
  <2>2. UNCHANGED <<drops, pc, ev, threats>>
    BY <1>4 DEF Observe, main, bounds
  <2>3. Owed' = Owed
    BY <2>2 DEF Owed
  <2> QED
    BY <1>2, <2>1, <2>2, <2>3 DEF Accounted
<1>5. CASE Threaten
  <2>1. n' <= n + 1
    <3>1. PICK e \in Threats : queue' = Append(queue, e)
      BY <1>5 DEF Threaten
    <3> QED
      BY <1>1, <1>3, <3>1, AlertsAppend
  <2>2. drops' = drops /\ pc' = pc /\ ev' = ev /\ threats' = threats + 1
    BY <1>5 DEF Threaten, main
  <2>3. Owed' = Owed
    BY <2>2 DEF Owed
  <2> HIDE DEF n
  <2>4. Fits(Owed', n', drops', threats')
    <3>1. Moves(Owed, n, drops, threats, Owed', n', drops', threats')
      BY <1>1, <1>2, <2>1, <2>2, <2>3 DEF Moves
    <3> QED
      BY <3>1, FitsNext DEF n
  <2>5. pc' = "insert" => drops' = 0
    BY <1>2, <2>2
  <2> QED
    BY <2>4, <2>5 DEF Accounted, n
<1>6. CASE Recv
  <2>1. n' + (IF ev' = Telemetry THEN 0 ELSE 1) <= n
    BY <1>3, <1>6, AlertsTail DEF Recv
  <2>2. drops' = drops /\ threats' = threats /\ pc' \in {"process", "alert"} /\ pc = "recv"
    BY <1>6 DEF Recv, bounds
  <2>3. Owed' <= (IF ev' = Telemetry THEN 0 ELSE 2) /\ Owed = 0
    BY <2>2 DEF Owed
  <2>4. \/ Owed' = 0 /\ n' <= n
        \/ Owed' <= 2 /\ n' + 1 <= n
    BY <1>1, <2>1, <2>3
  <2> HIDE DEF n
  <2>5. Fits(Owed', n', drops', threats')
    <3>1. Moves(Owed, n, drops, threats, Owed', n', drops', threats')
      BY <1>1, <1>2, <2>2, <2>3, <2>4 DEF Moves
    <3> QED
      BY <3>1, FitsNext DEF n
  <2> QED
    BY <2>2, <2>5 DEF Accounted, n
<1>7. CASE EmitFromEvent \/ Detect
  <2>1. queue' = queue /\ ev' = ev /\ threats' = threats
    BY <1>7 DEF EmitFromEvent, Detect, Remedy, Fault, bounds
  <2>2. drops' = drops \/ (drops' = drops + 1 /\ ev # Telemetry)
    BY <1>7 DEF EmitFromEvent, Detect, Remedy, Telemetry
  <2>3. /\ pc' # "insert"
        /\ Owed' <= Owed /\ (ev # Telemetry => Owed' + 1 <= Owed)
    BY <1>7, <2>1 DEF EmitFromEvent, Detect, Owed
  <2>4. n' = n
    BY <2>1
  <2> HIDE DEF n
  <2>5. Moves(Owed, n, drops, threats, Owed', n', drops', threats')
    <3>1. CASE drops' = drops
      <4>1. drops' <= drops
        BY <1>1, <3>1
      <4> QED
        BY <2>1, <2>3, <2>4, <4>1 DEF Moves
    <3>2. CASE drops' = drops + 1 /\ ev # Telemetry
      BY <2>1, <2>3, <2>4, <3>2 DEF Moves
    <3> QED
      BY <2>2, <3>1, <3>2
  <2>6. Fits(Owed', n', drops', threats')
    BY <2>5, FitsNext DEF n
  <2> QED
    BY <2>3, <2>6 DEF Accounted, n
<1>8. CASE CheckRule \/ InsertRule
  <2>1. queue' = queue /\ ev' = ev /\ threats' = threats /\ pc \in {"check", "insert"}
    BY <1>8 DEF CheckRule, InsertRule, bounds
  <2>2. \/ pc' = "record" /\ drops' = drops
        \/ pc' = "insert" /\ drops' = 0 /\ drops = 0
        \/ pc' = "record" /\ drops' = drops + 1 /\ pc = "insert"
    BY <1>1, <1>8 DEF CheckRule, InsertRule
  <2>3. Owed' = Owed /\ n' = n
    BY <2>1, <2>2 DEF Owed
  <2> HIDE DEF n
  <2>4. Fits(Owed', n', drops', threats')
    <3>1. Owed' <= Owed /\ (drops' <= drops \/ drops' <= 1)
      BY <1>1, <1>2, <2>2, <2>3
    <3>2. Moves(Owed, n, drops, threats, Owed', n', drops', threats')
      BY <1>1, <2>1, <2>3, <3>1 DEF Moves
    <3> QED
      BY <3>2, FitsNext DEF n
  <2>5. pc' = "insert" => drops' = 0
    BY <1>2, <2>2
  <2> QED
    BY <2>4, <2>5 DEF Accounted, n
<1> QED
  BY <1>4, <1>5, <1>6, <1>7, <1>8

\* The other steps insert no rule, and owe no more than before.
LEMMA AccountedNext == TypeOK /\ TypeOK' /\ Accounted /\ [Next]_vars => Accounted'
<1> SUFFICES ASSUME TypeOK, TypeOK', Accounted, [Next]_vars PROVE Accounted'
  OBVIOUS
<1> DEFINE n == Cardinality(Alerts(queue))
<1>1. /\ n \in Nat /\ drops \in Nat /\ threats \in Nat /\ Owed \in Nat
      /\ n' \in Nat /\ drops' \in Nat /\ threats' \in Nat /\ Owed' \in Nat
  <2>1. n \in Nat /\ drops \in Nat /\ threats \in Nat /\ Owed \in Nat
    BY CountersType
  <2>2. n' \in Nat /\ drops' \in Nat /\ threats' \in Nat /\ Owed' \in Nat
    BY CountersNextType
  <2> QED
    BY <2>1, <2>2
<1>2. Fits(Owed, n, drops, threats) /\ (pc = "insert" => drops = 0)
  BY DEF Accounted
<1>3. ASSUME UNCHANGED queue, UNCHANGED threats, drops' <= drops, Owed' \in {0, Owed},
             pc' # "insert" \/ pc' = pc
      PROVE  Accounted'
  <2>1. n' = n
    BY <1>3
  <2> HIDE DEF n
  <2>2. Owed' <= Owed
    BY <1>1, <1>3
  <2>3. Fits(Owed', n', drops', threats')
    <3>1. Moves(Owed, n, drops, threats, Owed', n', drops', threats')
      BY <1>1, <1>2, <1>3, <2>1, <2>2 DEF Moves
    <3> QED
      BY <3>1, FitsNext DEF n
  <2>4. pc' = "insert" => drops' = 0
    BY <1>1, <1>2, <1>3
  <2> QED
    BY <2>3, <2>4 DEF Accounted, n
<1>4. CASE \/ Observe \/ Threaten \/ Recv \/ EmitFromEvent \/ Detect \/ CheckRule
           \/ InsertRule
  BY <1>4, AccountedLoop
<1>5. CASE \/ Process \/ WriteEvent \/ UpdateStatus \/ Pause \/ RecordAddress
           \/ Stop \/ Mark \/ Seize \/ Seal \/ PipelineError \/ PauseError \/ QuarantineError
  <2>1. UNCHANGED <<queue, threats, drops, ev>> /\ pc' # "insert" /\ pc' # "alert"
    BY <1>5 DEF Process, WriteEvent, UpdateStatus, Pause, RecordAddress, Stop, Mark, Seize,
                Seal, StopAt, MarkAt, PipelineError, PauseError, QuarantineError, Fault,
                Dispatch, bounds
  <2>2. \/ pc' \in {"recv", "seize", "seal"}
        \/ pc \notin {"recv", "seize", "seal", "down", "alert"}
    BY <1>5 DEF Process, WriteEvent, UpdateStatus, Pause, RecordAddress, Stop, Mark, Seize,
                Seal, StopAt, MarkAt, PipelineError, PauseError, QuarantineError
  <2>3. Owed' \in {0, Owed}
    BY <2>1, <2>2 DEF Owed
  <2> QED
    BY <1>1, <1>3, <2>1, <2>3
<1>6. CASE \/ Approve \/ Restart \/ Deny \/ Reset \/ CommandStep \/ NoDocker \/ CommandError
           \/ FallSilent \/ Heartbeat \/ HeartbeatError \/ UNCHANGED vars
  <2>1. UNCHANGED <<queue, threats, ev, pc>>
    BY <1>6 DEF Approve, Restart, Deny, Begin, Reset, CommandStep, NoDocker, CommandError, Fault,
                Unpause, Start, RestartContainer, Released, Unblock, Free, Unblocked, ClearScore,
                ClearAddress, ClearStatus, Kill, Block, MarkDenied, ForgetSeen, Leftover,
                FallSilent, Heartbeat, HeartbeatCheck, HeartbeatWrite, HeartbeatStop,
                HeartbeatMark, HeartbeatSeal, HeartbeatMarkAt, HeartbeatError, vars, node, main,
                bounds
  <2>2. drops' <= drops
    <3>1. CASE Unblock \/ Free \/ Leftover
      BY <1>1, <3>1 DEF Unblock, Free, Unblocked, Leftover
    <3>2. CASE ~(Unblock \/ Free \/ Leftover)
      <4>1. UNCHANGED drops
        BY <1>6, <3>2 DEF Approve, Restart, Deny, Begin, Reset, CommandStep, NoDocker,
                CommandError, Unpause, Start, RestartContainer, Released, ClearScore,
                ClearAddress, ClearStatus, Kill, Block, MarkDenied, ForgetSeen, FallSilent,
                Heartbeat, HeartbeatCheck, HeartbeatWrite, HeartbeatStop, HeartbeatMark,
                HeartbeatSeal, HeartbeatMarkAt, HeartbeatError, vars
      <4> QED
        BY <1>1, <4>1
    <3> QED
      BY <3>1, <3>2
  <2>3. Owed' = Owed
    BY <2>1 DEF Owed
  <2> QED
    BY <1>3, <2>1, <2>2, <2>3
<1>7. CASE EngineCrash
  <2>1. /\ pc' = "down" /\ drops' = 0 /\ UNCHANGED threats
        /\ queue' = queue \/ queue' = << >>
    BY <1>7 DEF EngineCrash
  <2>2. Owed' = 0
    BY <2>1 DEF Owed
  <2>3. n' = n \/ n' = 0
    <3>1. Alerts(<< >>) = {}
      BY DEF Alerts
    <3>2. Cardinality(Alerts(<< >>)) = 0
      BY <3>1, FS_EmptySet
    <3> QED
      BY <2>1, <3>2
  <2> HIDE DEF n
  <2>4. n' <= n
    BY <1>1, <2>3
  <2>5. Fits(Owed', n', drops', threats')
    <3>1. Moves(Owed, n, drops, threats, Owed', n', drops', threats')
      BY <1>1, <1>2, <2>1, <2>2, <2>4 DEF Moves
    <3> QED
      BY <3>1, FitsNext DEF n
  <2> QED
    BY <2>1, <2>5 DEF Accounted, n
<1>8. CASE EngineBoot
  <2>1. UNCHANGED <<queue, threats, drops, ev>> /\ pc = "down" /\ pc' = "recv"
    BY <1>8 DEF EngineBoot, bounds
  <2>2. Owed' = Owed
    BY <2>1 DEF Owed
  <2> QED
    BY <1>1, <1>3, <2>1, <2>2
<1> QED
  BY <1>4, <1>5, <1>6, <1>7, <1>8 DEF Next, EventLoop

\* _pause (router.py) and the playbooks (remediation_engine.py): through any failures, crashes
\* and resets, the DROP rules of an address are at most two for each alert and one for all of
\* the freezes.
THEOREM RulesAlwaysBounded == Spec => []RulesAreBounded
<1>1. Init => Accounted
  <2> SUFFICES ASSUME Init PROVE Accounted
    OBVIOUS
  <2>1. queue = << >> /\ drops = 0 /\ threats = 0 /\ pc = "recv" /\ Owed = 0
    BY DEF Init, Owed
  <2>2. Alerts(queue) = {}
    BY <2>1 DEF Alerts
  <2>3. Cardinality(Alerts(queue)) = 0
    BY <2>2, FS_EmptySet
  <2> QED
    BY <2>1, <2>3 DEF Accounted, Fits
<1>2. TypeOK /\ Accounted => RulesAreBounded
  <2> SUFFICES ASSUME TypeOK, Accounted PROVE RulesAreBounded
    OBVIOUS
  <2> DEFINE n == Cardinality(Alerts(queue))
  <2>1. n \in Nat /\ drops \in Nat /\ threats \in Nat /\ Owed \in {0, 1, 2}
    BY CountersType
  <2>2. drops + Owed + 2 * n <= 2 * threats + 1
    BY DEF Accounted, Fits
  <2> HIDE DEF n
  <2> QED
    BY <2>1, <2>2 DEF RulesAreBounded
<1> QED
  BY <1>1, <1>2, TypeInit, TypeNext, AccountedNext, PTL DEF Spec

=============================================================================
