----------------------------- MODULE Enforcement -----------------------------
(***************************************************************************)
(* What the risk engine does to one node: the three threads of the engine  *)
(* process (the event loop of engine.py, the command server, the heartbeat *)
(* checker) share the node's row in the database, its container and the    *)
(* iptables DROP rules for its address.  Every database commit, Docker     *)
(* call and iptables call is a step; the threads interleave between any    *)
(* two of them.                                                            *)
(***************************************************************************)
EXTENDS Integers, Sequences

CONSTANTS MediumTop,   \* upper bound of bucket "medium" (70)
          NoDecay,     \* the score from which scores do not decay (71)
          HighTop,     \* upper bound of bucket "high" (100)
          Decay,       \* decay_rate
          Threats,     \* the events other than plain telemetry
          MaxQueue, MaxThreats, MaxCommands, MaxResets, MaxFaults, MaxCrashes  \* bounds

\* weight: the event score of the matched rules; urgent: a threat detector raises a
\* CRITICAL alert; remedy: what the alert's playbook does to the container; alert: the
\* event is a security alert, about the node ("own") or signed by security-monitor and so
\* booked to it, with this node in its "node_id" ("foreign").
EventType == [weight : Nat, urgent : BOOLEAN, busy : BOOLEAN,
              remedy : {"none", "stop", "block"}, alert : {"none", "own", "foreign"}]

ASSUME EnforcementAssumption ==
    /\ {MediumTop, NoDecay, HighTop, Decay} \subseteq Nat
    /\ MediumTop < NoDecay /\ NoDecay <= HighTop /\ 0 < Decay
    /\ Threats \subseteq EventType
    /\ {MaxQueue, MaxThreats, MaxCommands, MaxResets, MaxFaults, MaxCrashes} \subseteq Nat

\* What host_observer sends every 5 s: no reasons, so no rule matches.
Telemetry ==
    [weight |-> 0, urgent |-> FALSE, busy |-> FALSE, remedy |-> "none", alert |-> "none"]

VARIABLES
    \* the node's rows in the database
    score,       \* node_scores.cumulative_score
    row,         \* node_status has a row for the node
    status,      \* node_status.status
    ip,          \* node_status.isolated_ip is set
    \* the host
    container,   \* "running", "paused" or "exited"
    drops,       \* DROP rules for the node's address
    queue,       \* events on their way to the engine
    \* event loop
    pc,          \* "down" while no engine runs, all three threads then
    ev,          \* the event in hand
    new,         \* its decision's cumulative_score
    lastSeen,    \* node_last_seen: "none", "fresh" or "stale" (older than 90 s)
    \* command server and heartbeat checker
    cpc, hpc,
    \* bounds
    threats, commands, resets, faults, crashes

node == <<score, row, status, ip>>
main == <<pc, ev, new>>
bounds == <<threats, commands, resets, faults, crashes>>
vars == <<node, container, drops, queue, main, lastSeen, cpc, hpc, bounds>>

Statuses == {"idle", "busy", "awaiting_approval", "quarantined", "unresponsive"}

\* The types of the rows, the container and the threads' positions; a score is never
\* negative (WeightedScorer.score cuts the decay off at 0).
TypeOK ==
    /\ {score, new, drops} \subseteq Nat
    /\ {row, ip} \subseteq BOOLEAN
    /\ status \in Statuses
    /\ container \in {"running", "paused", "exited"}
    /\ queue \in Seq({Telemetry} \cup Threats) /\ Len(queue) <= MaxQueue
    /\ ev \in {Telemetry} \cup Threats
    /\ lastSeen \in {"none", "fresh", "stale"}
    /\ pc \in {"recv", "alert", "process", "write", "status", "pause", "check", "insert", "record",
               "stop", "mark", "detect", "seize", "seal", "down"}
    /\ cpc \in {"idle", "unpause", "unblock", "free", "start", "score", "address", "status",
                "kill", "block", "deny", "memory", "restart", "leftover"}
    /\ hpc \in {"idle", "write", "stop", "mark", "seal"}
    /\ {threats, commands, resets, faults, crashes} \subseteq Nat

Init ==
    /\ score = 0 /\ row = FALSE /\ status = "idle" /\ ip = FALSE
    /\ container = "running" /\ drops = 0 /\ queue = << >>
    /\ pc = "recv" /\ ev = Telemetry /\ new = 0 /\ lastSeen = "none"
    /\ cpc = "idle" /\ hpc = "idle"
    /\ threats = 0 /\ commands = 0 /\ resets = 0 /\ faults = 0 /\ crashes = 0

------------------------------------------------------------------------------
(* The world around the engine.                                              *)

\* host_observer sends telemetry of running containers only.
Observe ==
    /\ container = "running" /\ Len(queue) < MaxQueue
    /\ queue' = Append(queue, Telemetry)
    /\ UNCHANGED <<node, container, drops, main, lastSeen, cpc, hpc, bounds>>

\* Anything else reported about the node.
Threaten ==
    /\ threats < MaxThreats /\ Len(queue) < MaxQueue
    /\ \E e \in Threats : queue' = Append(queue, e)
    /\ threats' = threats + 1
    /\ UNCHANGED <<node, container, drops, main, lastSeen, cpc, hpc,
                   commands, resets, faults, crashes>>

\* 90 s pass without an event of the node.
FallSilent ==
    /\ lastSeen = "fresh"
    /\ lastSeen' = "stale"
    /\ UNCHANGED <<node, container, drops, queue, main, cpc, hpc, bounds>>

\* A call to Docker or to the database raises.
Fault ==
    /\ faults < MaxFaults
    /\ faults' = faults + 1
    /\ UNCHANGED <<threats, commands, resets, crashes>>

------------------------------------------------------------------------------
(* Scoring.                                                                  *)

MutNewScore(e) == IF e.weight > 0 THEN score + e.weight ELSE score - Decay
MutDecayAll(e) ==
    IF e.weight > 0 THEN score + e.weight ELSE IF score > Decay THEN score - Decay ELSE 0
\* WeightedScorer.score; the multiplier is part of the weight
NewScore(e) ==
    CASE e.weight > 0 -> score + e.weight
      [] e.weight = 0 /\ score >= NoDecay -> score
      [] e.weight = 0 /\ score < NoDecay -> IF score > Decay THEN score - Decay ELSE 0

\* WeightedScorer._bucket; info, low and medium differ in their syslog line only
Bucket(s) ==
    IF s <= MediumTop THEN "low" ELSE IF s <= HighTop THEN "high" ELSE "critical"

StatusFor(s, busy) ==
    CASE Bucket(s) = "critical" -> "quarantined"
      [] Bucket(s) = "high" -> "awaiting_approval"
      [] OTHER -> IF busy THEN "busy" ELSE "idle"

------------------------------------------------------------------------------
(* Event loop.                                                               *)

\* The heartbeat checker holds node_last_seen_lock while it looks at the nodes, the stop
\* of a container included.
MutLockFree == hpc \in {"idle", "stop"}
LockFree == hpc = "idle"

Recv ==
    /\ pc = "recv" /\ queue # << >> /\ LockFree
    /\ ev' = Head(queue) /\ queue' = Tail(queue)
    /\ lastSeen' = IF ev'.alert = "foreign" THEN lastSeen ELSE "fresh"
    /\ pc' = IF ev'.alert = "none" THEN "process" ELSE "alert"
    /\ UNCHANGED <<node, container, drops, new, cpc, hpc, bounds>>

\* The playbook of RUNTIME_DRIFT stops the container, that of UNEXPECTED_NETWORK_ATTACH
\* inserts a DROP rule and records no address; what Docker raises is swallowed.
Remedy ==
    \/ /\ container' = IF ev.remedy = "stop" THEN "exited" ELSE container
       /\ drops' = IF ev.remedy = "block" /\ container # "exited" THEN drops + 1 ELSE drops
       /\ UNCHANGED bounds
    \/ /\ ev.remedy # "none"
       /\ Fault
       /\ UNCHANGED <<container, drops>>

\* emit_from_event: a security alert is emitted, playbook included, before the pipeline
\* sees it.
EmitFromEvent ==
    /\ pc = "alert"
    /\ Remedy
    /\ pc' = IF ev.alert = "own" THEN "process" ELSE "recv"
    /\ UNCHANGED <<node, queue, ev, new, lastSeen, cpc, hpc>>

\* pipeline.process reads the score the decision is based on.
Process ==
    /\ pc = "process"
    /\ new' = NewScore(ev)
    /\ pc' = "write"
    /\ UNCHANGED <<node, container, drops, queue, ev, lastSeen, cpc, hpc, bounds>>

WriteEvent ==
    /\ pc = "write"
    /\ score' = new
    /\ pc' = "status"
    /\ UNCHANGED <<row, status, ip, container, drops, queue, ev, new, lastSeen, cpc, hpc,
                   bounds>>

\* update_node_status, then router.dispatch
MutDispatch(s) == IF Bucket(s) = "high" THEN "pause" ELSE "detect"
MutDispatchHigh(s) == IF Bucket(s) = "critical" THEN "stop" ELSE "detect"
Dispatch(s) ==
    CASE Bucket(s) = "high" -> "pause"
      [] Bucket(s) = "critical" -> "stop"
      [] OTHER -> "detect"

UpdateStatus ==
    /\ pc = "status"
    /\ status' = StatusFor(new, ev.busy) /\ row' = TRUE
    /\ pc' = Dispatch(new)
    /\ UNCHANGED <<score, ip, container, drops, queue, ev, new, lastSeen, cpc, hpc, bounds>>

\* The exception handler of the loop: the rest of the event is given up.
PipelineError ==
    /\ pc \in {"process", "write", "status", "detect"}
    /\ Fault
    /\ pc' = "recv"
    /\ UNCHANGED <<node, container, drops, queue, ev, new, lastSeen, cpc, hpc>>

\* router._pause: Docker refuses to pause a stopped container, which ends _pause.
Pause ==
    /\ pc = "pause"
    /\ \/ /\ container # "exited"
          /\ container' = "paused" /\ pc' = "check"
       \/ /\ container = "exited"
          /\ pc' = "detect"
          /\ UNCHANGED container
    /\ UNCHANGED <<node, drops, queue, ev, new, lastSeen, cpc, hpc, bounds>>

\* _pause swallows what Docker, iptables and the database raise, and does no more.
PauseError ==
    /\ pc \in {"pause", "check", "insert", "record"}
    /\ Fault
    /\ pc' = "detect"
    /\ UNCHANGED <<node, container, drops, queue, ev, new, lastSeen, cpc, hpc>>

MutCheckRule ==
    /\ pc = "check"
    /\ pc' = "insert"
    /\ UNCHANGED <<node, container, drops, queue, ev, new, lastSeen, cpc, hpc, bounds>>
\* iptables -C
CheckRule ==
    /\ pc = "check"
    /\ pc' = IF drops > 0 THEN "record" ELSE "insert"
    /\ UNCHANGED <<node, container, drops, queue, ev, new, lastSeen, cpc, hpc, bounds>>

\* iptables -I
InsertRule ==
    /\ pc = "insert"
    /\ drops' = drops + 1
    /\ pc' = "record"
    /\ UNCHANGED <<node, container, queue, ev, new, lastSeen, cpc, hpc, bounds>>

\* set_isolated_ip is an UPDATE: without a row it does nothing.
RecordAddress ==
    /\ pc = "record"
    /\ ip' = row
    /\ pc' = "detect"
    /\ UNCHANGED <<score, row, status, container, drops, queue, ev, new, lastSeen, cpc, hpc,
                   bounds>>

\* router._quarantine: stop, then mark.
StopAt(here, marked) ==
    /\ pc = here
    /\ container' = "exited"
    /\ pc' = marked
    /\ UNCHANGED <<node, drops, queue, ev, new, lastSeen, cpc, hpc, bounds>>

MarkAt(here, next) ==
    /\ pc = here
    /\ status' = "quarantined" /\ row' = TRUE
    /\ pc' = next
    /\ UNCHANGED <<score, ip, container, drops, queue, ev, new, lastSeen, cpc, hpc, bounds>>

\* _quarantine swallows what Docker and the database raise, and does no more.
QuarantineError ==
    /\ pc \in {"stop", "mark", "seize", "seal"}
    /\ Fault
    /\ pc' = IF pc \in {"stop", "mark"} THEN "detect" ELSE "recv"
    /\ UNCHANGED <<node, container, drops, queue, ev, new, lastSeen, cpc, hpc>>

\* bucket "critical"
Stop == StopAt("stop", "mark")
Mark == MarkAt("mark", "detect")

\* threat_detector.run and emit_batch, which emits a security alert a second time
Detect ==
    /\ pc = "detect"
    /\ Remedy
    /\ pc' = IF ev.urgent THEN "seize" ELSE "recv"
    /\ UNCHANGED <<node, queue, ev, new, lastSeen, cpc, hpc>>

\* a CRITICAL alert quarantines the node at once
Seize == StopAt("seize", "seal")
Seal == MarkAt("seal", "recv")

EventLoop ==
    \/ Recv \/ EmitFromEvent \/ Process \/ WriteEvent \/ UpdateStatus \/ Pause \/ CheckRule \/ InsertRule
    \/ RecordAddress \/ Stop \/ Mark \/ Detect \/ Seize \/ Seal

------------------------------------------------------------------------------
(* Command server.                                                           *)

\* The status check of a command and the effects that follow it are separate steps.
Begin(allowed, first) ==
    /\ cpc = "idle" /\ pc # "down" /\ commands < MaxCommands
    /\ status \in allowed
    /\ commands' = commands + 1
    /\ cpc' = first
    /\ UNCHANGED <<node, container, drops, queue, main, lastSeen, hpc, threats, resets,
                   faults, crashes>>

Approve == Begin({"awaiting_approval"}, "unpause")
Restart == Begin({"quarantined", "unresponsive"}, "free")
Deny == Begin({"awaiting_approval", "idle", "busy"}, "kill")

Released(here, next, from) ==
    /\ cpc = here
    /\ container' = IF container \in from THEN "running" ELSE container
    /\ cpc' = next
    /\ UNCHANGED <<node, drops, queue, main, lastSeen, hpc, bounds>>

\* Without a Docker client the commands leave the container out and do the rest; reset does
\* so too when the container cannot be restarted.
NoDocker ==
    /\ cpc \in {"unpause", "start", "kill", "restart"}
    /\ Fault
    /\ cpc' = CASE cpc = "unpause" -> "unblock"
               [] cpc = "start" -> "score"
               [] cpc = "kill" -> "block"
               [] cpc = "restart" -> "leftover"
    /\ UNCHANGED <<node, container, drops, queue, main, lastSeen, hpc>>

\* approve: unpause, then unblock; restart: unblock, then unpause or start
Unpause == Released("unpause", "unblock", {"paused"})
Start == Released("start", "score", {"paused", "exited"})

\* iptables -D removes one rule, and only when an address is recorded.
Unblocked(here, next) ==
    /\ cpc = here
    /\ drops' = IF ip /\ drops > 0 THEN drops - 1 ELSE drops
    /\ cpc' = next
    /\ UNCHANGED <<node, container, queue, main, lastSeen, hpc, bounds>>

Unblock == Unblocked("unblock", "score")
Free == Unblocked("free", "start")

\* the last three steps of approve and of restart
ClearScore ==
    /\ cpc = "score"
    /\ score' = 0
    /\ cpc' = "address"
    /\ UNCHANGED <<row, status, ip, container, drops, queue, main, lastSeen, hpc, bounds>>

ClearAddress ==
    /\ cpc = "address"
    /\ ip' = FALSE
    /\ cpc' = "status"
    /\ UNCHANGED <<score, row, status, container, drops, queue, main, lastSeen, hpc, bounds>>

ClearStatus ==
    /\ cpc = "status"
    /\ status' = "idle" /\ row' = TRUE
    /\ cpc' = "idle"
    /\ UNCHANGED <<score, ip, container, drops, queue, main, lastSeen, hpc, bounds>>

\* deny: the container is stopped after the forensic capture
Kill ==
    /\ cpc = "kill"
    /\ container' = "exited"
    /\ cpc' = "block"
    /\ UNCHANGED <<node, drops, queue, main, lastSeen, hpc, bounds>>

\* deny, no address recorded: router._pause, whose container.pause() raises because the
\* container has just been stopped, so that no rule is inserted; otherwise nothing.
Block ==
    /\ cpc = "block"
    /\ cpc' = "deny"
    /\ UNCHANGED <<node, container, drops, queue, main, lastSeen, hpc, bounds>>

MarkDenied ==
    /\ cpc = "deny"
    /\ status' = "quarantined" /\ row' = TRUE
    /\ cpc' = "idle"
    /\ UNCHANGED <<score, ip, container, drops, queue, main, lastSeen, hpc, bounds>>

\* reset 1: reset_all_tables
Reset ==
    /\ cpc = "idle" /\ pc # "down" /\ resets < MaxResets
    /\ resets' = resets + 1
    /\ score' = 0 /\ row' = FALSE /\ status' = "idle" /\ ip' = FALSE
    /\ cpc' = "memory"
    /\ UNCHANGED <<container, drops, queue, main, lastSeen, hpc, threats, commands, faults,
                   crashes>>

\* reset 2: node_last_seen.clear()
ForgetSeen ==
    /\ cpc = "memory" /\ LockFree
    /\ lastSeen' = "none"
    /\ cpc' = "restart"
    /\ UNCHANGED <<node, container, drops, queue, main, hpc, bounds>>

\* reset 4: unpause if paused, then restart
RestartContainer == Released("restart", "leftover", {"paused", "exited"})

\* reset 5: the DROP rules of the addresses still recorded
Leftover ==
    /\ cpc = "leftover"
    /\ drops' = IF ip /\ drops > 0 THEN drops - 1 ELSE drops
    /\ ip' = FALSE
    /\ cpc' = "idle"
    /\ UNCHANGED <<score, row, status, container, queue, main, lastSeen, hpc, bounds>>

\* The except clause of every command: the rest is given up and the dashboard is told ok.
CommandError ==
    /\ cpc \notin {"idle", "restart"}
    /\ Fault
    /\ cpc' = "idle"
    /\ UNCHANGED <<node, container, drops, queue, main, lastSeen, hpc>>

CommandStep ==
    \/ Unpause \/ Unblock \/ Free \/ Start \/ ClearScore \/ ClearAddress \/ ClearStatus
    \/ Kill \/ Block \/ MarkDenied \/ ForgetSeen \/ RestartContainer \/ Leftover

------------------------------------------------------------------------------
(* Heartbeat checker.                                                        *)

Due == status \notin {"awaiting_approval", "quarantined", "unresponsive"}
           /\ lastSeen = "stale"

HeartbeatCheck ==
    /\ hpc = "idle" /\ Due
    /\ hpc' = "write"
    /\ UNCHANGED <<node, container, drops, queue, main, lastSeen, cpc, bounds>>

\* write_heartbeat_event
HeartbeatWrite ==
    /\ hpc = "write"
    /\ status' = "unresponsive" /\ row' = TRUE
    /\ hpc' = "stop"
    /\ UNCHANGED <<score, ip, container, drops, queue, main, lastSeen, cpc, bounds>>

\* router._quarantine
HeartbeatStop ==
    /\ hpc = "stop"
    /\ container' = "exited"
    /\ hpc' = "mark"
    /\ UNCHANGED <<node, drops, queue, main, lastSeen, cpc, bounds>>

\* _quarantine marks the node, then the checker marks it again.
HeartbeatMarkAt(here, next) ==
    /\ hpc = here
    /\ status' = "quarantined" /\ row' = TRUE
    /\ hpc' = next
    /\ UNCHANGED <<score, ip, container, drops, queue, main, lastSeen, cpc, bounds>>

HeartbeatMark == HeartbeatMarkAt("mark", "seal")
HeartbeatSeal == HeartbeatMarkAt("seal", "idle")

\* An error of _quarantine is swallowed there; any other ends the node's turn.
HeartbeatError ==
    /\ hpc # "idle"
    /\ Fault
    /\ hpc' \in IF hpc = "stop" THEN {"idle", "seal"}
               ELSE IF hpc = "mark" THEN {"seal"} ELSE {"idle"}
    /\ UNCHANGED <<node, container, drops, queue, main, lastSeen, cpc>>

Heartbeat ==
    \/ HeartbeatCheck \/ HeartbeatWrite \/ HeartbeatStop \/ HeartbeatMark
    \/ HeartbeatSeal

------------------------------------------------------------------------------
\* The engine's container dies with its network namespace, where the rules are.
EngineCrash ==
    /\ pc # "down" /\ crashes < MaxCrashes
    /\ crashes' = crashes + 1
    /\ pc' = "down" /\ cpc' = "idle" /\ hpc' = "idle"
    /\ lastSeen' = "none" /\ drops' = 0
    /\ queue' \in {queue, << >>}
    /\ UNCHANGED <<node, container, ev, new, threats, commands, resets, faults>>

\* Somebody starts it again (docker-compose.yml gives it no restart policy).
EngineBoot ==
    /\ pc = "down"
    /\ pc' = "recv"
    /\ UNCHANGED <<node, container, drops, queue, ev, new, lastSeen, cpc, hpc, bounds>>

Next ==
    \/ Observe \/ Threaten \/ FallSilent
    \/ EventLoop \/ PipelineError \/ PauseError \/ QuarantineError
    \/ Approve \/ Restart \/ Deny \/ Reset \/ CommandStep \/ NoDocker \/ CommandError
    \/ Heartbeat \/ HeartbeatError
    \/ EngineCrash \/ EngineBoot

Spec == Init /\ [][Next]_vars

\* host_observer's loop goes on, 90 s pass, and each thread of an engine that runs takes its
\* next step: none waits for anything but a message or the lock.  Nobody is bound to start an
\* engine that is down.
Fairness ==
    /\ WF_vars(Observe) /\ WF_vars(FallSilent)
    /\ WF_vars(EventLoop) /\ WF_vars(CommandStep) /\ WF_vars(Heartbeat)

FairSpec == Spec /\ Fairness

------------------------------------------------------------------------------
(* Properties.                                                               *)

Undisturbed == faults = 0 /\ crashes = 0 /\ resets = 0

\* A committed score is enforced by the container's state: above "medium" it does not run,
\* above "high" it is stopped, except while the event loop is about to do so or a command
\* has released the container and is about to clear the score.  Whatever the two threads
\* do to each other, no interleaving leaves a high score on a running container.
ScoreIsEnforced ==
    Undisturbed /\ cpc \notin {"unblock", "score"} =>
        /\ score > MediumTop /\ pc \notin {"status", "pause", "stop"}
               => container # "running"
        /\ score > HighTop /\ pc \notin {"status", "stop"}
               => container = "exited"

\* WeightedScorer.score does not decay the score of a node that waits for a verdict: a score
\* falls only by a command that clears it, by reset, or by one decay of a score below
\* NoDecay.  So a frozen node thaws unseen only in the gap between MediumTop and NoDecay,
\* although the score is read, decided on and written in steps that commands come between.
\* A score below NoDecay falls with the very next event no rule matches: README.md:264 and :392
\* speak of five minutes without decay after a security event, which no code implements.
FallsAreExplained ==
    [][score' < score =>
          \/ cpc = "score" /\ cpc' # "score"
          \/ resets' > resets
          \/ score < NoDecay /\ score - score' <= Decay]_vars

\* The DROP rules of an address pile up with the alerts whose playbook inserts one, twice
\* for an alert that is emitted twice, and never with the freezes: _pause looks for a rule
\* before it inserts one, and a freeze repeated by every telemetry event adds none.
RulesAreBounded == drops <= 2 * threats + 1

\* The heartbeat checker silences only a node that has not been heard of since it looked:
\* neither an event nor reset can touch node_last_seen while the checker, lock in hand,
\* writes its event and stops the container.
HeardIsNotSilenced == hpc # "idle" => lastSeen = "stale"

\* Through Docker errors, crashes of the engine and resets too, a running container with a
\* high score ends up frozen or forgiven, as long as an engine runs: telemetry of a running
\* node repeats the dispatch, and an engine started again owes what the last one left.
HighIsFrozen ==
    (score > MediumTop /\ pc # "down")
        ~> (container # "running" \/ score <= MediumTop \/ pc = "down")


\* README.md section 10, Deny 3: when deny ends, a DROP rule blocks the node.
DenyBlocks == [][cpc = "deny" /\ cpc' = "idle" => drops' > 0]_vars

=============================================================================
