---------------------------- MODULE SecurityMonitor ----------------------------
(***************************************************************************)
(* The security monitor: collectors, correlator, policy engine and         *)
(* forwarder are threads joined by three queues.  The policy engine acts   *)
(* on the containers the Docker collector watches, so that what it does    *)
(* comes back as events.                                                  *)
(***************************************************************************)
EXTENDS Integers, Sequences, FiniteSets

CONSTANTS Tenants,     \* MONITORED_NODES
          Addresses,   \* the tenants' addresses, a function
          Window,      \* CORRELATION_WINDOW
          LoopMax,     \* RESTART_LOOP_THRESHOLD
          LoopWindow,  \* RESTART_LOOP_WINDOW
          RateMax,     \* _RATE_MAX
          RateWindow,  \* _RATE_WINDOW
          MapAge,      \* age at which the address map is read again
          Policies,    \* fast_path_policy.yaml: a sequence of [type, sev, action]
          Lines,       \* the lines the sensors may log
          Kinds,       \* the operations on containers that happen
          MaxTime, MaxInputs, MaxFaults   \* bounds

Self == "security-monitor"
Reported == Tenants \cup {Self}
Any == "any"
Severities == {"LOW", "MEDIUM", "HIGH", "CRITICAL"}

\* A line of a sensor is a record [sensor, type, level, src, dst].  "level" is Suricata's
\* severity number, the severity in Zeek's record or "", Falco's priority; "type" is what
\* the signature, the notice or the rule's name stands for.

ASSUME MonitorAssumption ==
    /\ Tenants # {} /\ Self \notin Tenants /\ "unknown" \notin Reported
    /\ DOMAIN Addresses = Tenants
    /\ {Window, LoopMax, LoopWindow, RateMax, RateWindow, MapAge} \subseteq Nat
    /\ LoopMax > 0
    /\ \A l \in Lines :
          /\ l.sensor \in {"suricata", "zeek", "falco"}
          /\ l.sensor = "zeek" => l.level \in Severities \cup {""}
    /\ Policies \in Seq([type : STRING, sev : STRING,
                         action : {"quarantine", "pause", "network_isolate"}])
    /\ {MaxTime, MaxInputs, MaxFaults} \subseteq Nat

VARIABLES
    now,
    \* the host
    container,   \* [Tenants -> "running", "paused" or "exited"]
    attached,    \* the tenants on the data networks
    stream,      \* Docker events on their way to the collector
    \* the process
    up, listening,
    restarts,    \* restart_times
    raw,         \* raw_queue
    history,     \* docker_history: the times, by node
    known,       \* ip_to_node: the tenants whose address it holds
    mapAt,       \* last_map_update
    corr,        \* correlator_queue
    ppc, hand,   \* the policy thread and the event it holds
    fwd,         \* forward_queue
    rate,        \* _rate
    \* history of this life of the process
    docked,      \* when a Docker event of the node was correlated
    starts,      \* when a start of the node was collected
    born, sent, limited,
    \* bounds
    inputs, faults

host == <<container, attached>>
collector == <<listening, restarts, starts>>
correlator == <<history, known, mapAt, docked, born>>
policy == <<ppc, hand>>
forwarder == <<rate, sent, limited>>
bounds == <<inputs, faults>>
vars == <<now, host, stream, up, collector, raw, correlator, corr, policy, fwd, forwarder,
          bounds>>

\* The Docker events that matter, and what the collector makes of them.
Actions == {"start", "restart", "stop", "pause", "exec_create", "exec_start", "rename",
            "connect", "disconnect"}
Threats == {"none", "SUSPICIOUS_RESTART_PATTERN", "UNEXPECTED_EXEC", "CONTAINER_RENAME",
            "UNEXPECTED_NETWORK_ATTACH"}

Event == [node : Reported, type : Threats \cup {l.type : l \in Lines}, sev : Severities,
          correlated : BOOLEAN]
NoEvent == [node |-> Self, type |-> "none", sev |-> "LOW", correlated |-> FALSE]
RawType == [source : {"docker"}, node : Tenants, type : Threats]
             \cup [source : {"suricata", "zeek", "falco"}, type : {l.type : l \in Lines},
                   sev : Severities, src : {l.src : l \in Lines}, dst : {l.dst : l \in Lines}]

\* The queues hold events, the windows times that have passed; a window never holds more
\* than the limit it is compared with.
TypeOK ==
    /\ now \in 0..MaxTime
    /\ container \in [Tenants -> {"running", "paused", "exited"}]
    /\ attached \subseteq Tenants /\ known \subseteq Tenants
    /\ up \in BOOLEAN /\ listening \in BOOLEAN
    /\ mapAt \in {-MapAge} \cup 0..now
    /\ stream \in Seq([node : Tenants, action : Actions])
    /\ raw \in Seq(RawType) /\ corr \in Seq(Event) /\ fwd \in Seq(Event)
    /\ hand \in Event
    /\ ppc \in {"get", "act", "put", "dead"}
    /\ restarts \in [Tenants -> Seq(0..now)] /\ history \in [Tenants -> Seq(0..now)]
    /\ rate \in [Reported -> Seq(0..now)] /\ \A n \in Reported : Len(rate[n]) <= RateMax
    /\ starts \in [Tenants -> Seq(0..now)] /\ docked \in [Tenants -> SUBSET (0..now)]
    /\ sent \in Seq([node : Reported, at : 0..now])

Empty(S) == [n \in S |-> << >>]

Boot ==
    /\ listening' = TRUE /\ restarts' = Empty(Tenants) /\ starts' = Empty(Tenants)
    /\ raw' = << >> /\ history' = Empty(Tenants) /\ known' = {} /\ mapAt' = -MapAge
    /\ docked' = [n \in Tenants |-> {}] /\ born' = 0
    /\ corr' = << >> /\ ppc' = "get" /\ hand' = NoEvent /\ fwd' = << >>
    /\ rate' = Empty(Reported) /\ sent' = << >> /\ limited' = 0

Init ==
    /\ now = 0 /\ container = [n \in Tenants |-> "running"] /\ attached = Tenants
    /\ stream = << >> /\ up = TRUE
    /\ listening = TRUE /\ restarts = Empty(Tenants) /\ starts = Empty(Tenants)
    /\ raw = << >> /\ history = Empty(Tenants) /\ known = {} /\ mapAt = -MapAge
    /\ docked = [n \in Tenants |-> {}] /\ born = 0
    /\ corr = << >> /\ ppc = "get" /\ hand = NoEvent /\ fwd = << >>
    /\ rate = Empty(Reported) /\ sent = << >> /\ limited = 0
    /\ inputs = 0 /\ faults = 0

------------------------------------------------------------------------------
(* Helpers.                                                                  *)

\* The windows: what is older than limit is popped from the left.
Evict(q, limit) ==
    LET old == {i \in DOMAIN q : \A j \in 1..i : q[j] < limit}
    IN SubSeq(q, Cardinality(old) + 1, Len(q))

Docker(n, action) == [node |-> n, action |-> action]

\* What the daemon tells the collector, as long as that listens.
Streamed(events) == IF up /\ listening THEN stream \o events ELSE stream

\* Docker or the audit log raises, or a sensor ends.
Fault ==
    /\ faults < MaxFaults
    /\ faults' = faults + 1
    /\ UNCHANGED inputs

------------------------------------------------------------------------------
(* The world around the process.                                             *)

Tick ==
    /\ now < MaxTime
    /\ now' = now + 1
    /\ UNCHANGED <<host, stream, up, collector, raw, correlator, corr, policy, fwd, forwarder,
                   bounds>>

\* Operations of an operator or of the risk engine.  kill, die and stop of a container
\* arrive together and are one event: a window counts from the last of them.
Operations(n) ==
    { [kind |-> "stop", to |-> "exited", from |-> {"running", "paused"},
       events |-> <<Docker(n, "stop")>>],
      [kind |-> "restart", to |-> "running", from |-> {"running", "exited"},
       events |-> <<Docker(n, "start"), Docker(n, "restart")>>],
      [kind |-> "exec", to |-> "running", from |-> {"running"},
       events |-> <<Docker(n, "exec_create"), Docker(n, "exec_start")>>],
      [kind |-> "rename", to |-> "running", from |-> {"running"},
       events |-> <<Docker(n, "rename")>>],
      [kind |-> "connect", to |-> "running", from |-> {"running"},
       events |-> <<Docker(n, "connect")>>] }

Operate(n) ==
    /\ inputs < MaxInputs
    /\ \E o \in Operations(n) :
          /\ o.kind \in Kinds /\ container[n] \in o.from
          /\ container' = [container EXCEPT ![n] = o.to]
          /\ attached' = IF o.kind = "connect" THEN attached \cup {n} ELSE attached
          /\ stream' = Streamed(o.events)
    /\ inputs' = inputs + 1
    /\ UNCHANGED <<now, up, collector, raw, correlator, corr, policy, fwd, forwarder,
                   faults>>

------------------------------------------------------------------------------
(* Collectors.                                                               *)

\* The events the collector passes over; image events concern no tenant.
Ignored == {"exec_create", "exec_die", "disconnect"}
Starting == {"start", "restart"}

\* threat_type, "none" without one
Threat(action, count) ==
    CASE action \in Starting /\ count >= LoopMax -> "SUSPICIOUS_RESTART_PATTERN"
      [] action = "exec_start" -> "UNEXPECTED_EXEC"
      [] action = "rename" -> "CONTAINER_RENAME"
      [] action = "connect" -> "UNEXPECTED_NETWORK_ATTACH"
      [] OTHER -> "none"

MutStarted(n) == Append(Evict(restarts[n], now - LoopWindow + 1), now)
\* restart_times after a start of n
Started(n) == Append(Evict(restarts[n], now - LoopWindow), now)

CollectDocker ==
    /\ up /\ listening /\ stream # << >>
    /\ stream' = Tail(stream)
    /\ LET n == Head(stream).node
           action == Head(stream).action
           begun == action \in Starting
       IN /\ restarts' = IF begun THEN [restarts EXCEPT ![n] = Started(n)] ELSE restarts
          /\ starts' = IF begun THEN [starts EXCEPT ![n] = Append(@, now)] ELSE starts
          /\ raw' = IF action \in Ignored THEN raw
                    ELSE Append(raw, [source |-> "docker", node |-> n,
                                      type |-> Threat(action, Len(restarts'[n]))])
    /\ UNCHANGED <<now, host, up, listening, correlator, corr, policy, fwd, forwarder, bounds>>

\* The event stream breaks: what happens in the 5 s to the next connection is not seen;
\* restart_times outlives it.
StreamBreaks ==
    /\ up /\ listening /\ Fault
    /\ listening' = FALSE /\ stream' = << >>
    /\ UNCHANGED <<now, host, up, restarts, starts, raw, correlator, corr, policy, fwd,
                   forwarder>>

Reconnect ==
    /\ up /\ ~listening
    /\ listening' = TRUE
    /\ UNCHANGED <<now, host, stream, up, restarts, starts, raw, correlator, corr, policy, fwd,
                   forwarder, bounds>>

Certain == {"REVERSE_SHELL", "CONTAINER_ESCAPE_ATTEMPT", "PRIV_ESC_ATTEMPT"}

FalcoSeverity(priority) ==
    CASE priority \in {"EMERGENCY", "ALERT", "CRITICAL"} -> "CRITICAL"
      [] priority \in {"ERROR", "WARNING"} -> "HIGH"
      [] priority \in {"INFO", "DEBUG"} -> "LOW"
      [] OTHER -> "MEDIUM"

MutSeverity(l) == IF l.type \in Certain THEN "CRITICAL" ELSE l.level
Severity(l) ==
    CASE l.sensor = "suricata" ->
            (IF l.level = 1 THEN "CRITICAL" ELSE IF l.level = 2 THEN "HIGH"
             ELSE IF l.level = 3 THEN "MEDIUM" ELSE "LOW")
      [] l.sensor = "zeek" ->
            (IF l.level # "" THEN l.level
             ELSE IF l.type \in {"Lateral_Movement"} THEN "HIGH" ELSE "MEDIUM")
      [] l.sensor = "falco" -> (IF l.type \in Certain THEN "CRITICAL" ELSE FalcoSeverity(l.level))

\* A file is read from its end on: what is logged while the process is down is not read.
ReadLine ==
    /\ up /\ inputs < MaxInputs
    /\ \E l \in Lines :
          raw' = Append(raw, [source |-> l.sensor, type |-> l.type, sev |-> Severity(l),
                              src |-> l.src, dst |-> l.dst])
    /\ inputs' = inputs + 1
    /\ UNCHANGED <<now, host, stream, up, collector, correlator, corr, policy, fwd, forwarder,
                   faults>>

------------------------------------------------------------------------------
(* Correlator.                                                               *)

\* containers.list() leaves exited containers out.
Listed == {n \in attached : container[n] # "exited"}

\* resolve_node: a tenant's name, or an address the map holds
Resolve(x, map) ==
    IF x \in Tenants THEN x
    ELSE IF \E n \in map : Addresses[n] = x THEN CHOOSE n \in map : Addresses[n] = x
    ELSE "unknown"

\* Falco names the container; the network sensors' source is looked up before the
\* destination, each with the map of its moment.
NodeOf(e, map1, map2) ==
    LET found == IF Resolve(e.src, map1) # "unknown" \/ e.source = "falco"
                 THEN Resolve(e.src, map1) ELSE Resolve(e.dst, map2)
    IN IF found = "unknown" THEN Self ELSE found

LooksUp(e) == e.source # "falco" \/ e.src \notin Reported
MapDue(e) == LooksUp(e) /\ now - mapAt >= MapAge

\* The docker branch: the window is pruned, then extended; threats of their own go on.
CorrelateDocker ==
    /\ up /\ raw # << >> /\ Head(raw).source = "docker"
    /\ LET e == Head(raw)
       IN /\ history' = [history EXCEPT ![e.node] = Append(Evict(@, now - Window), now)]
          /\ docked' = [docked EXCEPT ![e.node] = @ \cup {now}]
          /\ IF e.type = "none" THEN UNCHANGED <<corr, born>>
             ELSE /\ corr' = Append(corr, [node |-> e.node, type |-> e.type, sev |-> "HIGH",
                                           correlated |-> FALSE])
                  /\ born' = born + 1
    /\ raw' = Tail(raw)
    /\ UNCHANGED <<now, host, stream, up, collector, known, mapAt, policy, fwd, forwarder,
                   bounds>>

MutPruned(n) == history[n]
\* the window an alert about n is joined with
Pruned(n) == Evict(history[n], now - Window)

\* The alert branch, once the node is found.
Judge(e, n) ==
    LET joined == n \in Tenants /\ Pruned(n) # << >>
    IN /\ history' = IF n \in Tenants THEN [history EXCEPT ![n] = Pruned(n)] ELSE history
       /\ corr' = Append(corr, [node |-> n, type |-> e.type,
                                sev |-> IF joined THEN "CRITICAL" ELSE e.sev,
                                correlated |-> joined])
       /\ born' = born + 1

\* The map is read when it is old; when Docker raises, the old one serves, and the second
\* look-up tries again.
CorrelateAlert ==
    /\ up /\ raw # << >> /\ Head(raw).source # "docker"
    /\ LET e == Head(raw)
       IN \/ /\ ~MapDue(e)
             /\ Judge(e, NodeOf(e, known, known))
             /\ UNCHANGED <<known, mapAt, bounds>>
          \/ /\ MapDue(e)
             /\ Judge(e, NodeOf(e, Listed, Listed))
             /\ known' = Listed /\ mapAt' = now
             /\ UNCHANGED bounds
          \/ /\ MapDue(e) /\ Fault
             /\ \/ Judge(e, NodeOf(e, known, known)) /\ UNCHANGED <<known, mapAt>>
                \/ /\ e.source # "falco" /\ Resolve(e.src, known) = "unknown"
                   /\ Judge(e, NodeOf(e, known, Listed))
                   /\ known' = Listed /\ mapAt' = now
    /\ raw' = Tail(raw)
    /\ UNCHANGED <<now, host, stream, up, collector, docked, policy, fwd, forwarder>>

------------------------------------------------------------------------------
(* Policy engine.                                                            *)

Matches(p, e) == p.type \in {Any, e.type} /\ p.sev \in {Any, e.sev}

MutActionFor(e) ==
    LET hits == {i \in DOMAIN Policies : Matches(Policies[i], e)}
    IN IF hits = {} THEN "none" ELSE Policies[CHOOSE i \in hits : \A j \in hits : i >= j].action
\* the first policy that matches
ActionFor(e) ==
    LET hits == {i \in DOMAIN Policies : Matches(Policies[i], e)}
    IN IF hits = {} THEN "none" ELSE Policies[CHOOSE i \in hits : \A j \in hits : i <= j].action

Decide ==
    /\ up /\ ppc = "get" /\ corr # << >>
    /\ hand' = Head(corr) /\ corr' = Tail(corr)
    /\ ppc' = IF ActionFor(hand') = "none" \/ hand'.node = Self THEN "put" ELSE "act"
    /\ UNCHANGED <<now, host, stream, up, collector, raw, correlator, fwd, forwarder, bounds>>

Quarantine(n) ==
    /\ container' = [container EXCEPT ![n] = "exited"]
    /\ stream' = IF container[n] # "exited" THEN Streamed(<<Docker(n, "stop")>>) ELSE stream
    /\ UNCHANGED attached

\* Docker pauses a running container only; what it raises is logged.
PauseNode(n) ==
    /\ IF container[n] = "running"
       THEN /\ container' = [container EXCEPT ![n] = "paused"]
            /\ stream' = Streamed(<<Docker(n, "pause")>>)
       ELSE UNCHANGED <<container, stream>>
    /\ UNCHANGED attached

Isolate(n) ==
    /\ attached' = attached \ {n}
    /\ stream' = IF n \in attached THEN Streamed(<<Docker(n, "disconnect")>>) ELSE stream
    /\ UNCHANGED container

\* _apply_action
Enforce ==
    /\ up /\ ppc = "act"
    /\ CASE ActionFor(hand) = "quarantine" -> Quarantine(hand.node)
         [] ActionFor(hand) = "pause" -> PauseNode(hand.node)
         [] ActionFor(hand) = "network_isolate" -> Isolate(hand.node)
    /\ ppc' = "put"
    /\ UNCHANGED <<now, up, collector, raw, correlator, corr, hand, fwd, forwarder, bounds>>

\* Docker raises: the failure is written to the audit log and the event goes on; when that
\* cannot be written either, the thread ends while the process goes on.
EnforceError ==
    /\ up /\ ppc = "act" /\ Fault
    /\ ppc' \in {"put", "dead"}
    /\ UNCHANGED <<now, host, stream, up, collector, raw, correlator, corr, hand, fwd, forwarder>>

MutPassOn ==
    /\ up /\ ppc = "put"
    /\ fwd' = IF ActionFor(hand) = "none" THEN fwd ELSE Append(fwd, hand)
    /\ ppc' = "get"
    /\ UNCHANGED <<now, host, stream, up, collector, raw, correlator, corr, hand, forwarder,
                   bounds>>
PassOn ==
    /\ up /\ ppc = "put"
    /\ fwd' = Append(fwd, hand)
    /\ ppc' = "get"
    /\ UNCHANGED <<now, host, stream, up, collector, raw, correlator, corr, hand, forwarder,
                   bounds>>

------------------------------------------------------------------------------
(* Forwarder.                                                                *)

MutRecent(n) == Evict(rate[n], now - RateWindow + 1)
\* _rate_ok: the window of the node, pruned
Recent(n) == Evict(rate[n], now - RateWindow)

\* What the send raises is swallowed after the slot of the window is taken.
Forward ==
    /\ up /\ fwd # << >>
    /\ LET e == Head(fwd)
           q == Recent(e.node)
       IN IF Len(q) >= RateMax
          THEN /\ rate' = [rate EXCEPT ![e.node] = q]
               /\ limited' = limited + 1
               /\ UNCHANGED sent
          ELSE /\ rate' = [rate EXCEPT ![e.node] = Append(q, now)]
               /\ sent' = Append(sent, [node |-> e.node, at |-> now])
               /\ UNCHANGED limited
    /\ fwd' = Tail(fwd)
    /\ UNCHANGED <<now, host, stream, up, collector, raw, correlator, corr, policy, bounds>>

------------------------------------------------------------------------------
\* main exits when Suricata or Zeek has; nothing starts it again but a reset or an operator.
Exit ==
    /\ up /\ Fault
    /\ up' = FALSE /\ stream' = << >>
    /\ Boot
    /\ UNCHANGED <<now, host>>

Restart ==
    /\ ~up
    /\ up' = TRUE
    /\ UNCHANGED <<now, host, stream, collector, raw, correlator, corr, policy, fwd, forwarder,
                   bounds>>

Correlate == CorrelateDocker \/ CorrelateAlert
PolicyStep == Decide \/ Enforce \/ PassOn

Next ==
    \/ Tick \/ (\E n \in Tenants : Operate(n))
    \/ CollectDocker \/ StreamBreaks \/ Reconnect \/ ReadLine
    \/ Correlate
    \/ PolicyStep \/ EnforceError
    \/ Forward
    \/ Exit \/ Restart

Spec == Init /\ [][Next]_vars

\* As long as a thread has something in its queue, some thread takes a step: nothing else
\* blocks them, and what each of them does is finite.  No line, no operation, no restart
\* and no tick is owed.
Fairness == WF_vars(CollectDocker \/ Reconnect \/ Correlate \/ PolicyStep \/ Forward)

FairSpec == Spec /\ Fairness

------------------------------------------------------------------------------
(* Properties.                                                               *)

\* However bursts and evictions fall, in no closed interval of _RATE_WINDOW does the
\* forwarder send more than _RATE_MAX reports about a node; a restart begins a new count.
RateRespected ==
    \A i \in DOMAIN sent :
        Cardinality({j \in i..Len(sent) : /\ sent[j].node = sent[i].node
                                          /\ sent[j].at - sent[i].at <= RateWindow}) <= RateMax

\* An alert is joined exactly with a Docker event of its node handled at most a window
\* before, although each branch of the correlator prunes the deque as the other left it.
JoinedIffRecent ==
    [][(raw # << >> /\ Head(raw).source # "docker" /\ Len(corr') > Len(corr)) =>
          LET e == corr'[Len(corr')]
          IN e.correlated <=> /\ e.node \in Tenants
                              /\ \E t \in docked[e.node] : now - t <= Window]_vars

\* A start is reported as part of a loop exactly when it is at least the LoopMax-th start
\* the collector has read within the window, broken event streams included.  What is counted
\* are events, "start" and "restart" alike: one docker restart sends both and counts twice, so
\* that the fifth count of docker_collector.py:31 and README.md:368, which speak of five
\* restarts, is reached by the third restart.
LoopIsCounted ==
    [][(stream # << >> /\ Len(raw') > Len(raw) /\ Len(stream') < Len(stream)
            /\ Head(stream).action \in Starting) =>
          LET n == Head(stream).node
              near == {i \in DOMAIN starts'[n] : now - starts'[n][i] <= LoopWindow}
          IN (raw'[Len(raw')].type = "SUSPICIOUS_RESTART_PATTERN")
                <=> Cardinality(near) >= LoopMax]_vars

\* A CRITICAL alert about a tenant, by its sensor or by correlation, ends with the container
\* stopped, although later policies would pause or isolate it, whatever alerts come before it
\* in the queues and whatever is done to the container meanwhile, unless a call fails or the
\* monitor exits from then on, or the policy thread has ended.  This is so for the order of
\* fast_path_policy.yaml: a pause listed above "any CRITICAL" would take its place.
Critical(n) == \E i \in DOMAIN corr : corr[i].node = n /\ corr[i].sev = "CRITICAL"
CriticalIsStopped ==
    \A n \in Tenants, f \in 0..MaxFaults :
        (Critical(n) /\ faults = f)
            ~> (container[n] = "exited" \/ faults > f \/ ppc = "dead")

\* Every event the correlator has put out is sent or refused by the rate limit in the end,
\* Docker failures included, as long as the policy thread lives.
Settled == ~up \/ ppc = "dead" \/ born = Len(sent) + limited
AlertsAreSettled == <>[]Settled

=============================================================================
