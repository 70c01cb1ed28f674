-------------------------------- MODULE Signals --------------------------------
(***************************************************************************)
(* The risk engine's decision on an event: rules.py matches it against the *)
(* rules in memory, correlation.py against what other nodes did (per rule) *)
(* and what else the node did (per threat type).  The cross-node windows   *)
(* are rebuilt from the database after a restart, the others are not; the  *)
(* rules are reloaded when their file is modified.                         *)
(***************************************************************************)
EXTENDS Integers, Sequences, FiniteSets

CONSTANTS Nodes,         \* the names messages are signed with
          RuleIds,
          Files,         \* contents of rules.yaml: sets of rules, Broken or Halved
          Events,        \* what is reported: [node, type, fires]
          SignalRules,   \* MULTI_SIGNAL_RULES: [types, window, multiplier]
          Window, Threshold, Factor,   \* window_seconds, threshold_nodes, multiplier of Correlator
          Plain,         \* the multiplier 1.0; all multipliers are in tenths
          Start, Day,    \* the first moment, and the length of a day
          MaxTime, MaxInputs, MaxQueue, MaxChanges   \* bounds

Types == {e.type : e \in Events}
Broken == {"broken"}   \* a rule file that does not parse
Halved == {"halved"}   \* one that parses, but match() raises on it: a bare "match:", a scalar

ASSUME SignalsAssumption ==
    /\ Files \subseteq (SUBSET RuleIds) \cup {Broken, Halved} /\ RuleIds \in Files
    /\ "broken" \notin RuleIds /\ "halved" \notin RuleIds
    /\ IsFiniteSet(Nodes) /\ Nodes # {}
    /\ Events \subseteq [node : Nodes, type : Types, fires : SUBSET RuleIds]
    /\ {Window, Threshold, Plain, Factor, Start, Day, MaxTime, MaxInputs, MaxQueue,
        MaxChanges} \subseteq Nat
    /\ Start <= MaxTime /\ Day > 0 /\ Plain < Factor /\ SignalRules # {}
    /\ \A r \in SignalRules : r.window \in Nat /\ r.multiplier \in Nat /\ r.types # {}
    \* the table is finite: it has a longest window and a largest multiplier
    /\ \E r \in SignalRules : \A k \in SignalRules : r.window >= k.window
    /\ \E r \in SignalRules : \A k \in SignalRules : r.multiplier >= k.multiplier

VARIABLES
    now,
    inbox,       \* events on their way from the controller, with rx, their _received_at
    \* RuleEngine
    file,        \* rules.yaml: the rules in it; {} is the empty file
    rules,       \* _rules
    notices,     \* modified events the watcher has still to deliver
    \* Correlator
    windows,     \* _windows: [RuleIds -> Seq of [at, node]]
    signals,     \* _node_signals: [Nodes -> Seq of [at, type]]
    \* event loop
    pc, hand,    \* the decision at hand
    rows,        \* the events table: rows with matched_rules, in the order of their ids
    \* history
    heard,       \* [rule, node, at, rx, kept]: what the engine counted and can still know
    seen,        \* [node, type, at]: the signals decided on since the engine's start
    announced,   \* the engine reads the present rules.yaml, or will be told to
    inputs, changes   \* the bounds' counters

reload == <<file, rules, notices, announced>>
memory == <<windows, signals>>
loop == <<pc, hand>>
history == <<heard, seen>>
vars == <<now, inbox, reload, memory, loop, rows, history, inputs, changes>>

NoDecision == [node |-> CHOOSE n \in Nodes : TRUE, matched |-> {}, rx |-> Start, at |-> Start,
               cross |-> {}, multi |-> {}, multiplier |-> Plain]

\* Windows hold moments that have passed, oldest first; a decision names rules that exist.
TypeOK ==
    /\ now \in Start..MaxTime
    /\ \A i \in DOMAIN inbox : inbox[i].rx \in Start..now
    /\ file \in Files /\ rules \in (SUBSET RuleIds) \cup {Halved} /\ notices \in Nat
    /\ \A r \in RuleIds : \A i, j \in DOMAIN windows[r] :
          /\ windows[r][i].at \in Start..now /\ windows[r][i].node \in Nodes
          /\ i < j => windows[r][i].at <= windows[r][j].at
    /\ \A n \in Nodes : \A i \in DOMAIN signals[n] :
          signals[n][i].type \in Types \ {"NORMAL"} /\ signals[n][i].at \in Start..now
    /\ pc \in {"boot", "recv", "write"}
    /\ hand.matched \subseteq RuleIds /\ hand.cross \subseteq hand.matched
    /\ hand.multi \subseteq SignalRules
    /\ \A i \in DOMAIN rows : rows[i].matched \subseteq RuleIds /\ rows[i].rx \in Start..now

Init ==
    /\ now = Start /\ inbox = << >>
    /\ file = RuleIds /\ rules = RuleIds /\ notices = 0 /\ announced = TRUE
    /\ windows = [r \in RuleIds |-> << >>] /\ signals = [n \in Nodes |-> << >>]
    /\ pc = "boot" /\ hand = NoDecision /\ rows = << >>
    /\ heard = {} /\ seen = {} /\ inputs = 0 /\ changes = 0

------------------------------------------------------------------------------
(* The world around the engine.                                              *)

Tick ==
    /\ now < MaxTime
    /\ now' = now + 1
    /\ UNCHANGED <<inbox, reload, memory, loop, rows, history, inputs, changes>>

Input ==
    /\ inputs < MaxInputs
    /\ inputs' = inputs + 1
    /\ UNCHANGED <<now, memory, loop, rows, history, changes>>

\* The controller passes an event on.
Send ==
    /\ Input /\ Len(inbox) < MaxQueue
    /\ \E e \in Events : inbox' = Append(inbox, [e |-> e, rx |-> now])
    /\ UNCHANGED reload

\* rules.yaml is written in place: truncated, filled, or left half written.  While the
\* watcher has not started, nobody is told.
WriteFile ==
    /\ Input
    /\ file' \in Files \ {file}
    /\ notices' = IF pc = "boot" THEN notices ELSE notices + 1
    /\ announced' = (pc # "boot")
    /\ UNCHANGED <<inbox, rules>>

\* rules.yaml is replaced by another file moved over it: created and moved events only.
ReplaceFile ==
    /\ Input
    /\ file' \in Files \ {file}
    /\ announced' = FALSE
    /\ UNCHANGED <<inbox, rules, notices>>

Change ==
    /\ changes < MaxChanges
    /\ changes' = changes + 1

------------------------------------------------------------------------------
(* RuleEngine.                                                               *)

\* _load: what does not parse leaves the rules in memory as they are.
Loaded(kept) == IF file = Broken THEN kept ELSE file

MutOnModified == notices > 1
OnModified == notices > 0

Reload ==
    /\ OnModified
    /\ rules' = Loaded(rules)
    /\ notices' = notices - 1
    /\ UNCHANGED <<now, inbox, file, announced, memory, loop, rows, history, inputs, changes>>

\* _start_watcher, after _load
StartWatcher ==
    /\ pc = "boot"
    /\ pc' = "recv"
    /\ UNCHANGED <<now, inbox, reload, memory, hand, rows, history, inputs, changes>>

\* match, which raises on a halved list whatever the event
Matchable == rules # Halved
Match(e) == e.fires \cap rules

------------------------------------------------------------------------------
(* Correlator.                                                               *)

\* what is older than limit is popped from the left
Evict(q, limit) ==
    LET old == {i \in DOMAIN q : \A j \in 1..i : q[j].at < limit}
    IN SubSeq(q, Cardinality(old) + 1, Len(q))

\* check: the window of a rule after it
Checked(r, n) == Append(Evict(windows[r], now - Window), [at |-> now, node |-> n])

NodesIn(q) == {q[i].node : i \in DOMAIN q}

\* check_multi_signal, on the node's deque q: the rules whose types all lie in their windows
Matching(q) ==
    {r \in SignalRules :
        r.types \subseteq {q[i].type : i \in {j \in DOMAIN q : q[j].at >= now - r.window}}}

MutKeptFor == CHOOSE w \in {r.window : r \in SignalRules} : \A r \in SignalRules : w <= r.window
KeptFor == CHOOSE w \in {r.window : r \in SignalRules} : \A r \in SignalRules : w >= r.window

\* record_threat; NORMAL is no threat
Recorded(e) ==
    IF e.type = "NORMAL" THEN signals[e.node]
    ELSE Append(signals[e.node], [at |-> now, type |-> e.type])

\* warm_restart_events compares strings, "2026-01-01T..." with "2026-01-01 ...": every row
\* of the day on which the window began is loaded.
MutReloaded == {i \in DOMAIN rows : rows[i].rx \div Day >= now \div Day}
Reloaded == {i \in DOMAIN rows : rows[i].rx \div Day >= (now - Window) \div Day}

\* ORDER BY id: the k-th of a set of ids
Nth(ids, k) == CHOOSE i \in ids : Cardinality({j \in ids : j <= i}) = k

MutRebuilt(r) ==
    LET hits == {i \in Reloaded : r \in rows[i].matched}
        n == Cardinality(hits)
    IN [k \in 1..n |-> LET row == rows[Nth(hits, n - k + 1)] IN [at |-> row.rx, node |-> row.node]]
\* warm_restart
Rebuilt(r) ==
    LET hits == {i \in Reloaded : r \in rows[i].matched}
    IN [k \in 1..Cardinality(hits) |-> [at |-> rows[Nth(hits, k)].rx,
                                        node |-> rows[Nth(hits, k)].node]]

------------------------------------------------------------------------------
(* Event loop.                                                               *)

Best(S) == CHOOSE m \in S : \A k \in S : m >= k

\* recv and pipeline.process
Process ==
    /\ pc = "recv" /\ inbox # << >> /\ Matchable
    /\ LET e == Head(inbox).e
           matched == Match(e)
           cross == {r \in matched : Cardinality(NodesIn(Checked(r, e.node))) >= Threshold}
           multi == Matching(Recorded(e))
       IN /\ windows' = [r \in RuleIds |-> IF r \in matched THEN Checked(r, e.node)
                                           ELSE windows[r]]
          /\ signals' = [signals EXCEPT ![e.node] = Evict(Recorded(e), now - KeptFor)]
          /\ hand' = [node |-> e.node, matched |-> matched, rx |-> Head(inbox).rx, at |-> now,
                      cross |-> cross, multi |-> multi,
                      multiplier |-> Best({Plain} \cup {r.multiplier : r \in multi}
                                            \cup (IF cross = {} THEN {} ELSE {Factor}))]
          /\ heard' = heard \cup {[rule |-> r, node |-> e.node, at |-> now, kept |-> FALSE,
                                   rx |-> Head(inbox).rx] : r \in matched}
          /\ seen' = IF e.type = "NORMAL" THEN seen
                     ELSE seen \cup {[node |-> e.node, type |-> e.type, at |-> now]}
    /\ inbox' = Tail(inbox) /\ pc' = "write"
    /\ UNCHANGED <<now, reload, rows, inputs, changes>>

\* match raises before the correlator is asked: the event is given up.
MatchError ==
    /\ pc = "recv" /\ inbox # << >> /\ ~Matchable
    /\ inbox' = Tail(inbox)
    /\ UNCHANGED <<now, reload, memory, loop, rows, history, inputs, changes>>

\* the messages that the decision at hand counted
Counted(h) ==
    h.rule \in hand.matched /\ h.node = hand.node /\ h.at = hand.at /\ h.rx = hand.rx

\* write_event
WriteEvent ==
    /\ pc = "write"
    /\ rows' = Append(rows, [node |-> hand.node, matched |-> hand.matched, rx |-> hand.rx])
    /\ heard' = {IF Counted(h) THEN [h EXCEPT !.kept = TRUE] ELSE h : h \in heard}
    /\ pc' = "recv" /\ hand' = NoDecision
    /\ UNCHANGED <<now, inbox, reload, memory, seen, inputs, changes>>

\* The database raises: the decision is given up, the windows stay as they are.
WriteError ==
    /\ pc = "write" /\ Change
    /\ pc' = "recv" /\ hand' = NoDecision
    /\ UNCHANGED <<now, inbox, reload, memory, rows, history, inputs>>

\* The command server's reset deletes the rows; the correlator is not told.
ResetTables ==
    /\ Change
    /\ rows' = << >>
    /\ heard' = {[h EXCEPT !.kept = FALSE] : h \in heard}
    /\ UNCHANGED <<now, inbox, reload, memory, loop, seen, inputs>>

\* The engine dies, with what its socket holds or not, and starts again, up to the point
\* where the rules are loaded.
Restart ==
    /\ Change
    /\ inbox' \in {inbox, << >>}
    /\ rules' = Loaded({}) /\ notices' = 0 /\ announced' = TRUE
    /\ windows' = [r \in RuleIds |-> Rebuilt(r)] /\ signals' = [n \in Nodes |-> << >>]
    /\ pc' = "boot" /\ hand' = NoDecision
    /\ heard' = {h \in heard : h.kept} /\ seen' = {}
    /\ UNCHANGED <<now, file, rows, inputs>>

Next ==
    \/ Tick \/ Send \/ WriteFile \/ ReplaceFile \/ Reload \/ StartWatcher
    \/ Process \/ MatchError \/ WriteEvent \/ WriteError \/ ResetTables \/ Restart

Spec == Init /\ [][Next]_vars

\* The watcher's thread delivers what it was told.
FairSpec == Spec /\ WF_vars(Reload)

------------------------------------------------------------------------------
(* Properties.                                                               *)

Across(r, moments) == {h.node : h \in {k \in moments : k.rule = r}}

\* A decision is correlated across nodes when enough nodes were received with the rule
\* within the window, and only when enough were processed within it: neither the eviction
\* nor a restart, with its rows of a whole day, loses or invents a node.
CrossNodeMatchesHistory ==
    pc = "write" => \A r \in hand.matched :
        LET surely == {h \in heard : h.rx >= hand.at - Window}
            perhaps == {h \in heard : h.at >= hand.at - Window}
        IN /\ Cardinality(Across(r, surely)) >= Threshold => r \in hand.cross
           /\ r \in hand.cross => Cardinality(Across(r, perhaps)) >= Threshold

\* A decision counts exactly the combinations of threats recorded for the node within their
\* windows since the engine started, and multiplies by the largest factor that applies, the
\* plain one included.  The node is the name the message is signed with: all that the
\* security monitor reports, about whatever tenant, is "security-monitor" (secure_messenger.py
\* :105 overwrites the tenant's name), and so never meets what the host observer reports of a
\* tenant, while alerts about different tenants do meet; README.md:445 and correlation.py:6
\* speak of the same node.
Factors ==
    {Plain} \cup {r.multiplier : r \in hand.multi} \cup {Factor : r \in hand.cross}
MultiSignalMatchesHistory ==
    pc = "write" =>
        LET shown(w) == {s.type : s \in {t \in seen : t.node = hand.node
                                                         /\ t.at >= hand.at - w}}
        IN /\ hand.multi = {r \in SignalRules : r.types \subseteq shown(r.window)}
           /\ hand.multiplier \in Factors
           /\ \A f \in Factors : hand.multiplier >= f

\* Rules written in place reach the engine, unless they do not parse, whatever edits, half
\* written ones too, and restarts come before.  An edit that is saved by moving a new file
\* over rules.yaml, or written between the load and the start of the watcher (rules.py:17,
\* :18), stays unread until the next write or restart: README.md:435, no restart required
\* after editing, holds for the others.
RulesFollowWrites == []<>(announced /\ file # Broken => rules = file)

=============================================================================
