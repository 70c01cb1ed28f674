----------------------------- MODULE Controller -----------------------------
(***************************************************************************)
(* controller/controller.py: the gate between the senders (ZMQ :5555) and  *)
(* the risk engine.  One thread receives a message, runs the five checks   *)
(* on its in-memory guards and then emits events, each emission a          *)
(* save_offset followed by a send.  The process may be killed between any  *)
(* two of these effects; only the offset file and the blacklist file       *)
(* survive.                                                                *)
(***************************************************************************)
EXTENDS GateEmissions, Integers, FiniteSets

CONSTANTS Nodes,         \* names a message may claim
          Allowed,       \* allowed_nodes of allowlist.yaml; {} switches the check off
          Exempt,        \* infrastructure names without a monotonic seq
          MsgIds, MachineIds,
          NoMid,         \* machine_id absent or ""
          Messages,      \* the messages senders sign (or forge) during a behaviour
          MaxAge,        \* replay_protection.max_age_seconds
          ReplayWindow,  \* replay_protection.window_seq_track
          FloodMax,      \* flood_threshold.max_msgs_per_60s
          FloodWindow,   \* the 60 s of FloodGuard and of flood_alerted
          MaxTime, MaxRx, MaxBoot   \* bounds: clock, messages received, restarts

MessageType == [node : Nodes, id : MsgIds, seq : Nat, ts : Nat,
                mid : MachineIds \cup {NoMid}, hmac : BOOLEAN]

ASSUME ConstantsAssumption ==
    /\ Allowed \subseteq Nodes
    /\ Exempt \subseteq Nodes
    /\ NoMid \notin MachineIds
    /\ Messages # {} /\ Messages \subseteq MessageType
    /\ {MaxAge, ReplayWindow, FloodMax, FloodWindow} \subseteq Nat \ {0}
    /\ {MaxTime, MaxRx, MaxBoot} \subseteq Nat

VARIABLES
    now,             \* time.time(), shared by every container of the host
    \* on disk
    savedOffset, savedBlacklist,
    \* in memory, rebuilt by main() at every start
    offset, blacklist,
    seen,            \* ReplayGuard._seen: node -> (time, msg_id) entries, oldest first
    lastSeq,         \* ReplayGuard._last_seq
    times,           \* FloodGuard._times
    floodAlerted,    \* node -> time of the last FLOOD_ATTACK alert
    mids,            \* node_machine_ids
    \* the rest of the current loop iteration
    todo,            \* emissions still to make for the current message
    saved,           \* the save of Head(todo) has been made
    blkDue,          \* save_blacklist is still to be called
    cur,             \* the message in hand and when it was received
    \* history
    sent,            \* every event handed to the forward socket
    boot, rx         \* numbers of the process's life and of the message in hand

guards == <<seen, lastSeq, times, floodAlerted, mids>>
disk == <<savedOffset, savedBlacklist>>
vars == <<now, disk, offset, blacklist, guards, todo, saved, blkDue, cur, sent, boot, rx>>

Never == 0 - FloodWindow      \* flood_alerted.get(node, 0.0): long ago
NoSeq == 0 - 1                \* _last_seq.get(node, -1)
Entries == [at : Nat, id : MsgIds]
Events == [kind : Kinds, off : Nat, msg : Messages, at : Nat, boot : Nat, rx : Nat]

\* The types of the variables (main, ReplayGuard, FloodGuard).
TypeOK ==
    /\ now \in Nat
    /\ savedOffset \in Nat /\ savedBlacklist \subseteq Nodes
    /\ offset \in Nat /\ blacklist \subseteq Nodes
    /\ seen \in [Nodes -> Seq(Entries)]
    /\ lastSeq \in [Nodes -> Nat \cup {NoSeq}]
    /\ times \in [Nodes -> Seq(Nat)]
    /\ floodAlerted \in [Nodes -> Nat \cup {Never}]
    /\ mids \in [Nodes -> MachineIds \cup {NoMid}]
    /\ todo \in Seq(Emissions)
    /\ saved \in BOOLEAN /\ blkDue \in BOOLEAN
    /\ cur \in [msg : Messages, at : Nat]
    /\ sent \in Seq(Events)
    /\ boot \in Nat /\ rx \in Nat

------------------------------------------------------------------------------
(* The checks, as predicates on the message in hand.                         *)

\* ReplayGuard.check 1: |now - ts| > max_age
Stale(m) == now - m.ts > MaxAge \/ m.ts - now > MaxAge

\* ReplayGuard.check 2; equal numbers are refused too
MutNonMonotonic(m) == m.node \notin Exempt /\ m.seq < lastSeq[m.node]
NonMonotonic(m) == m.node \notin Exempt /\ m.seq <= lastSeq[m.node]

\* `while dq and dq[0] < cutoff: dq.popleft()`, where `old` are the positions before the
\* cutoff.  Entries are appended in time order, so they are the first ones.
PopOld(s, old) == SubSeq(s, Cardinality(old) + 1, Len(s))

\* ReplayGuard.check 3: the deque once entries older than the cutoff are popped.
MutLiveEntries(n) ==
    PopOld(seen[n], {i \in DOMAIN seen[n] : seen[n][i].at <= now - MaxAge})
LiveEntries(n) ==
    PopOld(seen[n], {i \in DOMAIN seen[n] : seen[n][i].at < now - MaxAge})

Duplicate(m) == \E i \in DOMAIN LiveEntries(m.node) : LiveEntries(m.node)[i].id = m.id

\* The deque after recording m: at its capacity it first loses its oldest entry.
Recorded(m) ==
    LET live == LiveEntries(m.node)
    IN  Append(IF Len(live) >= ReplayWindow THEN Tail(live) ELSE live,
               [at |-> now, id |-> m.id])

\* FloodGuard.check: the arrival times of the last FloodWindow, this one included
Arrivals(n) ==
    Append(PopOld(times[n], {i \in DOMAIN times[n] : times[n][i] < now - FloodWindow}), now)

MutFlooding(n) == Len(Arrivals(n)) > FloodMax + 1
Flooding(n) == Len(Arrivals(n)) > FloodMax

\* at most one alert per node and window
MutFloodReport(n) == Flooding(n)
FloodReport(n) == Flooding(n) /\ now - floodAlerted[n] >= FloodWindow

MutImpersonates(m) ==
    /\ m.mid # NoMid /\ mids[m.node] # NoMid /\ m.mid # mids[m.node]
    /\ m.node \notin Exempt
Impersonates(m) == m.mid # NoMid /\ mids[m.node] # NoMid /\ m.mid # mids[m.node]

RemarksOn(m) ==
    (IF FloodReport(m.node) THEN {"FLOOD_ATTACK"} ELSE {})
        \cup (IF Impersonates(m) THEN {"NODE_IMPERSONATION"} ELSE {})

------------------------------------------------------------------------------
(* Start-up: main() up to the loop.                                          *)

MutLoadOffset == savedOffset - 1
LoadOffset == savedOffset
MutLoadBlacklist == {}
LoadBlacklist == savedBlacklist

\* The guards a new process starts with, as functions of the node.
NoEntries == [n \in Nodes |-> << >>]
NoSeqs == [n \in Nodes |-> NoSeq]
NoAlerts == [n \in Nodes |-> Never]
NoMids == [n \in Nodes |-> NoMid]

Init ==
    /\ now = 0
    /\ savedOffset = 0 /\ savedBlacklist = {}
    /\ offset = 0 /\ blacklist = {}
    /\ seen = NoEntries /\ lastSeq = NoSeqs /\ times = NoEntries
    /\ floodAlerted = NoAlerts /\ mids = NoMids
    /\ todo = << >> /\ saved = FALSE /\ blkDue = FALSE
    /\ cur = [msg |-> CHOOSE m \in Messages : TRUE, at |-> 0]
    /\ sent = << >> /\ boot = 0 /\ rx = 0

------------------------------------------------------------------------------
(* The loop.                                                                 *)

\* recv_json returns m: it may be a copy of one already received, and it may be dated ahead
\* of the controller's clock.
Take(m) ==
    /\ todo = << >> /\ rx < MaxRx
    /\ cur' = [msg |-> m, at |-> now]
    /\ rx' = rx + 1
    /\ UNCHANGED <<now, disk, saved, sent, boot>>

\* PRE-CHECK: a blacklisted name is dropped in silence and takes no offset.
DropBlacklisted(m) ==
    /\ Take(m)
    /\ m.node \in blacklist
    /\ UNCHANGED <<offset, blacklist, guards, todo, blkDue>>

\* The message takes the next offset and is answered with one alert.
Reject(m, kind) ==
    /\ Take(m)
    /\ m.node \notin blacklist
    /\ offset' = offset + 1
    /\ todo' = RejectPlan(kind, offset + 1)

\* CHECK 1: the HMAC does not verify.
Tampered(m) ==
    /\ Reject(m, "TELEMETRY_TAMPER")
    /\ ~m.hmac
    /\ UNCHANGED <<blacklist, guards, blkDue>>

OffAllowlist(m) == Allowed # {} /\ m.node \notin Allowed

\* CHECK 2: a name outside the allowlist is blacklisted, then reported.
Rogue(m) ==
    /\ Reject(m, "ROGUE_NODE")
    /\ m.hmac /\ OffAllowlist(m)
    /\ blacklist' = blacklist \cup {m.node}
    /\ blkDue' = TRUE
    /\ UNCHANGED guards

\* CHECK 3: the deque is pruned only when the first two tests of the guard pass.
Replayed(m) ==
    /\ Reject(m, "REPLAY_ATTACK")
    /\ m.hmac /\ ~OffAllowlist(m)
    /\ \/ /\ Stale(m) \/ NonMonotonic(m)
          /\ UNCHANGED seen
       \/ /\ ~Stale(m) /\ ~NonMonotonic(m) /\ Duplicate(m)
          /\ seen' = [seen EXCEPT ![m.node] = LiveEntries(m.node)]
    /\ UNCHANGED <<blacklist, lastSeq, times, floodAlerted, mids, blkDue>>

\* CHECKS 4 and 5 add their alerts; the message itself is always forwarded.
Accept(m) ==
    /\ Take(m)
    /\ m.node \notin blacklist /\ m.hmac /\ ~OffAllowlist(m)
    /\ ~Stale(m) /\ ~NonMonotonic(m) /\ ~Duplicate(m)
    /\ seen' = [seen EXCEPT ![m.node] = Recorded(m)]
    /\ lastSeq' = [lastSeq EXCEPT ![m.node] = m.seq]
    /\ times' = [times EXCEPT ![m.node] = Arrivals(m.node)]
    /\ floodAlerted' = IF FloodReport(m.node)
                       THEN [floodAlerted EXCEPT ![m.node] = now] ELSE floodAlerted
    /\ mids' = IF m.mid # NoMid THEN [mids EXCEPT ![m.node] = m.mid] ELSE mids
    /\ offset' = ForwardOffset(RemarksOn(m), offset + 1)
    /\ todo' = AcceptPlan(RemarksOn(m), offset + 1)
    /\ UNCHANGED <<blacklist, blkDue>>

\* save_blacklist: written to a temporary file and renamed, so all or nothing.
SaveBlacklist ==
    /\ blkDue
    /\ savedBlacklist' = blacklist
    /\ blkDue' = FALSE
    /\ UNCHANGED <<now, savedOffset, offset, blacklist, guards, todo, saved, cur, sent,
                   boot, rx>>

\* save_offset: all or nothing as well.
SaveOffset ==
    /\ todo # << >> /\ ~blkDue /\ ~saved
    /\ savedOffset' = Head(todo).save
    /\ saved' = TRUE
    /\ UNCHANGED <<now, savedBlacklist, offset, blacklist, guards, todo, blkDue, cur, sent,
                   boot, rx>>

MutSendReady == todo # << >> /\ ~blkDue
SendReady == todo # << >> /\ saved

\* fwd.send_json
Send ==
    /\ SendReady
    /\ sent' = Append(sent, [kind |-> Head(todo).kind, off |-> Head(todo).off,
                             msg |-> cur.msg, at |-> cur.at, boot |-> boot, rx |-> rx])
    /\ todo' = Tail(todo)
    /\ saved' = FALSE
    /\ UNCHANGED <<now, disk, offset, blacklist, guards, blkDue, cur, boot, rx>>

\* The process is killed at any point and started again.
Restart ==
    /\ boot < MaxBoot
    /\ boot' = boot + 1
    /\ offset' = LoadOffset /\ blacklist' = LoadBlacklist
    /\ seen' = NoEntries /\ lastSeq' = NoSeqs /\ times' = NoEntries
    /\ floodAlerted' = NoAlerts /\ mids' = NoMids
    /\ todo' = << >> /\ saved' = FALSE /\ blkDue' = FALSE
    /\ UNCHANGED <<now, disk, cur, sent, rx>>

Tick ==
    /\ now < MaxTime
    /\ now' = now + 1
    /\ UNCHANGED <<disk, offset, blacklist, guards, todo, saved, blkDue, cur, sent, boot, rx>>

Receive(m) == DropBlacklisted(m) \/ Tampered(m) \/ Rogue(m) \/ Replayed(m) \/ Accept(m)

Next == (\E m \in Messages : Receive(m)) \/ SaveBlacklist \/ SaveOffset \/ Send
            \/ Restart \/ Tick

Spec == Init /\ [][Next]_vars

------------------------------------------------------------------------------
(* Properties.                                                               *)

Forwarded == {i \in DOMAIN sent : sent[i].kind = "TELEMETRY"}

\* Same node, same life of the controller.
Together(i, j) == sent[i].msg.node = sent[j].msg.node /\ sent[i].boot = sent[j].boot

\* Offsets leave in order and are never used twice for different messages, whatever
\* crash falls between a save and its send (save_offset always precedes send_json).
OffsetsNeverReused ==
    \A i, j \in DOMAIN sent : i < j =>
        \/ sent[i].off < sent[j].off
        \/ sent[i].off = sent[j].off /\ sent[i].rx = sent[j].rx

\* What one life of the controller forwards of a tenant has strictly increasing sequence
\* numbers (ReplayGuard.check 2).
TenantSeqIncreases ==
    \A i, j \in Forwarded :
        i < j /\ Together(i, j) /\ sent[i].msg.node \notin Exempt
            => sent[i].msg.seq < sent[j].msg.seq

\* A copy of a message gets through a second time in one life only when ReplayWindow or
\* more messages of that node were accepted since the first: the freshness bound and the
\* deque's eviction bound fit together (ReplayGuard.check 1 and 3).  They do so only for
\* messages that were not dated ahead when first received: check 1 bounds |now - ts|, the
\* deque counts from the receipt, so a message dated ahead is still fresh when the deque
\* has forgotten it.  Its copy passes without a full window, but never within MaxAge of
\* the first receipt.
DatedAhead(i) == sent[i].at < sent[i].msg.ts
Between(i, j) == {k \in Forwarded : i <= k /\ k < j /\ Together(i, k)}
ComesLate(i, j) ==
    \/ Cardinality(Between(i, j)) >= ReplayWindow
    \/ DatedAhead(i) /\ sent[j].at > sent[i].at + MaxAge
CopyOnlyAfterFullWindow ==
    \A i, j \in Forwarded :
        i < j /\ Together(i, j) /\ sent[i].msg = sent[j].msg => ComesLate(i, j)

\* Two flood alerts about one node are at least a window apart (flood_alerted).
OneFloodAlertPerWindow ==
    \A i, j \in DOMAIN sent :
        i < j /\ Together(i, j) /\ {sent[i].kind, sent[j].kind} = {"FLOOD_ATTACK"}
            => sent[j].at - sent[i].at >= FloodWindow

\* A node that exceeds the limit is reported: whenever more than FloodMax of its messages
\* fall within one window, an alert about it went out less than a window before.
FloodIsReported ==
    \A j \in Forwarded :
        LET near == {i \in Forwarded : /\ i <= j /\ Together(i, j)
                                       /\ sent[i].at >= sent[j].at - FloodWindow}
        IN  Cardinality(near) > FloodMax
                => \E i \in 1..j : /\ sent[i].kind = "FLOOD_ATTACK" /\ Together(i, j)
                                   /\ sent[i].at > sent[j].at - FloodWindow

\* A rogue name is reported at most once, ever: the blacklist file is written before the
\* alert leaves, so no restart forgets a name already reported.
RogueReportedOnce ==
    \A i, j \in DOMAIN sent :
        {sent[i].kind, sent[j].kind} = {"ROGUE_NODE"} /\ sent[i].msg.node = sent[j].msg.node
            => i = j

\* Within one life, no forwarded message changes the machine behind a node's name without
\* an impersonation alert on the way (CHECK 5).
MachineChangeIsReported ==
    \A i, j \in Forwarded :
        i < j /\ Together(i, j) /\ NoMid \notin {sent[i].msg.mid, sent[j].msg.mid}
                /\ sent[i].msg.mid # sent[j].msg.mid
            => \E k \in i..j : sent[k].kind = "NODE_IMPERSONATION" /\ Together(i, k)

=============================================================================
