----------------------------- MODULE OffsetLink -----------------------------
(***************************************************************************)
(* How offsets number events from the controller to the engine's database  *)
(* and filter them there: the emissions of controller.py, the ZMQ channel  *)
(* 5556, the receive loop of engine.py up to the commit, and the dashboard *)
(* command "reset" of cmd_server.py, which sets both ends back to zero     *)
(* while they run.  What the checks of the gate decide about a message is  *)
(* Controller.tla's business; here the verdict is any the gate can reach.  *)
(***************************************************************************)
EXTENDS GateEmissions, Integers, FiniteSets

CONSTANTS RejectKinds,  \* the alerts a rejection may raise
          RemarkSets,   \* the remarks the gate may add to an accepted message
          MaxRx, MaxCtlCrash, MaxEngCrash, MaxReset   \* bounds

ASSUME LinkAssumption ==
    /\ RejectKinds \subseteq Rejections
    /\ RemarkSets \subseteq Remarks
    /\ {MaxRx, MaxCtlCrash, MaxEngCrash, MaxReset} \subseteq Nat

VARIABLES
    \* controller
    up,          \* its process runs
    file,        \* /data/controller.offset; 0 when it does not exist
    offset,      \* main()'s offset
    todo,        \* emissions left for the current message
    saved,       \* the save of Head(todo) is done
    rx,          \* messages received so far: names the message in hand
    \* channel
    channel,     \* events between the two processes, oldest first
    \* engine, main thread
    pc,          \* "recv", "alert", "write" or "advance"; "down" while no engine runs
    hand,        \* the event being handled
    lastOffset,  \* engine_state["last_offset"]
    committed,   \* engine_offset.last_committed, in the database
    \* engine, command thread
    cmd,         \* the next step of a reset, or "idle"
    \* bounds and history
    ctlCrashes, engCrashes,
    resets,      \* resets begun
    gen,         \* the last reset carried through to the restart of the controller
    sentTop,     \* highest offset sent
    log,         \* events committed to the events table, a reset does not shorten it
    skipped,     \* events the offset filter dropped, with the committed offset then
    lost,        \* events a crash, an exception or validate() took
    straddled    \* an event numbered before a reset was through was recorded after it began

ctl == <<up, file, offset, todo, saved, rx>>
eng == <<pc, hand, lastOffset, committed>>
bounds == <<ctlCrashes, engCrashes, resets, gen>>
history == <<sentTop, log, skipped, lost, straddled>>
vars == <<ctl, channel, eng, cmd, bounds, history>>

\* An event on the wire; `gen` tells which generation of the numbering it belongs to.
Events == [kind : Kinds, off : Nat, rx : Nat, gen : Nat]
Skips == [ev : Events, committed : Nat]

\* The types of the variables on both sides of the link and of the history.
TypeOK ==
    /\ {file, offset, rx, lastOffset, committed, sentTop} \subseteq Nat
    /\ todo \in Seq(Emissions) /\ {up, saved} \subseteq BOOLEAN
    /\ channel \in Seq(Events) /\ log \in Seq(Events)
    /\ pc \in {"recv", "alert", "write", "advance", "down"}
    /\ hand \in Events
    /\ cmd \in {"idle", "memory", "file", "restart"}
    /\ {ctlCrashes, engCrashes, resets, gen} \subseteq Nat
    /\ skipped \subseteq Skips /\ lost \subseteq Events
    /\ straddled \in BOOLEAN

Init ==
    /\ up = TRUE /\ file = 0 /\ offset = 0 /\ todo = << >> /\ saved = FALSE /\ rx = 0
    /\ channel = << >>
    /\ pc = "recv" /\ lastOffset = 0 /\ committed = 0
    /\ hand = [kind |-> "TELEMETRY", off |-> 0, rx |-> 0, gen |-> 0]
    /\ cmd = "idle"
    /\ ctlCrashes = 0 /\ engCrashes = 0 /\ resets = 0 /\ gen = 0
    /\ sentTop = 0 /\ log = << >> /\ skipped = {} /\ lost = {} /\ straddled = FALSE

Contents(s) == {s[i] : i \in DOMAIN s}

------------------------------------------------------------------------------
(* Controller.                                                               *)

GateReject ==
    /\ up /\ todo = << >> /\ rx < MaxRx
    /\ rx' = rx + 1
    /\ offset' = offset + 1
    /\ \E kind \in RejectKinds : todo' = RejectPlan(kind, offset + 1)
    /\ UNCHANGED <<up, file, saved, channel, eng, cmd, bounds, history>>

GateAccept ==
    /\ up /\ todo = << >> /\ rx < MaxRx
    /\ rx' = rx + 1
    /\ \E remarks \in RemarkSets :
          /\ offset' = ForwardOffset(remarks, offset + 1)
          /\ todo' = AcceptPlan(remarks, offset + 1)
    /\ UNCHANGED <<up, file, saved, channel, eng, cmd, bounds, history>>

\* save_offset
CtlSave ==
    /\ todo # << >> /\ ~saved
    /\ file' = Head(todo).save
    /\ saved' = TRUE
    /\ UNCHANGED <<up, offset, todo, rx, channel, eng, cmd, bounds, history>>

\* fwd.send_json
CtlSend ==
    /\ todo # << >> /\ saved
    /\ channel' = Append(channel, [kind |-> Head(todo).kind, off |-> Head(todo).off,
                                   rx |-> rx, gen |-> gen])
    /\ sentTop' = IF Head(todo).off > sentTop THEN Head(todo).off ELSE sentTop
    /\ todo' = Tail(todo)
    /\ saved' = FALSE
    /\ UNCHANGED <<up, file, offset, rx, eng, cmd, bounds, log, skipped, lost, straddled>>

LoadOffset == file

\* The process ends: what its socket had not transmitted is gone.
CtlStop ==
    /\ todo' = << >> /\ saved' = FALSE
    /\ \E k \in (IF up THEN 0 ELSE Len(channel))..Len(channel) :
          /\ channel' = SubSeq(channel, 1, k)
          /\ lost' = lost \cup Contents(SubSeq(channel, k + 1, Len(channel)))
    /\ UNCHANGED <<file, rx, eng, sentTop, log, skipped, straddled>>

CtlCrash ==
    /\ up /\ ctlCrashes < MaxCtlCrash
    /\ ctlCrashes' = ctlCrashes + 1
    /\ CtlStop
    /\ up' = FALSE
    /\ UNCHANGED <<offset, cmd, engCrashes, resets, gen>>

\* Somebody starts the container again (docker-compose.yml gives it no restart policy).
CtlBoot ==
    /\ ~up
    /\ up' = TRUE
    /\ offset' = LoadOffset
    /\ UNCHANGED <<file, todo, saved, rx, channel, eng, cmd, bounds, history>>

------------------------------------------------------------------------------
(* Engine, main thread.                                                      *)

\* `if offset <= engine_state["last_offset"]: continue`
MutSeenStrictly(e) == e.off < lastOffset
MutSeenNext(e) == e.off <= lastOffset + 1
AlreadySeen(e) == e.off <= lastOffset

Recv ==
    /\ pc = "recv" /\ channel # << >>
    /\ channel' = Tail(channel)
    /\ UNCHANGED <<ctl, lastOffset, committed, cmd, bounds, sentTop, log, straddled>>

\* validate(): a forwarded message may lack a required field, which the gate does not look
\* at; the controller's own alerts need none.  It is dropped before its offset is read.
DropMalformed ==
    /\ Recv
    /\ Head(channel).kind \notin AlertKinds
    /\ lost' = lost \cup {Head(channel)}
    /\ UNCHANGED <<pc, hand, skipped>>

Skip ==
    /\ Recv
    /\ AlreadySeen(Head(channel))
    /\ skipped' = skipped \cup {[ev |-> Head(channel), committed |-> committed]}
    /\ UNCHANGED <<pc, hand, lost>>

Admit ==
    /\ Recv
    /\ ~AlreadySeen(Head(channel))
    /\ hand' = Head(channel)
    /\ pc' = IF Head(channel).kind \in AlertKinds THEN "alert" ELSE "write"
    /\ UNCHANGED <<skipped, lost>>

MutEmitAlert ==
    /\ pc = "alert"
    /\ UNCHANGED <<ctl, channel, eng, cmd, bounds, history>>

\* emit_from_event: persisted before the offset is, whatever becomes of the event.
EmitAlert ==
    /\ pc = "alert"
    /\ pc' = "write"
    /\ UNCHANGED <<ctl, channel, hand, lastOffset, committed, cmd, bounds, history>>

Straddle == straddled' = (straddled \/ hand.gen < resets)

\* write_event: event, score and offset in one transaction.
WriteEvent ==
    /\ pc = "write"
    /\ log' = Append(log, hand)
    /\ committed' = hand.off
    /\ pc' = "advance"
    /\ Straddle
    /\ UNCHANGED <<ctl, channel, hand, lastOffset, cmd, bounds, sentTop, skipped, lost>>

MutPipelineError ==
    /\ pc = "write"
    /\ channel' = Append(channel, hand)
    /\ pc' = "recv"
    /\ UNCHANGED <<ctl, hand, lastOffset, committed, cmd, bounds, history>>

\* pipeline.process or write_event raises: logged, last_offset stays.
PipelineError ==
    /\ pc = "write"
    /\ lost' = lost \cup {hand}
    /\ pc' = "recv"
    /\ UNCHANGED <<ctl, channel, hand, lastOffset, committed, cmd, bounds, sentTop, log,
                   skipped, straddled>>

\* engine_state["last_offset"] = offset; status and dispatch follow (Enforcement.tla).
Advance ==
    /\ pc = "advance"
    /\ lastOffset' = hand.off
    /\ Straddle
    /\ pc' = "recv"
    /\ UNCHANGED <<ctl, channel, hand, committed, cmd, bounds, sentTop, log, skipped, lost>>

MutResume == committed - 1
Resume == committed

\* The engine dies, its command thread with it: what its socket had received is gone.
EngCrash ==
    /\ pc # "down" /\ engCrashes < MaxEngCrash
    /\ engCrashes' = engCrashes + 1
    /\ pc' = "down"
    /\ cmd' = "idle"
    /\ \E k \in 0..Len(channel) :
          /\ channel' = SubSeq(channel, k + 1, Len(channel))
          /\ lost' = lost \cup Contents(SubSeq(channel, 1, k))
                          \cup (IF pc \in {"alert", "write"} THEN {hand} ELSE {})
    /\ UNCHANGED <<ctl, hand, lastOffset, committed, ctlCrashes, resets, gen, sentTop, log,
                   skipped, straddled>>

\* Somebody starts it again; it resumes from last_committed_offset().
EngBoot ==
    /\ pc = "down"
    /\ pc' = "recv" /\ lastOffset' = Resume
    /\ UNCHANGED <<ctl, channel, hand, committed, cmd, bounds, history>>

------------------------------------------------------------------------------
(* Engine, command thread: the steps of _do_reset that touch offsets.        *)

\* 1. reset_all_tables
ResetTables ==
    /\ cmd = "idle" /\ pc # "down" /\ resets < MaxReset
    /\ committed' = 0
    /\ resets' = resets + 1
    /\ cmd' = "memory"
    /\ UNCHANGED <<ctl, channel, pc, hand, lastOffset, ctlCrashes, engCrashes, gen, history>>

\* 2. engine_state["last_offset"] = 0
ResetMemory ==
    /\ cmd = "memory"
    /\ lastOffset' = 0
    /\ cmd' = "file"
    /\ UNCHANGED <<ctl, channel, pc, hand, committed, bounds, history>>

\* 3. os.remove("/data/controller.offset")
ResetFile ==
    /\ cmd = "file"
    /\ file' = 0
    /\ cmd' = "restart"
    /\ UNCHANGED <<up, offset, todo, saved, rx, channel, eng, bounds, history>>

\* 4. containers.get("controller").restart(): a stop and a start, which may fail in between.
ResetController ==
    /\ cmd = "restart"
    /\ CtlStop
    /\ \/ up' = TRUE /\ offset' = LoadOffset /\ gen' = resets
       \/ up' = FALSE /\ UNCHANGED <<offset, gen>>
    /\ cmd' = "idle"
    /\ UNCHANGED <<ctlCrashes, engCrashes, resets>>

\* Step 3 or 4 raises, or there is no Docker client: logged at most, nothing is undone.
ResetFails ==
    /\ cmd \in {"file", "restart"}
    /\ cmd' = "idle"
    /\ UNCHANGED <<ctl, channel, eng, bounds, history>>

Controller == GateReject \/ GateAccept \/ CtlSave \/ CtlSend
Engine == DropMalformed \/ Skip \/ Admit \/ EmitAlert \/ WriteEvent \/ PipelineError \/ Advance
Reset == ResetTables \/ ResetMemory \/ ResetFile \/ ResetController \/ ResetFails

Next == Controller \/ CtlCrash \/ CtlBoot \/ Engine \/ EngCrash \/ EngBoot \/ Reset

Spec == Init /\ [][Next]_vars

\* Both loops and the command thread keep running: each is a thread that blocks only on an
\* empty socket.  Senders, crashes and the starts after them are not owed anything.
Fairness ==
    /\ WF_vars(CtlSave) /\ WF_vars(CtlSend)
    /\ WF_vars(Engine)
    /\ WF_vars(ResetMemory \/ ResetFile \/ ResetController \/ ResetFails)

FairSpec == Spec /\ Fairness

------------------------------------------------------------------------------
(* Properties.                                                               *)

\* e shares its offset with the flood alert raised by its own message: both are numbered
\* with the same value of `offset` in CHECK 4 (and 5).
FloodCompanion(e) ==
    \E f \in Contents(log) \cup lost \cup Contents(channel) :
        f.kind = "FLOOD_ATTACK" /\ f.rx = e.rx /\ f.off = e.off /\ e.kind # f.kind

\* Whatever crashes, the filter drops nothing but the companions of a flood alert, unless
\* an event overlapped a reset: the controller's save-before-send keeps its numbers above
\* everything the engine committed.
SkipsAreExplained ==
    \A s \in skipped : FloodCompanion(s.ev) \/ straddled

\* Events reach the table in the order of their messages, each once, through crashes,
\* exceptions and resets.
CommittedInOrder ==
    \A i, j \in DOMAIN log : i < j =>
        \/ log[i].rx < log[j].rx
        \/ log[i].rx = log[j].rx /\ log[i].kind # log[j].kind

\* A forwarded message is committed in the end, unless a crash, an exception or validate()
\* took it, the filter dropped it or the engine is down.  An engine started again owes an
\* end to everything still on its way.
SentIsSettled ==
    \A r \in 1..MaxRx :
        (\E e \in Contents(channel) : e.rx = r /\ e.kind = "TELEMETRY")
            ~> \/ pc = "down"
               \/ \E e \in Contents(log) \cup lost \cup {s.ev : s \in skipped} :
                      e.rx = r /\ e.kind = "TELEMETRY"

\* Refinement: without resets the numbering implements the ordered link.
Transit == {e.off : e \in Contents(channel) \cup
                          (IF pc \in {"alert", "write"} THEN {hand} ELSE {})}
Recorded == [i \in DOMAIN log |-> log[i].off]
LastRecorded == IF log = << >> THEN 0 ELSE log[Len(log)].off
Link == INSTANCE OrderedLink
            WITH top <- sentTop, table <- Recorded,
                 inflight <- {o \in Transit : o > LastRecorded}

RefinesLink == Link!Spec

\* README.md:203: the engine skips any event with offset <= its last committed value, and
\* only such events.
SkipsOnlyCommitted == \A s \in skipped : s.ev.off <= s.committed

=============================================================================
