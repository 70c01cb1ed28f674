---------------------------- MODULE GateEmissions ----------------------------
(***************************************************************************)
(* What the controller sends downstream for one received message, and      *)
(* which offset it numbers each event with (controller.py, main).  Every   *)
(* emission is a save_offset followed by a fwd.send_json; `save` is the    *)
(* number written to the offset file, `off` the `_offset` of the event.    *)
(***************************************************************************)
EXTENDS Naturals, Sequences

\* threat_type of the synthetic alerts of _make_security_alert
AlertKinds == {"TELEMETRY_TAMPER", "ROGUE_NODE", "REPLAY_ATTACK",
               "FLOOD_ATTACK", "NODE_IMPERSONATION"}

\* "TELEMETRY" stands for the validated message itself.
Kinds == AlertKinds \cup {"TELEMETRY"}

\* The checks that end the handling of a message with one alert...
Rejections == {"TELEMETRY_TAMPER", "ROGUE_NODE", "REPLAY_ATTACK"}

\* ... and those that only add an alert before the message is forwarded.
Remarks == SUBSET {"FLOOD_ATTACK", "NODE_IMPERSONATION"}

Emissions == [kind : Kinds, off : Nat, save : Nat]

Emission(kind, off, save) == [kind |-> kind, off |-> off, save |-> save]

\* The offset of the forwarded message: the impersonation branch takes one more number.
ForwardOffset(remarks, o) ==
    IF "NODE_IMPERSONATION" \in remarks THEN o + 1 ELSE o

\* A rejected message numbered o: one alert, nothing forwarded.
RejectPlan(kind, o) == <<Emission(kind, o, o)>>

FloodPlan(remarks, o) ==
    IF "FLOOD_ATTACK" \in remarks THEN <<Emission("FLOOD_ATTACK", o, o)>> ELSE << >>

\* The alert carries o, but `offset += 1` runs before the save.
ImpersonationPlan(remarks, o) ==
    IF "NODE_IMPERSONATION" \in remarks
    THEN <<Emission("NODE_IMPERSONATION", o, o + 1)>> ELSE << >>

\* An accepted message numbered o: the remarks' alerts, then the message.
AcceptPlan(remarks, o) ==
    LET f == ForwardOffset(remarks, o)
    IN  FloodPlan(remarks, o) \o ImpersonationPlan(remarks, o)
            \o <<Emission("TELEMETRY", f, f)>>

=============================================================================
