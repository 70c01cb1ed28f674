---------------------------- MODULE MCController ----------------------------
(***************************************************************************)
(* A small instance of Controller: a tenant, an infrastructure name exempt *)
(* from the sequence check and a name outside the allowlist.               *)
(***************************************************************************)
EXTENDS Controller

CONSTANTS tenant, infra, rogue, m1, m2, i1, i2, i3, i4, i5, i6

Msg(node, id, seq, ts, mid, hmac) ==
    [node |-> node, id |-> id, seq |-> seq, ts |-> ts, mid |-> mid, hmac |-> hmac]

\* Two tenant messages that share a sequence number (two messengers of one name), one of
\* them from a second machine, and a later one; three infrastructure messages with falling
\* sequence numbers, one from a second machine and one without a machine; a message whose
\* HMAC fails; a message of the unlisted name.  The three with a time above 0 are dated
\* ahead when received earlier, by MaxAge or by more.
MCMessages ==
    { Msg(tenant, i1, 1, 0, m1, TRUE), Msg(tenant, i2, 1, 0, m2, TRUE),
      Msg(tenant, i3, 2, 2, m2, TRUE),
      Msg(infra, i4, 3, 0, m1, TRUE), Msg(infra, i5, 2, 0, m2, TRUE),
      Msg(infra, i6, 1, 1, NoMid, TRUE), Msg(infra, i6, 1, 1, m1, FALSE),
      Msg(rogue, i6, 1, 0, m1, TRUE) }

=============================================================================
