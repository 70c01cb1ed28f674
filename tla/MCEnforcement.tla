---------------------------- MODULE MCEnforcement ----------------------------
(***************************************************************************)
(* Small instances of Enforcement: buckets at 2 / 5, decay by 1, no decay  *)
(* from 4 on, so that 3 is "high" and still decays, as 70.5 is.            *)
(***************************************************************************)
EXTENDS Enforcement

Event(weight, urgent, remedy, alert) ==
    [weight |-> weight, urgent |-> urgent, busy |-> FALSE, remedy |-> remedy,
     alert |-> alert]

\* into the gap, no alert: freeze
Gap == Event(3, FALSE, "none", "none")
\* high, no alert, no decay: freeze and stay frozen
Breach == Event(4, FALSE, "none", "none")
\* high, and the playbook inserts a rule
Attach == Event(4, FALSE, "block", "none")
\* critical score and CRITICAL alert, sent as a security alert
Fatal == Event(6, TRUE, "none", "own")
\* a CRITICAL alert of little weight, from a busy node
Claim == [Event(1, TRUE, "none", "none") EXCEPT !.busy = TRUE]
\* low score; the playbook stops the container
Drift == Event(1, FALSE, "stop", "none")
\* security-monitor's alert about the node
Foreign == Event(1, FALSE, "block", "foreign")

MCThreats == {Gap, Attach, Fatal, Claim, Drift, Foreign}
Freezing == {Gap}
Recovering == {Breach, Claim, Drift}

=============================================================================
