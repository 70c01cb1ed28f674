------------------------------- MODULE MCSignals -------------------------------
(***************************************************************************)
(* A small instance of Signals: two nodes suffice for a correlation, one   *)
(* multi-signal rule is about what the host observer signs in the tenants' *)
(* names, the other about what the security monitor signs in its own;      *)
(* midnight is at 3.                                                       *)
(***************************************************************************)
EXTENDS Signals

Event(n, type, fires) == [node |-> n, type |-> type, fires |-> fires]

\* all rules, the truncated file, one that does not parse and one on which match raises
MCFiles == {{"IMAGE", "DRIFT"}, {}, Broken, Halved}

MCEvents == {Event("node1", "IMAGE_MISMATCH", {"IMAGE"}), Event("node2", "IMAGE_MISMATCH", {"IMAGE"}),
             Event("node1", "RUNTIME_DRIFT", {"IMAGE", "DRIFT"}), Event("node1", "NORMAL", {}),
             Event("security-monitor", "REVERSE_SHELL", {}),
             Event("security-monitor", "NETWORK_THREAT", {})}

MCSignalRules ==
    {[types |-> {"IMAGE_MISMATCH", "RUNTIME_DRIFT"}, window |-> 2, multiplier |-> 20],
     [types |-> {"REVERSE_SHELL", "NETWORK_THREAT"}, window |-> 1, multiplier |-> 25]}

=============================================================================
