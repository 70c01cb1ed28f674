-------------------------- MODULE MCSecurityMonitor --------------------------
(***************************************************************************)
(* A small instance of SecurityMonitor: one tenant, windows of 1 and 2.    *)
(***************************************************************************)
EXTENDS SecurityMonitor

MCTenants == {"node1"}
MCAddresses == [n \in MCTenants |-> "10.10.1.1"]

Policy(type, sev, action) == [type |-> type, sev |-> sev, action |-> action]

\* the lines of fast_path_policy.yaml, in its order, that Lines can reach
MCPolicies ==
    << Policy("POLICY_TAMPER", "CRITICAL", "quarantine"),
       Policy(Any, "CRITICAL", "quarantine"),
       Policy("LATERAL_MOVEMENT", Any, "pause"),
       Policy("Fanout_Excess", Any, "network_isolate"),
       Policy("PRIV_ESC_ATTEMPT", Any, "pause") >>

Line(sensor, type, level, src, dst) ==
    [sensor |-> sensor, type |-> type, level |-> level, src |-> src, dst |-> dst]

\* A Suricata alert with the tenant as destination, a fan-out reported by address, a notice
\* that pauses, a certain Falco rule, for which a policy that comes too late says pause, and
\* a Falco line about another container, which is booked to the monitor.
MCLines ==
    { Line("suricata", "NETWORK_THREAT", 3, "10.9.9.9", "10.10.1.1"),
      Line("zeek", "Fanout_Excess", "", "10.10.1.1", ""),
      Line("zeek", "LATERAL_MOVEMENT", "HIGH", "node1", ""),
      Line("falco", "PRIV_ESC_ATTEMPT", "WARNING", "node1", ""),
      Line("falco", "FALCO_ALERT", "NOTICE", "redis", "") }

=============================================================================
