---------------------------- MODULE MCObservation ----------------------------
(***************************************************************************)
(* A small instance of Observation: a tenant, two images, three files.      *)
(***************************************************************************)
EXTENDS Observation

MCTenants == {"node1"}
MCOriginal == [allow |-> {<<"node1", "allowed">>, <<"host-observer", "allowed">>},
               images |-> {<<"node1", "v1">>}, runtime |-> {<<"node1", "all">>}]

=============================================================================
