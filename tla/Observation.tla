------------------------------ MODULE Observation ------------------------------
(***************************************************************************)
(* The host observer's cycle over tenants and config files, what the       *)
(* engine does with its events, and the deployment that feeds both: images *)
(* and hashes are captured while everything runs.                          *)
(***************************************************************************)
EXTENDS Integers, Sequences, ConfigIntegrity

CONSTANTS Tenants,     \* NODE_LIST; the allowlist's infrastructure names are left out
          Original,    \* [Files -> content] as deployed
          Images, SealForms,
          Grace,       \* the 60 s of check_image_attestation, in ticks
          Interval,    \* INFRA_INTEGRITY_INTERVAL, in ticks
          Timeout,     \* HEARTBEAT_TIMEOUT, in ticks
          MaxChanges,  \* bound on edits, restarts, deployments and failures together
          MaxWire      \* bound on the events that wait for an engine that is down

ASSUME ObservationAssumption ==
    /\ {"allow", "images", "runtime"} \subseteq Files
    /\ {Grace, Interval, Timeout, MaxChanges, MaxWire} \subseteq Nat
    /\ Interval > 0 /\ Timeout > 0
    /\ SealForms \subseteq Forms
    /\ Tenants # {} /\ "host-observer" \notin Tenants
    /\ Original = [f \in Files |-> Original[f]]
    /\ \A n \in Tenants : \E i \in Images : <<n, i>> \in Original["images"]

Nets == {"all", "mgmt"}

VARIABLES
    \* the host
    container, image, nets,
    age,         \* ticks since StartedAt, up to Grace
    file,        \* the config files
    manifest,    \* config_hashes.yaml
    svc,         \* the engine's container
    deploy,      \* build_and_start.sh
    \* host observer
    pc,          \* "down" when its container is stopped
    todo,        \* nodes left in this cycle
    node,        \* the node at hand
    images, runtime,   \* approved_images and runtime_base, as loaded in this cycle; Null is None
    trusted,     \* InfraConfigGuard._manifest
    startup,     \* InfraConfigGuard._startup; {} without an entry
    since,       \* ticks since _last_check, up to Interval
    \* engine
    wire,        \* events on their way
    silent,      \* ticks since node_last_seen, up to Timeout; -1 when there is none
    listed,      \* tenants the heartbeat checker looks at: not quarantined
    \* history
    watched,     \* ticks the node ran, was allowed and was looked at, up to Timeout
    told,        \* [Files -> the content last reported in this life of the observer]
    flagged,     \* tenants reported for their image since they were started
    changes      \* the bound's counter

host == <<container, image, nets, age>>
conf == <<file, manifest>>
cycle == <<pc, todo, node, images, runtime>>
guard == <<trusted, startup, since>>
engine == <<wire, silent, listed>>
history == <<watched, told, flagged>>
vars == <<host, conf, svc, deploy, cycle, guard, engine, history, changes>>

Observer == "host-observer"
EventTypes == {"NORMAL", "UNAPPROVED_IMAGE", "IMAGE_MISMATCH", "RUNTIME_DRIFT",
               "POLICY_TAMPER", "ALLOWLIST_TAMPER"}

\* Every variable has the type its comment says; the ages never pass their limits.
TypeOK ==
    /\ container \in [Tenants -> {"running", "exited"}]
    /\ image \in [Tenants -> Images] /\ nets \in [Tenants -> Nets]
    /\ age \in [Tenants -> 0..Grace]
    /\ DOMAIN file = Files
    /\ svc \in {"stopped", "running", "blocked"}
    /\ deploy \in {"idle", "up", "captured", "sealed"}
    /\ pc \in {"sleep", "load", "nodes", "attest", "drift", "guard", "down"}
    /\ todo \subseteq Tenants /\ node \in Tenants
    /\ since \in 0..Interval
    /\ wire \in Seq([node : Tenants \cup {Observer}, type : EventTypes])
    /\ silent \in [Tenants -> -1..Timeout]
    /\ listed \subseteq Tenants /\ flagged \subseteq Tenants
    /\ watched \in [Tenants -> 0..Timeout]

Snapshot(m) == [f \in Files |-> IF GuardExpected(m, f) = {} /\ file[f] # Gone
                                THEN {file[f]} ELSE {}]

Init ==
    /\ container = [n \in Tenants |-> "running"]
    /\ image = [n \in Tenants |-> CHOOSE i \in Images : <<n, i>> \in Original["images"]]
    /\ nets = [n \in Tenants |-> "all"] /\ age = [n \in Tenants |-> 0]
    /\ file = Original /\ manifest \in {Absent} \cup {Seal(Original, form) : form \in SealForms}
    /\ svc = "running" /\ deploy = "idle"
    /\ pc = "sleep" /\ todo = {} /\ node = (CHOOSE n \in Tenants : TRUE)
    /\ images = {} /\ runtime = {}
    /\ trusted = manifest /\ startup = Snapshot(manifest) /\ since = Interval
    /\ wire = << >> /\ silent = [n \in Tenants |-> -1] /\ listed = Tenants
    /\ watched = [n \in Tenants |-> 0] /\ told = [f \in Files |-> {}] /\ flagged = {}
    /\ changes = 0

------------------------------------------------------------------------------
(* The loaders of the observer: an empty or unreadable file is an empty       *)
(* mapping, an empty or unreadable allowlist the default one.  A key whose    *)
(* value was removed is None, of which no node is a member.                   *)

Mapping(f) == IF file[f] = Gone THEN {} ELSE file[f]
Allowed == CASE file["allow"] \in {Gone, {}} -> Tenants
             [] file["allow"] = Null -> {}
             [] OTHER -> {p[1] : p \in file["allow"]} \cap Tenants

MutInfraThreat(f) == IF f = "allow" THEN "ALLOWLIST_TAMPER" ELSE "CONFIG_DRIFT"
InfraThreat(f) == IF f = "allow" THEN "ALLOWLIST_TAMPER" ELSE "POLICY_TAMPER"
Report(n, type) == [node |-> n, type |-> type]

Up == pc # "down"
Older(a, limit) == IF a < limit THEN a + 1 ELSE a

------------------------------------------------------------------------------
(* The host.                                                                 *)

\* A tick is longer than a cycle of the observer and the way of its events: the cycle's 5 s
\* against timeouts of 30, 60 and 90.  Events wait while the engine is down.
Tick ==
    /\ pc \in {"sleep", "down"}
    /\ wire = << >> \/ (svc # "running" /\ Len(wire) <= MaxWire)
    /\ age' = [n \in Tenants |-> Older(age[n], Grace)]
    /\ since' = Older(since, Interval)
    /\ silent' = [n \in Tenants |-> IF silent[n] = -1 THEN -1 ELSE Older(silent[n], Timeout)]
    /\ watched' = [n \in Tenants |-> IF Up /\ container[n] = "running" /\ n \in Allowed
                                     THEN Older(watched[n], Timeout) ELSE 0]
    /\ pc' = IF Up THEN "load" ELSE "down"
    /\ UNCHANGED <<container, image, nets, conf, svc, deploy, todo, node, images, runtime,
                   trusted, startup, wire, listed, told, flagged, changes>>

Change ==
    /\ changes < MaxChanges
    /\ changes' = changes + 1

\* What an edit leaves of a config file: the original, the original without the tenants' entries,
\* the key alone, an empty file, or no file.
Contents(f) == {Original[f], {p \in Original[f] : p[1] \notin Tenants}, Null, {}, Gone}

EditFile(f) ==
    /\ Change
    /\ \E c \in Contents(f) \ {file[f]} : file' = [file EXCEPT ![f] = c]
    /\ UNCHANGED <<host, manifest, svc, deploy, cycle, guard, engine, history>>

Begun(n) ==
    /\ container' = [container EXCEPT ![n] = "running"]
    /\ age' = [age EXCEPT ![n] = 0]
    /\ flagged' = flagged \ {n}
    /\ watched' = [watched EXCEPT ![n] = 0]

\* docker restart: networks and image stay as they are.
RestartNode(n) ==
    /\ Change /\ Begun(n)
    /\ UNCHANGED <<image, nets, conf, svc, deploy, cycle, guard, engine, told>>

\* docker compose up: a new container, of whatever image now has the tag
RecreateNode(n) ==
    /\ Change /\ Begun(n)
    /\ \E i \in Images : image' = [image EXCEPT ![n] = i]
    /\ nets' = [nets EXCEPT ![n] = "all"]
    /\ UNCHANGED <<conf, svc, deploy, cycle, guard, engine, told>>

\* The fast path's network_isolate, or somebody, takes the node off the data networks.
Disconnect(n) ==
    /\ Change /\ nets[n] = "all"
    /\ nets' = [nets EXCEPT ![n] = "mgmt"]
    /\ UNCHANGED <<container, image, age, conf, svc, deploy, cycle, guard, engine, history>>

\* capture_runtime_baseline.py, run by hand: running nodes only
CaptureBaseline ==
    /\ Change
    /\ LET seen == {n \in Tenants : container[n] = "running"}
       IN seen # {} /\ file' = [file EXCEPT !["runtime"] = {<<n, nets[n]>> : n \in seen}]
    /\ UNCHANGED <<host, manifest, svc, deploy, cycle, guard, engine, history>>

------------------------------------------------------------------------------
(* The engine's container: entrypoint.sh, the controller's as well.          *)

\* The process ends; events wait in the controller, but for those it had taken.
StopEngine ==
    /\ Change /\ svc = "running"
    /\ svc' = "stopped"
    /\ silent' = [n \in Tenants |-> -1] /\ wire' \in {wire, << >>}
    /\ UNCHANGED <<host, conf, deploy, cycle, guard, listed, history>>

Preflight == IF ExitCode(manifest, file) = 0 THEN "running" ELSE "blocked"

StartEngine ==
    /\ svc # "running"
    /\ svc' = Preflight
    /\ UNCHANGED <<host, conf, deploy, cycle, guard, engine, history, changes>>

------------------------------------------------------------------------------
(* Deployment: build_and_start.sh.                                           *)

\* main of the observer, up to its loop
StartObserver ==
    /\ pc' = "load"
    /\ trusted' = manifest /\ startup' = Snapshot(manifest) /\ since' = Interval
    /\ told' = [f \in Files |-> {}]
    /\ UNCHANGED <<todo, node, images, runtime>>

\* docker compose up -d --build: nodes whose image was rebuilt are new containers, what is
\* stopped is started.
DeployUp ==
    /\ deploy = "idle" /\ Change
    /\ \E i \in Images : image' = [n \in Tenants |-> i]
    /\ container' = [n \in Tenants |-> "running"]
    /\ nets' = [n \in Tenants |-> "all"] /\ age' = [n \in Tenants |-> 0]
    /\ flagged' = {} /\ watched' = [n \in Tenants |-> 0]
    /\ deploy' = "up"
    /\ IF Up THEN UNCHANGED <<cycle, guard, told>> ELSE StartObserver
    /\ svc' = IF svc = "running" THEN svc ELSE Preflight
    /\ UNCHANGED <<conf, engine>>

CaptureImages ==
    /\ deploy = "up"
    /\ file' = [file EXCEPT !["images"] = {<<n, image[n]>> : n \in Tenants}]
    /\ deploy' = "captured"
    /\ UNCHANGED <<host, manifest, svc, cycle, guard, engine, history, changes>>

\* generate_baseline.py
WriteManifest ==
    /\ deploy = "captured" /\ \E f \in Files : file[f] # Gone
    /\ \E form \in SealForms : manifest' = Seal(file, form)
    /\ deploy' = "sealed"
    /\ UNCHANGED <<host, file, svc, cycle, guard, engine, history, changes>>

RestartObserver ==
    /\ deploy = "sealed"
    /\ deploy' = "idle"
    /\ StartObserver
    /\ UNCHANGED <<host, conf, svc, engine, watched, flagged, changes>>

Deployment == DeployUp \/ CaptureImages \/ WriteManifest \/ RestartObserver

------------------------------------------------------------------------------
(* Host observer.                                                            *)

\* The three files are read; over an allowlist that is None the loop raises, and the cycle ends
\* without a look at any node or at the config files.
Load ==
    /\ pc = "load"
    /\ todo' = Allowed /\ images' = Mapping("images") /\ runtime' = Mapping("runtime")
    /\ watched' = [n \in Tenants |-> IF n \in Allowed THEN watched[n] ELSE 0]
    /\ pc' = IF file["allow"] = Null THEN "sleep" ELSE "nodes"
    /\ UNCHANGED <<host, conf, svc, deploy, node, guard, engine, told, flagged, changes>>

\* The next node; one that does not run is passed over.
NextNode ==
    /\ pc = "nodes" /\ todo # {}
    /\ \E n \in todo : todo' = todo \ {n} /\ node' = n
    /\ pc' = IF container[node'] = "running" THEN "attest" ELSE "nodes"
    /\ UNCHANGED <<host, conf, svc, deploy, images, runtime, guard, engine, history, changes>>

ImageOf(n) == {p \in images : p[1] = n}

MutVerdictOnImage(n) ==
    CASE age[n] < Grace -> "NORMAL"
      [] ImageOf(n) = {} -> "NORMAL"
      [] OTHER -> IF <<n, image[n]>> \in images THEN "NORMAL" ELSE "IMAGE_MISMATCH"
\* check_image_attestation; "NORMAL" is no event
VerdictOnImage(n) ==
    CASE age[n] < Grace -> "NORMAL"
      [] age[n] >= Grace /\ ImageOf(n) = {} -> "UNAPPROVED_IMAGE"
      [] OTHER -> IF <<n, image[n]>> \in images THEN "NORMAL" ELSE "IMAGE_MISMATCH"

\* A lookup in a mapping that is None; in its grace period a node's image is not looked up.
Raises == \/ pc = "attest" /\ images = Null /\ age[node] >= Grace
          \/ pc = "drift" /\ runtime = Null

Attest ==
    /\ pc = "attest" /\ ~Raises
    /\ IF VerdictOnImage(node) = "NORMAL" THEN UNCHANGED <<wire, flagged>>
       ELSE /\ wire' = Append(wire, Report(node, VerdictOnImage(node)))
            /\ flagged' = flagged \cup {node}
    /\ pc' = "drift"
    /\ UNCHANGED <<host, conf, svc, deploy, todo, node, images, runtime, guard, silent, listed,
                   watched, told, changes>>

MutDrifted(n) == {p \in runtime : p[1] = n} = {<<n, "mgmt">>} /\ nets[n] = "all"
\* check_runtime_drift: a node without a baseline does not drift.
Drifted(n) == {p \in runtime : p[1] = n} # {} /\ <<n, nets[n]>> \notin runtime

\* The drift report, then the telemetry that is always sent.
DriftAndTelemetry ==
    /\ pc = "drift" /\ ~Raises
    /\ wire' = wire \o (IF Drifted(node) THEN <<Report(node, "RUNTIME_DRIFT")>> ELSE << >>)
                    \o <<Report(node, "NORMAL")>>
    /\ pc' = "nodes"
    /\ UNCHANGED <<host, conf, svc, deploy, todo, node, images, runtime, guard, silent, listed,
                   history, changes>>

\* The rest of this node's checks is given up, its telemetry included.
GiveUpNode ==
    /\ pc \in {"attest", "drift"}
    /\ watched' = [watched EXCEPT ![node] = 0]
    /\ pc' = "nodes"
    /\ UNCHANGED <<host, conf, svc, deploy, todo, node, images, runtime, guard, engine, told,
                   flagged>>

LookupError == Raises /\ GiveUpNode /\ UNCHANGED changes
\* Docker raises.
NodeError == ~Raises /\ GiveUpNode /\ Change

MutExpected(f) == startup[f]
\* the manifest, and what was seen at the start for files it does not name
Expected(f) == LET sealed == GuardExpected(trusted, f)
               IN IF sealed # {} THEN sealed ELSE startup[f]

Changed == {f \in Files : file[f] # Gone /\ Expected(f) \notin {{}, {file[f]}}}

\* a file without a digest to compare with is captured; a reported one is remembered
Remembered(f) ==
    IF file[f] # Gone /\ Expected(f) # {file[f]} THEN {file[f]} ELSE startup[f]

\* The order of the files in INFRA_CONFIG_FILES is any.
Orders(S) == {q \in [1..Cardinality(S) -> S] : \A i, j \in DOMAIN q : i # j => q[i] # q[j]}

\* InfraConfigGuard.check at the end of the cycle
CheckConfig ==
    /\ pc = "nodes" /\ todo = {}
    /\ IF since < Interval THEN UNCHANGED <<guard, wire, told>>
       ELSE LET changed == Changed
            IN /\ since' = 0
               /\ \E q \in Orders(changed) :
                     wire' = wire \o [i \in DOMAIN q |-> Report(Observer, InfraThreat(q[i]))]
               /\ startup' = [f \in Files |-> Remembered(f)]
               /\ told' = [f \in Files |-> IF f \in changed THEN {file[f]} ELSE told[f]]
               /\ UNCHANGED trusted
    /\ pc' = "sleep"
    /\ UNCHANGED <<host, conf, svc, deploy, todo, node, images, runtime, silent, listed,
                   watched, flagged, changes>>

Cycle == Load \/ NextNode \/ Attest \/ DriftAndTelemetry \/ LookupError \/ CheckConfig

------------------------------------------------------------------------------
(* Engine: its reaction to an observer's event; what the score adds is in     *)
(* Enforcement.                                                              *)

Critical(type) == type \in {"POLICY_TAMPER", "ALLOWLIST_TAMPER"}

MutSeen(e) == IF e.node \in Tenants /\ e.type # "NORMAL" THEN [silent EXCEPT ![e.node] = 0] ELSE silent
Seen(e) == IF e.node \in Tenants THEN [silent EXCEPT ![e.node] = 0] ELSE silent

\* A RUNTIME_DRIFT's playbook takes the node off the data networks and stops it; a CRITICAL
\* alert quarantines the node the event names, the observer for config files.
React ==
    /\ svc = "running" /\ wire # << >>
    /\ LET e == Head(wire)
           drift == e.type = "RUNTIME_DRIFT"
       IN /\ silent' = Seen(e)
          /\ listed' = listed \cup ({e.node} \cap Tenants)
          /\ container' = IF drift THEN [container EXCEPT ![e.node] = "exited"] ELSE container
          /\ nets' = IF drift THEN [nets EXCEPT ![e.node] = "mgmt"] ELSE nets
          /\ pc' = IF Critical(e.type) THEN "down" ELSE pc
    /\ wire' = Tail(wire)
    /\ UNCHANGED <<image, age, conf, svc, deploy, todo, node, images, runtime, guard, history,
                   changes>>

\* heartbeat_checker: the node's last event is older than the timeout.
Silenced(n) == silent[n] = Timeout

HeartbeatStop(n) ==
    /\ n \in listed /\ Silenced(n)
    /\ container' = [container EXCEPT ![n] = "exited"]
    /\ listed' = listed \ {n}
    /\ UNCHANGED <<image, nets, age, conf, svc, deploy, cycle, guard, wire, silent, history,
                   changes>>

------------------------------------------------------------------------------
Next ==
    \/ Tick
    \/ (\E f \in Files : EditFile(f)) \/ CaptureBaseline
    \/ (\E n \in Tenants : RestartNode(n) \/ RecreateNode(n) \/ Disconnect(n))
    \/ StopEngine \/ StartEngine
    \/ Deployment
    \/ Cycle \/ NodeError
    \/ React \/ (\E n \in Tenants : HeartbeatStop(n))

Spec == Init /\ [][Next]_vars

\* Time passes, and the observer's loop and the engine's loop go on; no change, no step of
\* a deployment, no failure and no start of a stopped container is owed.
Fairness == WF_vars(Tick \/ Cycle \/ React)
FairSpec == Spec /\ Fairness

------------------------------------------------------------------------------
(* Properties.                                                               *)

\* The observer runs, and so does the engine it tells.
Online == Up /\ svc = "running"

\* Again and again every config file that differs from the manifest the observer trusts has
\* been reported as it now is, also one changed before the observer started.  README.md:225 says
\* so without exception; in the code nothing is reported, that change itself included, while
\* 'allowed_nodes:' has no value: the cycle raises before the guard's turn.
Tampered(f) ==
    /\ Online /\ file[f] # Gone /\ file["allow"] # Null
    /\ GuardExpected(trusted, f) # {} /\ GuardExpected(trusted, f) # {file[f]}
TamperIsReported == []<>(\A f \in Files : Tampered(f) => told[f] = {file[f]})

\* A running tenant whose networks differ from the baseline on disk is stopped, however
\* often it was restarted, unless it comes to conform, the observer or the engine is stopped,
\* or the observer is no longer told to look at it.  While 'approved_images:' has no value its
\* checks end before the baseline's.
Drifting(n) ==
    /\ Online /\ container[n] = "running" /\ n \in Allowed /\ file["images"] # Null
    /\ {p \in Mapping("runtime") : p[1] = n} # {} /\ <<n, nets[n]>> \notin Mapping("runtime")
DriftIsContained == \A n \in Tenants : Drifting(n) ~> ~Drifting(n)

\* A tenant that keeps running an image not approved for it is reported after its grace
\* period, also when approved_images.yaml was deleted or is empty.  README.md:219 and :361 say so
\* without exception; 'approved_images:' left without a value is no list to look in, and then
\* the tenant is neither reported nor heard of.
Unapproved(n) ==
    /\ Online /\ container[n] = "running" /\ n \in Allowed /\ file["images"] # Null
    /\ <<n, image[n]>> \notin Mapping("images")
MismatchIsReported == \A n \in Tenants : Unapproved(n) ~> (n \in flagged \/ ~Unapproved(n))

\* A tenant the observer has looked at for a whole timeout is not stopped as silent.
WatchedIsNotSilenced ==
    [][\A n \in Tenants : n \in listed /\ n \notin listed' => watched[n] < Timeout]_vars

\* While there is a manifest, no engine starts with a file the check covers gone, or with another
\* digest than the manifest has under the service's path or the bare name of the file; and it is
\* kept down for no other reason.  The relative keys of build_and_start.sh are not looked up:
\* what they seal is not checked (see PreflightVerifies).
Mismatched(f) == \E e \in Entries(manifest) :
                     e.file = f /\ e.form \in {"path", "bare"} /\ e.digest # file[f]
Unfit == manifest # Absent /\ \E f \in Checked : file[f] = Gone \/ Mismatched(f)
PreflightDecides ==
    [][svc # svc' => /\ svc' = "running" => ~Unfit
                     /\ svc' = "blocked" => Unfit]_vars

\* README.md:669: the pre-flight check verifies rules.yaml and master_config.yaml against
\* config_hashes.yaml: the engine does not start on a file whose digest in it is another
\* one, nor when the file is gone.
PreflightVerifies ==
    [][svc # "running" /\ svc' = "running" =>
          \A e \in Entries(manifest) : e.file \in Checked => e.digest = file[e.file]]_vars

\* fast_path_policy.yaml:55: "Infrastructure config tamper: alert only (cannot quarantine
\* infra)".
InfraIsNotQuarantined == Up

=============================================================================
