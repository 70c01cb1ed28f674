--------------------------- MODULE ObservationProofs ---------------------------
(***************************************************************************)
(* Proofs about Observation for every set of tenants, files, images and    *)
(* services and every value of the intervals.                              *)
(***************************************************************************)
EXTENDS Observation, TLAPS, SequenceTheorems, FiniteSetTheorems

Messages == [node : Tenants \cup {Observer}, type : EventTypes]

------------------------------------------------------------------------------
(* Lemmas about the operators.                                               *)

\* An age counts up to its limit.
LEMMA OlderType ==
    ASSUME NEW limit \in Nat, NEW a \in 0 .. limit
    PROVE  /\ Older(a, limit) \in 0 .. limit
           /\ Older(a, limit) <= a + 1
BY DEF Older

\* A message added to messages on their way.
LEMMA OneMore ==
    ASSUME NEW w \in Seq(Messages), NEW m \in Messages
    PROVE  Append(w, m) \in Seq(Messages)
BY AppendProperties

\* What is said of a node's image.
LEMMA VerdictType == \A n \in Tenants : Report(n, VerdictOnImage(n)) \in Messages
<1> SUFFICES ASSUME NEW n \in Tenants PROVE Report(n, VerdictOnImage(n)) \in Messages
  OBVIOUS
<1>1. VerdictOnImage(n) \in {"NORMAL", "UNAPPROVED_IMAGE", "IMAGE_MISMATCH"}
  <2>1. CASE age[n] < Grace
    BY <2>1 DEF VerdictOnImage
  <2>2. CASE ~(age[n] < Grace) /\ age[n] >= Grace /\ ImageOf(n) = {}
    BY <2>2 DEF VerdictOnImage
  <2>3. CASE ~(age[n] < Grace) /\ ~(age[n] >= Grace /\ ImageOf(n) = {})
    BY <2>3 DEF VerdictOnImage
  <2> QED
    BY <2>1, <2>2, <2>3
<1> QED
  BY <1>1 DEF Report, Messages, EventTypes

\* What the guard reports: a message for every changed file.
LEMMA ReportsType ==
    ASSUME NEW S \in SUBSET Files, NEW q \in Orders(S)
    PROVE  [i \in DOMAIN q |-> Report(Observer, InfraThreat(q[i]))] \in Seq(Messages)
<1>1. IsFiniteSet(S) /\ Cardinality(S) \in Nat
  BY FS_Subset, FS_CardinalityType, FilesAssumption
<1>2. DOMAIN q = 1 .. Cardinality(S)
  BY DEF Orders
<1>3. \A f : Report(Observer, InfraThreat(f)) \in Messages
  BY DEF Report, InfraThreat, Messages, EventTypes
<1> QED
  BY <1>1, <1>2, <1>3

------------------------------------------------------------------------------
(* Type correctness.                                                         *)

\* The initial states are well typed.
LEMMA TypeInit == Init => TypeOK
<1> SUFFICES ASSUME Init PROVE TypeOK
  OBVIOUS
<1>1. image \in [Tenants -> Images]
  <2>1. \A n \in Tenants : (CHOOSE i \in Images : <<n, i>> \in Original["images"]) \in Images
    BY ObservationAssumption
  <2> QED
    BY <2>1 DEF Init
<1>2. DOMAIN file = Files
  BY ObservationAssumption DEF Init
<1>3. node \in Tenants
  BY ObservationAssumption DEF Init
<1>4. wire \in Seq([node : Tenants \cup {Observer}, type : EventTypes])
  BY EmptySeq DEF Init
<1>5. age \in [Tenants -> 0..Grace] /\ since \in 0..Interval
        /\ silent \in [Tenants -> -1..Timeout] /\ watched \in [Tenants -> 0..Timeout]
  BY ObservationAssumption DEF Init
<1>6. /\ container \in [Tenants -> {"running", "exited"}] /\ nets \in [Tenants -> Nets]
      /\ svc \in {"stopped", "running", "blocked"}
  BY DEF Init, Nets
<1>7. /\ deploy \in {"idle", "up", "captured", "sealed"}
      /\ pc \in {"sleep", "load", "nodes", "attest", "drift", "guard", "down"}
      /\ todo \subseteq Tenants /\ listed \subseteq Tenants /\ flagged \subseteq Tenants
  BY DEF Init
<1> QED
  BY <1>1, <1>2, <1>3, <1>4, <1>5, <1>6, <1>7 DEF TypeOK

\* The host and the services keep the types.
LEMMA TypeHost ==
    ASSUME TypeOK,
           \/ Tick \/ CaptureBaseline
           \/ \E f \in Files : EditFile(f)
           \/ \E n \in Tenants : RestartNode(n) \/ RecreateNode(n) \/ Disconnect(n)
           \/ StopEngine \/ StartEngine
    PROVE  TypeOK'
<1> USE DEF TypeOK, host, conf, cycle, guard, engine, history, Nets
<1>0. Grace \in Nat /\ Interval \in Nat /\ Timeout \in Nat
  BY ObservationAssumption
<1>1. CASE Tick
  <2>1. age' \in [Tenants -> 0..Grace] /\ since' \in 0..Interval
    BY <1>0, <1>1, OlderType DEF Tick
  <2>2. watched' \in [Tenants -> 0..Timeout]
    <3>1. ASSUME NEW n \in Tenants
          PROVE  (IF Up /\ container[n] = "running" /\ n \in Allowed
                  THEN Older(watched[n], Timeout) ELSE 0) \in 0..Timeout
      BY <1>0, OlderType
    <3> QED
      BY <1>1, <3>1 DEF Tick
  <2>3. ASSUME NEW n \in Tenants
        PROVE  (IF silent[n] = -1 THEN -1 ELSE Older(silent[n], Timeout)) \in -1..Timeout
    BY <1>0 DEF Older
  <2>4. silent' \in [Tenants -> -1..Timeout]
    BY <1>1, <2>3 DEF Tick
  <2> QED
    BY <1>1, <2>1, <2>2, <2>4 DEF Tick
<1>2. CASE CaptureBaseline
  BY <1>2 DEF CaptureBaseline, Change
<1>3. CASE \E f \in Files : EditFile(f)
  BY <1>3 DEF EditFile, Change
<1>4. CASE \E n \in Tenants : RestartNode(n) \/ RecreateNode(n) \/ Disconnect(n)
  <2>1. PICK n \in Tenants : RestartNode(n) \/ RecreateNode(n) \/ Disconnect(n)
    BY <1>4
  <2>2. CASE RestartNode(n)
    BY <1>0, <2>2 DEF RestartNode, Begun, Change
  <2>3. CASE RecreateNode(n)
    BY <1>0, <2>3 DEF RecreateNode, Begun, Change
  <2>4. CASE Disconnect(n)
    BY <2>4 DEF Disconnect, Change
  <2> QED
    BY <2>1, <2>2, <2>3, <2>4
<1>5. CASE StopEngine \/ StartEngine
  <2>1. wire' \in Seq([node : Tenants \cup {Observer}, type : EventTypes])
    BY <1>5, EmptySeq DEF StopEngine, StartEngine
  <2>2. silent' \in [Tenants -> -1..Timeout]
    <3>1. -1 \in -1..Timeout
      BY <1>0
    <3>2. silent' = [n \in Tenants |-> -1] \/ silent' = silent
      BY <1>5 DEF StopEngine, StartEngine
    <3> QED
      BY <3>1, <3>2
  <2> QED
    BY <1>5, <2>1, <2>2 DEF StopEngine, StartEngine, Preflight, Change
<1> QED
  BY <1>1, <1>2, <1>3, <1>4, <1>5

\* The deployment keeps the types.
LEMMA TypeDeployment ==
    ASSUME TypeOK, Deployment
    PROVE  TypeOK'
<1> USE DEF TypeOK, host, conf, cycle, guard, engine, history, Nets
<1>0. Grace \in Nat /\ Interval \in Nat /\ Timeout \in Nat
  BY ObservationAssumption
<1>1. CASE DeployUp
  <2>1. /\ image' \in [Tenants -> Images] /\ container' \in [Tenants -> {"running", "exited"}]
        /\ nets' \in [Tenants -> Nets] /\ age' \in [Tenants -> 0..Grace]
        /\ watched' \in [Tenants -> 0..Timeout] /\ flagged' \subseteq Tenants
        /\ deploy' \in {"idle", "up", "captured", "sealed"}
    BY <1>0, <1>1 DEF DeployUp
  <2>2. /\ pc' \in {"sleep", "load", "nodes", "attest", "drift", "guard", "down"}
        /\ since' \in 0..Interval /\ todo' = todo /\ node' = node
    BY <1>0, <1>1 DEF DeployUp, StartObserver
  <2>3. UNCHANGED <<file, wire, silent, listed>>
    BY <1>1 DEF DeployUp
  <2>4. svc' \in {"stopped", "running", "blocked"}
    BY <1>1 DEF DeployUp, Preflight
  <2> QED
    BY <2>1, <2>2, <2>3, <2>4
<1>2. CASE CaptureImages
  BY <1>2 DEF CaptureImages
<1>3. CASE WriteManifest
  BY <1>3 DEF WriteManifest
<1>4. CASE RestartObserver
  BY <1>0, <1>4 DEF RestartObserver, StartObserver
<1> QED
  BY <1>1, <1>2, <1>3, <1>4 DEF Deployment

\* The observer's cycle, failed or not, keeps the types.
LEMMA TypeCycle ==
    ASSUME TypeOK, Cycle \/ NodeError
    PROVE  TypeOK'
<1> USE DEF TypeOK, host, conf, cycle, guard, engine, history
<1>0. Grace \in Nat /\ Interval \in Nat /\ Timeout \in Nat
  BY ObservationAssumption
<1>1. CASE Load
  <2>1. watched' \in [Tenants -> 0..Timeout]
    BY <1>0, <1>1 DEF Load
  <2>2. todo' \subseteq Tenants
    BY <1>1 DEF Load, Allowed
  <2> QED
    BY <1>1, <2>1, <2>2 DEF Load
<1>2. CASE NextNode
  BY <1>2 DEF NextNode
<1>3. CASE Attest
  <2>1. Report(node, VerdictOnImage(node)) \in Messages
    BY VerdictType
  <2>2. wire' \in Seq(Messages)
    <3>1. wire \in Seq(Messages)
      BY DEF Messages
    <3>2. wire' = wire \/ wire' = Append(wire, Report(node, VerdictOnImage(node)))
      BY <1>3 DEF Attest
    <3> QED
      BY <2>1, <3>1, <3>2, OneMore
  <2> QED
    BY <1>3, <2>2 DEF Attest, Messages
<1>4. CASE DriftAndTelemetry
  <2>1. Report(node, "RUNTIME_DRIFT") \in Messages /\ Report(node, "NORMAL") \in Messages
    BY DEF Report, Messages, EventTypes
  <2>2. wire' \in Seq(Messages)
    <3>1. wire \in Seq(Messages)
      BY DEF Messages
    <3>2. /\ << >> \in Seq(Messages) /\ <<Report(node, "RUNTIME_DRIFT")>> \in Seq(Messages)
          /\ <<Report(node, "NORMAL")>> \in Seq(Messages)
      BY <2>1, EmptySeq
    <3>3. \A s \in Seq(Messages) : wire \o s \o <<Report(node, "NORMAL")>> \in Seq(Messages)
      BY <3>1, <3>2, ConcatProperties
    <3>4. PICK s \in Seq(Messages) : wire' = wire \o s \o <<Report(node, "NORMAL")>>
      BY <1>4, <3>2 DEF DriftAndTelemetry
    <3> QED
      BY <3>3, <3>4
  <2> QED
    BY <1>4, <2>2 DEF DriftAndTelemetry, Messages
<1>5. CASE LookupError \/ NodeError
  BY <1>0, <1>5 DEF LookupError, NodeError, GiveUpNode, Change
<1>6. CASE CheckConfig
  <2>1. wire' \in Seq(Messages) /\ since' \in 0..Interval
    <3>1. CASE since < Interval
      BY <1>6, <3>1 DEF CheckConfig, Messages
    <3>2. CASE ~(since < Interval)
      <4>1. PICK q \in Orders(Changed) :
               wire' = wire \o [i \in DOMAIN q |-> Report(Observer, InfraThreat(q[i]))]
        BY <1>6, <3>2 DEF CheckConfig
      <4>2. Changed \in SUBSET Files
        BY DEF Changed
      <4>3. wire' \in Seq(Messages)
        BY <4>1, <4>2, ReportsType, ConcatProperties DEF Messages
      <4> QED
        BY <1>0, <1>6, <3>2, <4>3 DEF CheckConfig
    <3> QED
      BY <3>1, <3>2
  <2> QED
    BY <1>6, <2>1 DEF CheckConfig, Messages
<1> QED
  BY <1>1, <1>2, <1>3, <1>4, <1>5, <1>6 DEF Cycle

\* The engine keeps the types.
LEMMA TypeEngine ==
    ASSUME TypeOK, React \/ \E n \in Tenants : HeartbeatStop(n)
    PROVE  TypeOK'
<1> USE DEF TypeOK, host, conf, cycle, guard, engine, history
<1>0. Timeout \in Nat
  BY ObservationAssumption
<1>1. CASE React
  <2>1. /\ Head(wire) \in Messages /\ Tail(wire) \in Seq(Messages)
    BY <1>1, HeadTailProperties DEF React, Messages
  <2>2. /\ silent' = Seen(Head(wire)) /\ wire' = Tail(wire)
        /\ listed' = listed \cup ({Head(wire).node} \cap Tenants)
        /\ pc' \in {pc, "down"}
    BY <1>1 DEF React
  <2>3. silent' \in [Tenants -> -1..Timeout]
    BY <1>0, <2>2 DEF Seen
  <2>4. /\ container' \in [Tenants -> {"running", "exited"}]
        /\ nets' \in [Tenants -> Nets]
    BY <1>1 DEF React, Nets
  <2> QED
    BY <1>1, <2>1, <2>2, <2>3, <2>4 DEF React, Messages
<1>2. CASE \E n \in Tenants : HeartbeatStop(n)
  BY <1>2 DEF HeartbeatStop
<1> QED
  BY <1>1, <1>2

\* Every step keeps the types.
LEMMA TypeNext == TypeOK /\ [Next]_vars => TypeOK'
<1> SUFFICES ASSUME TypeOK, [Next]_vars PROVE TypeOK'
  OBVIOUS
<1>1. CASE UNCHANGED vars
  BY <1>1 DEF TypeOK, vars, host, conf, cycle, guard, engine, history
<1>2. CASE Next
  BY <1>2, TypeHost, TypeDeployment, TypeCycle, TypeEngine DEF Next
<1> QED
  BY <1>1, <1>2

\* The observer's cycle, the deployment and the engine keep the types of what they share;
\* no age passes the limit it is compared with (cluster_observer.py, engine.py).
THEOREM ObserverTypeCorrect == Spec => []TypeOK
BY TypeInit, TypeNext, PTL DEF Spec

------------------------------------------------------------------------------
(* The pre-flight check.                                                     *)

\* The manifest names every file once, and all of them in one form.
Sealed ==
    \A e, d \in Entries(manifest) : e.form = d.form /\ (e.file = d.file => e = d)

\* What generate_baseline.py writes is such a manifest (generate_baseline.py 97-157).
LEMMA SealIsSealed ==
    ASSUME NEW content, NEW form
    PROVE  \A e, d \in Entries(Seal(content, form)) :
               e.form = d.form /\ (e.file = d.file => e = d)
<1> DEFINE S == {[file |-> f, form |-> form, digest |-> content[f]] :
                     f \in {g \in Files : content[g] # Gone}}
<1>1. Seal(content, form) # Absent /\ Seal(content, form).entries = S
  BY DEF Seal, Absent
<1>2. Entries(Seal(content, form)) = S
  BY <1>1 DEF Entries
<1>3. ASSUME NEW e \in S, NEW d \in S
      PROVE  e.form = d.form /\ (e.file = d.file => e = d)
  OBVIOUS
<1> QED
  BY <1>2, <1>3

\* A manifest that does not exist has no entries.
LEMMA AbsentIsEmpty == Entries(Absent) = {}
BY DEF Entries

\* The manifest is written by the deployment only.
LEMMA SealedInit == Init => Sealed
<1> SUFFICES ASSUME Init PROVE Sealed
  OBVIOUS
<1>1. CASE manifest = Absent
  BY <1>1, AbsentIsEmpty DEF Sealed
<1>2. CASE \E form \in SealForms : manifest = Seal(Original, form)
  BY <1>2, SealIsSealed DEF Sealed
<1> QED
  BY <1>1, <1>2 DEF Init

\* Every step keeps the manifest sealed.
LEMMA SealedNext == Sealed /\ [Next]_vars => Sealed'
<1> SUFFICES ASSUME Sealed, [Next]_vars PROVE Sealed'
  OBVIOUS
<1>1. CASE WriteManifest
  <2>1. PICK form \in SealForms : manifest' = Seal(file, form)
    BY <1>1 DEF WriteManifest
  <2> QED
    BY <2>1, SealIsSealed DEF Sealed
<1>2. CASE ~WriteManifest
  <2>1. manifest' = manifest
    BY <1>2 DEF Next, vars, conf, Deployment, Cycle, Tick, EditFile, CaptureBaseline, RestartNode,
                RecreateNode, Disconnect, StopEngine, StartEngine, DeployUp, CaptureImages,
                RestartObserver, Load, NextNode, Attest, DriftAndTelemetry, CheckConfig,
                LookupError, NodeError, GiveUpNode, React, HeartbeatStop
  <2> QED
    BY <2>1 DEF Sealed
<1> QED
  BY <1>1, <1>2

\* The digest the check finds is that of an entry for the file under one of the keys it looks
\* up, and it finds one if there is one (check_config_integrity.py:112).
LEMMA CheckFinds ==
    ASSUME NEW m, NEW f
    PROVE  \/ /\ PreflightExpected(m, f) = {}
              /\ \A e \in Entries(m) : e.file = f => e.form \notin {"path", "bare"}
           \/ \E e \in Entries(m) : /\ e.file = f /\ e.form \in {"path", "bare"}
                                   /\ PreflightExpected(m, f) = {e.digest}
<1> DEFINE order == <<"bare", "path">>
           hits == {i \in DOMAIN order :
                      \E d \in Entries(m) : d.file = f /\ d.form = order[i]}
           first == CHOOSE i \in hits : \A j \in hits : i <= j
           entry == CHOOSE d \in Entries(m) : d.file = f /\ d.form = order[first]
<1>1. DOMAIN order = {1, 2} /\ order[1] = "bare" /\ order[2] = "path"
  OBVIOUS
<1>2. PreflightExpected(m, f) = IF hits = {} THEN {} ELSE {entry.digest}
  BY DEF PreflightExpected, Found
<1>3. CASE hits = {}
  BY <1>1, <1>2, <1>3
<1>4. CASE hits # {}
  <2>1. \E i \in hits : \A j \in hits : i <= j
    <3>1. hits \subseteq {1, 2}
      BY <1>1
    <3>2. CASE 1 \in hits
      BY <3>1, <3>2
    <3>3. CASE 1 \notin hits
      BY <1>4, <3>1, <3>3
    <3> QED
      BY <3>2, <3>3
  <2>2. first \in hits
    BY <2>1
  <2>3. entry \in Entries(m) /\ entry.file = f /\ entry.form = order[first]
    BY <2>2
  <2>4. order[first] \in {"path", "bare"}
    BY <1>1, <2>2
  <2> QED
    BY <1>2, <1>4, <2>3, <2>4
<1> QED
  BY <1>3, <1>4

\* The check fails exactly for the files that are gone or differ from what it finds.
LEMMA CheckDecides ==
    ASSUME Sealed
    PROVE  Preflight = "running" <=> ~Unfit
<1>1. ASSUME NEW f \in Checked
      PROVE  FileStatus(manifest, file, f) \in {"MISSING", "TAMPERED"}
                <=> file[f] = Gone \/ Mismatched(f)
  <2>1. CASE file[f] = Gone
    BY <2>1 DEF FileStatus
  <2>2. CASE file[f] # Gone /\ PreflightExpected(manifest, f) = {}
    <3>1. ~Mismatched(f)
      BY <2>2, CheckFinds DEF Mismatched
    <3> QED
      BY <2>2, <3>1 DEF FileStatus
  <2>3. CASE file[f] # Gone /\ PreflightExpected(manifest, f) # {}
    <3>1. PICK e \in Entries(manifest) :
             /\ e.file = f /\ e.form \in {"path", "bare"}
             /\ PreflightExpected(manifest, f) = {e.digest}
      BY <2>3, CheckFinds
    <3>2. \A d \in Entries(manifest) : d.file = f => d = e
      BY <3>1 DEF Sealed
    <3>3. Mismatched(f) <=> e.digest # file[f]
      BY <3>1, <3>2 DEF Mismatched
    <3>4. {e.digest} = {file[f]} <=> e.digest = file[f]
      OBVIOUS
    <3> QED
      BY <2>3, <3>1, <3>3, <3>4 DEF FileStatus
  <2> QED
    BY <2>1, <2>2, <2>3
<1>2. Failed(manifest, file) # {} <=> \E f \in Checked : file[f] = Gone \/ Mismatched(f)
  BY <1>1 DEF Failed
<1> QED
  BY <1>2 DEF Preflight, ExitCode, Unfit

\* However the manifest is sealed, and whatever was edited, deleted or sealed again since: an
\* engine that starts was checked against every digest the check can find, and one that is
\* kept down is kept down for such a file (entrypoint.sh, check_config_integrity.py 134-192).
THEOREM PreflightHolds == Spec => PreflightDecides
<1> DEFINE Decided ==
        svc # svc' => /\ svc' = "running" => ~Unfit
                      /\ svc' = "blocked" => Unfit
<1>1. ASSUME Sealed, [Next]_vars PROVE Decided
  <2> SUFFICES ASSUME svc # svc', svc' \in {"running", "blocked"}
               PROVE  svc' = "running" <=> ~Unfit
    BY DEF Decided
  <2>1. StartEngine \/ DeployUp
    BY <1>1
       DEF Next, vars, Deployment, Cycle, Tick, EditFile, CaptureBaseline, RestartNode,
           RecreateNode, Disconnect, StopEngine, CaptureImages, WriteManifest,
           RestartObserver, Load, NextNode, Attest, DriftAndTelemetry, CheckConfig,
           LookupError, NodeError, GiveUpNode, React, HeartbeatStop
  <2>2. svc' = Preflight
    BY <2>1 DEF StartEngine, DeployUp
  <2> QED
    BY <1>1, <2>2, CheckDecides
<1>2. Sealed /\ [Next]_vars => [Decided]_vars
  BY <1>1
<1>3. PreflightDecides <=> [][Decided]_vars
  BY PTL DEF PreflightDecides
<1> QED
  BY <1>2, <1>3, SealedInit, SealedNext, PTL DEF Spec

------------------------------------------------------------------------------
(* Silence.                                                                  *)

\* An event about n is on its way.
Awaited(w, n) == \E i \in DOMAIN w : w[i].node = n

\* Events added to others on their way.
LEMMA AwaitedGrows ==
    ASSUME NEW w \in Seq(Messages), NEW v \in Seq(Messages), NEW n
    PROVE  Awaited(w, n) \/ Awaited(v, n) => Awaited(w \o v, n)
<1>1. /\ DOMAIN w = 1 .. Len(w) /\ DOMAIN v = 1 .. Len(v) /\ Len(w) \in Nat /\ Len(v) \in Nat
      /\ DOMAIN (w \o v) = 1 .. Len(w) + Len(v)
      /\ \A i \in 1 .. Len(w) + Len(v) :
             (w \o v)[i] = IF i <= Len(w) THEN w[i] ELSE v[i - Len(w)]
  BY LenProperties, ConcatProperties
<1>2. ASSUME NEW i \in DOMAIN w, w[i].node = n PROVE Awaited(w \o v, n)
  BY <1>1, <1>2 DEF Awaited
<1>3. ASSUME NEW i \in DOMAIN v, v[i].node = n PROVE Awaited(w \o v, n)
  <2>1. i + Len(w) \in DOMAIN (w \o v) /\ (w \o v)[i + Len(w)] = v[i]
    BY <1>1
  <2> QED
    BY <1>3, <2>1 DEF Awaited
<1> QED
  BY <1>2, <1>3 DEF Awaited

\* The engine takes the first event.
LEMMA AwaitedShrinks ==
    ASSUME NEW w \in Seq(Messages), w # << >>, NEW n, Awaited(w, n)
    PROVE  Head(w).node = n \/ Awaited(Tail(w), n)
<1>1. PICK i \in DOMAIN w : w[i].node = n
  BY DEF Awaited
<1>2. /\ DOMAIN w = 1 .. Len(w) /\ Len(w) \in Nat /\ Head(w) = w[1]
      /\ Tail(w) \in Seq(Messages) /\ Len(Tail(w)) = Len(w) - 1
      /\ \A j \in 1 .. Len(Tail(w)) : Tail(w)[j] = w[j + 1]
  BY LenProperties, HeadTailProperties
<1>3. DOMAIN Tail(w) = 1 .. Len(w) - 1
  BY <1>2, LenProperties
<1>4. CASE i = 1
  BY <1>1, <1>2, <1>4
<1>5. CASE i # 1
  <2>1. i - 1 \in DOMAIN Tail(w) /\ Tail(w)[i - 1] = w[i]
    BY <1>1, <1>2, <1>3, <1>5
  <2> QED
    BY <1>1, <2>1 DEF Awaited
<1> QED
  BY <1>4, <1>5

\* In this cycle the observer is still to look at n, or n's event is on its way, or it has
\* arrived, or the engine has not heard of n since it was started.
Pending(n) ==
    \/ pc \in {"nodes", "attest", "drift"} /\ n \in todo
    \/ pc \in {"attest", "drift"} /\ node = n
    \/ Awaited(wire, n)
    \/ silent[n] <= 0

\* A running tenant that has been looked at is about to be heard of again; one that has
\* been looked at twice was heard of at most a tick ago; an engine that is down remembers
\* nobody.
HeardOf ==
    \A n \in Tenants :
        /\ svc # "running" => silent[n] = -1
        /\ watched[n] > 0 /\ container[n] = "running" /\ pc \notin {"load", "down"} => Pending(n)
        /\ watched[n] > 1 => silent[n] <= 1

\* Nobody has been looked at in the initial states.
LEMMA HeardInit == Init => HeardOf
BY DEF Init, HeardOf

\* Time passes when every event has arrived.
LEMMA HeardTick == TypeOK /\ HeardOf /\ Tick => HeardOf'
<1> SUFFICES ASSUME TypeOK, HeardOf, Tick, NEW n \in Tenants
             PROVE  /\ svc' # "running" => silent'[n] = -1
                    /\ pc' \in {"load", "down"}
                    /\ watched'[n] > 1 => silent'[n] <= 1
  BY DEF HeardOf
<1>1. pc' \in {"load", "down"} /\ svc' = svc
  BY DEF Tick
<1>3. silent'[n] = IF silent[n] = -1 THEN -1 ELSE Older(silent[n], Timeout)
  BY DEF Tick
<1>4. svc # "running" => silent[n] = -1
  BY DEF HeardOf
<1>2. ASSUME watched'[n] > 1 PROVE silent'[n] <= 1
  <2>1. /\ Up /\ container[n] = "running"
        /\ watched'[n] = Older(watched[n], Timeout)
    BY <1>2 DEF Tick, TypeOK
  <2>2. watched[n] > 0
    BY <1>2, <2>1 DEF Older, TypeOK
  <2>3. CASE wire = << >>
    <3>1. pc = "sleep"
      BY <2>1 DEF Tick, Up
    <3>2. Pending(n)
      BY <2>1, <2>2, <3>1 DEF HeardOf
    <3>3. ~Awaited(wire, n)
      BY <2>3 DEF Awaited
    <3>4. silent[n] \in {-1, 0}
      BY <3>1, <3>2, <3>3 DEF Pending, TypeOK
    <3> QED
      BY <1>3, <3>4, ObservationAssumption DEF Older
  <2>4. CASE wire # << >>
    <3>1. svc # "running"
      BY <2>4 DEF Tick
    <3> QED
      BY <1>3, <1>4, <3>1
  <2> QED
    BY <2>3, <2>4
<1> QED
  BY <1>1, <1>2, <1>3, <1>4

\* Changes on the host reset what was watched.
LEMMA HeardHost ==
    ASSUME TypeOK, HeardOf,
           \/ CaptureBaseline \/ Deployment
           \/ \E f \in Files : EditFile(f)
           \/ \E n \in Tenants : RestartNode(n) \/ RecreateNode(n) \/ Disconnect(n)
           \/ StopEngine \/ StartEngine
    PROVE  HeardOf'
<1> USE DEF host, conf, cycle, guard, engine, history
<1>1. CASE CaptureBaseline \/ CaptureImages \/ WriteManifest \/ \E f \in Files : EditFile(f)
  BY <1>1 DEF HeardOf, Pending, CaptureBaseline, CaptureImages, WriteManifest, EditFile
<1>2. CASE StopEngine
  <2>1. \A n \in Tenants : silent'[n] = -1
    BY <1>2 DEF StopEngine
  <2> QED
    BY <1>2, <2>1 DEF HeardOf, Pending, StopEngine
<1>6. CASE StartEngine
  BY <1>6 DEF HeardOf, Pending, StartEngine
<1>3. CASE \E n \in Tenants : RestartNode(n) \/ RecreateNode(n) \/ Disconnect(n)
  <2>1. PICK m \in Tenants : RestartNode(m) \/ RecreateNode(m) \/ Disconnect(m)
    BY <1>3
  <2>2. /\ \A n \in Tenants :
             \/ watched'[n] = 0
             \/ watched'[n] = watched[n] /\ container'[n] = container[n]
        /\ UNCHANGED <<svc, pc, todo, node, wire, silent>>
    <3>1. ASSUME Begun(m), NEW n \in Tenants
          PROVE  \/ watched'[n] = 0
                 \/ watched'[n] = watched[n] /\ container'[n] = container[n]
      <4>1. DOMAIN watched = Tenants /\ DOMAIN container = Tenants
        BY DEF TypeOK
      <4>2. /\ watched' = [watched EXCEPT ![m] = 0]
            /\ container' = [container EXCEPT ![m] = "running"]
        BY <3>1 DEF Begun
      <4>3. CASE n = m
        BY <4>1, <4>2, <4>3
      <4>4. CASE n # m
        BY <4>1, <4>2, <4>4
      <4> QED
        BY <4>3, <4>4
    <3>2. CASE RestartNode(m) \/ RecreateNode(m)
      <4>1. Begun(m) /\ UNCHANGED <<svc, pc, todo, node, wire, silent>>
        BY <3>2 DEF RestartNode, RecreateNode
      <4> QED
        BY <3>1, <4>1
    <3>3. CASE Disconnect(m)
      BY <3>3 DEF Disconnect
    <3> QED
      BY <2>1, <3>1, <3>2, <3>3
  <2> QED
    BY <2>2 DEF HeardOf, Pending
<1>4. CASE DeployUp
  BY <1>4 DEF DeployUp, HeardOf
<1>5. CASE RestartObserver
  BY <1>5 DEF RestartObserver, StartObserver, HeardOf
<1> QED
  BY <1>1, <1>2, <1>3, <1>4, <1>5, <1>6 DEF Deployment

\* The cycle looks at every node it is to look at.
LEMMA HeardCycle == TypeOK /\ HeardOf /\ (Cycle \/ NodeError) => HeardOf'
<1> SUFFICES ASSUME TypeOK, HeardOf, Cycle \/ NodeError, NEW n \in Tenants
             PROVE  /\ svc' # "running" => silent'[n] = -1
                    /\ watched'[n] > 0 /\ container'[n] = "running" /\ pc' \notin {"load", "down"}
                           => Pending(n)'
                    /\ watched'[n] > 1 => silent'[n] <= 1
  BY DEF HeardOf
<1> USE DEF host, conf, cycle, guard, engine, history
<1>0. /\ wire \in Seq(Messages)
      /\ watched[n] > 0 /\ container[n] = "running" /\ pc \notin {"load", "down"} => Pending(n)
      /\ watched[n] > 1 => silent[n] <= 1
      /\ svc # "running" => silent[n] = -1
  BY DEF HeardOf, TypeOK, Messages
<1>1. CASE Load
  <2>1. CASE file["allow"] = Null
    <3>1. Allowed = {}
      BY <2>1 DEF Allowed, Null, Gone
    <3>2. watched'[n] = 0 /\ UNCHANGED <<svc, silent>>
      BY <1>1, <3>1 DEF Load
    <3> QED
      BY <1>0, <3>2
  <2>2. CASE file["allow"] # Null
    BY <1>0, <1>1, <2>2 DEF Load, Pending, TypeOK
  <2> QED
    BY <2>1, <2>2
<1>2. CASE NextNode
  BY <1>0, <1>2 DEF NextNode, Pending
<1>3. CASE Attest
  <2>1. Awaited(wire, n) => Awaited(wire', n)
    <3>1. Report(node, VerdictOnImage(node)) \in Messages
      BY VerdictType DEF TypeOK
    <3>2. <<Report(node, VerdictOnImage(node))>> \in Seq(Messages)
      BY <3>1
    <3>3. \/ wire' = wire
          \/ wire' = wire \o <<Report(node, VerdictOnImage(node))>>
      BY <1>0, <1>3 DEF Attest
    <3> QED
      BY <1>0, <3>2, <3>3, AwaitedGrows
  <2> QED
    BY <1>0, <1>3, <2>1 DEF Attest, Pending
<1>4. CASE DriftAndTelemetry
  <2> DEFINE telemetry == <<Report(node, "NORMAL")>>
             drift == IF Drifted(node) THEN <<Report(node, "RUNTIME_DRIFT")>> ELSE << >>
  <2>1. drift \in Seq(Messages) /\ telemetry \in Seq(Messages)
    <3>1. Report(node, "RUNTIME_DRIFT") \in Messages /\ Report(node, "NORMAL") \in Messages
      BY DEF Report, Messages, EventTypes, TypeOK
    <3> QED
      BY <3>1, EmptySeq
  <2>2. wire' = (wire \o drift) \o telemetry
    BY <1>4 DEF DriftAndTelemetry
  <2>3. Awaited(telemetry, node)
    BY DEF Awaited, Report
  <2> HIDE DEF drift, telemetry
  <2>4. wire \o drift \in Seq(Messages)
    BY <1>0, <2>1, ConcatProperties
  <2>5. (Awaited(wire, n) \/ n = node) => Awaited(wire', n)
    BY <1>0, <2>1, <2>2, <2>3, <2>4, AwaitedGrows
  <2> QED
    BY <1>0, <1>4, <2>5 DEF DriftAndTelemetry, Pending
<1>5. CASE LookupError \/ NodeError
  BY <1>0, <1>5 DEF LookupError, NodeError, GiveUpNode, Pending, TypeOK
<1>6. CASE CheckConfig
  <2>1. Awaited(wire, n) => Awaited(wire', n)
    <3>1. CASE since < Interval
      BY <1>6, <3>1 DEF CheckConfig
    <3>2. CASE ~(since < Interval)
      <4>1. PICK q \in Orders(Changed) :
               wire' = wire \o [i \in DOMAIN q |-> Report(Observer, InfraThreat(q[i]))]
        BY <1>6, <3>2 DEF CheckConfig
      <4>2. Changed \in SUBSET Files
        BY DEF Changed
      <4> QED
        BY <1>0, <4>1, <4>2, ReportsType, AwaitedGrows
    <3> QED
      BY <3>1, <3>2
  <2>2. /\ UNCHANGED <<svc, container, silent, watched>> /\ pc = "nodes" /\ todo = {}
    BY <1>6 DEF CheckConfig
  <2> QED
    BY <1>0, <2>1, <2>2 DEF Pending
<1> QED
  BY <1>1, <1>2, <1>3, <1>4, <1>5, <1>6 DEF Cycle

\* The engine notes whom it hears of; it starts no container.
LEMMA HeardEngine ==
    ASSUME TypeOK, HeardOf, React \/ \E n \in Tenants : HeartbeatStop(n)
    PROVE  HeardOf'
<1> USE DEF host, conf, cycle, guard, engine, history
<1>1. CASE React
  <2> SUFFICES ASSUME NEW n \in Tenants
               PROVE  /\ svc' # "running" => silent'[n] = -1
                      /\ watched'[n] > 0 /\ container'[n] = "running"
                                /\ pc' \notin {"load", "down"} => Pending(n)'
                      /\ watched'[n] > 1 => silent'[n] <= 1
    BY DEF HeardOf
  <2>1. /\ wire \in Seq(Messages) /\ wire # << >> /\ wire' = Tail(wire)
        /\ UNCHANGED <<svc, todo, node, watched>> /\ pc' \in {pc, "down"} /\ svc = "running"
    BY <1>1 DEF React, TypeOK, Messages
  <2>2. container'[n] = "running" => container[n] = "running"
    BY <1>1 DEF React, TypeOK
  <2>3. silent'[n] = IF Head(wire).node = n THEN 0 ELSE silent[n]
    BY <1>1 DEF React, Seen, TypeOK
  <2>4. Awaited(wire, n) => Head(wire).node = n \/ Awaited(wire', n)
    BY <2>1, AwaitedShrinks
  <2> QED
    BY <2>1, <2>2, <2>3, <2>4 DEF HeardOf, Pending
<1>2. CASE \E n \in Tenants : HeartbeatStop(n)
  BY <1>2 DEF HeartbeatStop, HeardOf, Pending, TypeOK
<1> QED
  BY <1>1, <1>2

\* Every step keeps watched tenants heard of.
LEMMA HeardNext == TypeOK /\ HeardOf /\ [Next]_vars => HeardOf'
<1> SUFFICES ASSUME TypeOK, HeardOf, [Next]_vars PROVE HeardOf'
  OBVIOUS
<1>1. CASE UNCHANGED vars
  BY <1>1 DEF HeardOf, Pending, vars, host, conf, cycle, guard, engine, history
<1>2. CASE Next
  BY <1>2, HeardTick, HeardHost, HeardCycle, HeardEngine DEF Next
<1> QED
  BY <1>1, <1>2

\* Edits, restarts, deployments, tampering and a stopped observer notwithstanding, the
\* heartbeat checker stops no tenant as silent that the observer has looked at for a whole
\* timeout, if the timeout is longer than a cycle (cluster_observer.py 536-686, engine.py
\* 76-106).
THEOREM WatchedNeverSilenced ==
    ASSUME Timeout > 1
    PROVE  Spec => WatchedIsNotSilenced
<1> DEFINE Spared ==
        \A n \in Tenants : n \in listed /\ n \notin listed' => watched[n] < Timeout
<1>1. ASSUME TypeOK, HeardOf, [Next]_vars PROVE Spared
  <2> SUFFICES ASSUME NEW n \in Tenants, n \in listed, n \notin listed'
               PROVE  watched[n] < Timeout
    OBVIOUS
  <2>1. HeartbeatStop(n)
    <3>1. ASSUME NEW m \in Tenants, HeartbeatStop(m) PROVE m = n
      BY <3>1 DEF HeartbeatStop
    <3>2. ASSUME React PROVE FALSE
      BY <3>2 DEF React
    <3>3. listed' # listed
      OBVIOUS
    <3> QED
      BY <1>1, <3>1, <3>2, <3>3
         DEF Next, vars, engine, Deployment, Cycle, Tick, EditFile, CaptureBaseline,
             RestartNode, RecreateNode, Disconnect, StopEngine, StartEngine, DeployUp,
             CaptureImages, WriteManifest, RestartObserver, Load, NextNode, Attest,
             DriftAndTelemetry, CheckConfig, LookupError, NodeError, GiveUpNode
  <2>2. silent[n] = Timeout
    BY <2>1 DEF HeartbeatStop, Silenced
  <2> QED
    BY <1>1, <2>2, ObservationAssumption DEF HeardOf, TypeOK
<1>2. TypeOK /\ HeardOf /\ [Next]_vars => [Spared]_vars
  BY <1>1
<1>3. WatchedIsNotSilenced <=> [][Spared]_vars
  BY PTL DEF WatchedIsNotSilenced
<1> QED
  BY <1>2, <1>3, TypeInit, TypeNext, HeardInit, HeardNext, PTL DEF Spec

=============================================================================
