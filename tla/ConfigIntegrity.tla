---------------------------- MODULE ConfigIntegrity ----------------------------
(***************************************************************************)
(* The manifest of config hashes: generate_baseline.py writes it, two      *)
(* programs read it, each with its own idea of the keys.  A file's digest  *)
(* is its content; a content is a set of pairs.                            *)
(***************************************************************************)
EXTENDS Integers, FiniteSets

CONSTANTS Files,     \* INFRA_CONFIG_FILES
          Checked    \* SERVICE_CONFIG_FILES: what the pre-flight check looks at

ASSUME FilesAssumption == Checked \subseteq Files /\ IsFiniteSet(Files)

\* The key of a file may be its path under /opt/security/config, its bare name, or a path
\* relative to the project: str(Path("./risk_engine/config") / name).
Forms == {"path", "bare", "relative"}

Gone == {<<"gone", "gone">>}    \* no such file
Null == {<<"null", "null">>}    \* the file's top key is left without a value
Absent == [file |-> "none"]   \* no manifest file

\* An entry [file, form, digest] of the manifest; no two have the same key.
Entries(m) == IF m = Absent THEN {} ELSE m.entries

\* the digest under the first of the key forms that has one
Found(m, f, order) ==
    LET hits == {i \in DOMAIN order : \E e \in Entries(m) : e.file = f /\ e.form = order[i]}
        first == CHOOSE i \in hits : \A j \in hits : i <= j
        entry == CHOOSE e \in Entries(m) : e.file = f /\ e.form = order[first]
    IN IF hits = {} THEN {} ELSE {entry.digest}

\* InfraConfigGuard._resolve_expected; {} is None
GuardExpected(m, f) == Found(m, f, <<"path", "bare", "relative">>)
MutPreflightExpected(m, f) == Found(m, f, <<"bare">>)
\* _resolve_manifest_key: the name, config_dir / name, and the name again
PreflightExpected(m, f) == Found(m, f, <<"bare", "path">>)

\* generate_baseline.py --config-dir: files it cannot read are skipped; without any it fails.
Seal(content, form) ==
    [file |-> "config_hashes.yaml",
     entries |-> {[file |-> f, form |-> form, digest |-> content[f]] :
                      f \in {g \in Files : content[g] # Gone}}]

\* verify_configs, one file, not strict
FileStatus(m, content, f) ==
    CASE content[f] = Gone -> "MISSING"
      [] content[f] # Gone /\ PreflightExpected(m, f) = {} -> "NO_BASELINE"
      [] content[f] # Gone /\ PreflightExpected(m, f) = {content[f]} -> "OK"
      [] OTHER -> "TAMPERED"

Failed(m, content) ==
    {f \in Checked : FileStatus(m, content, f) \in {"MISSING", "TAMPERED"}}

\* main of check_config_integrity.py, as entrypoint.sh runs it: a missing manifest passes.
ExitCode(m, content) ==
    IF m = Absent THEN 0 ELSE IF Failed(m, content) # {} THEN 2 ELSE 0

=============================================================================
