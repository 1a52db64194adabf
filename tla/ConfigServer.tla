----------------------------- MODULE ConfigServer -----------------------------
(***************************************************************************)
(* The configuration versions of every project on the server               *)
(* (services/config_service.py, routes/configs.py), all that writes one:   *)
(* a save, resolving a model or a dataset, accepting a suggestion; and the *)
(* runs that are started on a version.                                     *)
(*                                                                         *)
(* A configuration is a value for each section: "training" stands also for *)
(* execution and preprocessing, "adapters" for optimization, which the     *)
(* same pages write.  Value 2 of "mapping" stands for a field mapping with *)
(* a key in camel case, 1 for one in snake case.                           *)
(***************************************************************************)
EXTENDS Integers, Sequences, FiniteSets, SequencesExt

CONSTANTS
    Projects,
    MaxVersions   \* bound: versions in all

ASSUME ConfigAssumption ==
    /\ IsFiniteSet(Projects) /\ Projects # {}
    /\ MaxVersions \in Nat /\ Cardinality(Projects) < MaxVersions

Sections == {"model", "dataset", "mapping", "training", "adapters",
             "quantization"}
Values == {1, 2}
Contents == [Sections -> Values]
DefaultConfig == [s \in Sections |-> 1]

VARIABLES
    versions,    \* config_versions rows in the order of their creation
    activeOf,    \* a project's active_config_version_id
    dataRows,    \* the dataset whose rows the server holds; 0: none resolved
    sanitized,   \* the dataset whose redacted rows are on disk; 0: none
    launched     \* runs, with the configuration their launch dialog showed

configVars == <<versions, activeOf, dataRows, sanitized, launched>>

VersionIds == DOMAIN versions

\* every project has a version, and one of them an earlier one;
\* source_detail: what a version was restored from; 0: nothing
ConfigInit ==
    LET order == SetToSeq(Projects)
        version(p, content) == [project |-> p, content |-> content, restored |-> 0]
    IN  /\ versions = <<version(order[1], [DefaultConfig EXCEPT !["training"] = 2])>>
                      \o [i \in DOMAIN order |-> version(order[i], DefaultConfig)]
        /\ activeOf = [p \in Projects |->
                         1 + CHOOSE i \in DOMAIN order : order[i] = p]
        /\ dataRows = [p \in Projects |-> 0]
        /\ sanitized = [p \in Projects |-> 0]
        /\ launched = {}

ActiveContent(p) == versions[activeOf[p]].content

\* validate_inline_config and _validate_yaml_or_raise accept every content here;
\* a text that is refused is outcome "failed" of the call

\* a version and the active pointer, in one transaction
CreateVersion(p, content, restored) ==
    /\ Len(versions) < MaxVersions
    /\ versions' = Append(versions, [project |-> p, content |-> content,
                                     restored |-> restored])
    /\ activeOf' = [activeOf EXCEPT ![p] = Len(versions) + 1]

\* PUT /configs
SaveConfig(p, content, restored) ==
    /\ CreateVersion(p, content, restored)
    /\ UNCHANGED <<dataRows, sanitized, launched>>

\* _write_resolved_model_to_config, _write_resolved_dataset_to_config,
\* accept_suggestion: a version with one section of the active one changed
WriteSection(p, s, v) ==
    /\ CreateVersion(p, [ActiveContent(p) EXCEPT ![s] = v], 0)
    /\ dataRows' = IF s = "dataset" THEN [dataRows EXCEPT ![p] = v] ELSE dataRows
    /\ UNCHANGED <<sanitized, launched>>

\* POST /datasets/sanitize: what is on disk is replaced
SanitizeDataset(p) ==
    /\ dataRows[p] # 0
    /\ sanitized' = [sanitized EXCEPT ![p] = dataRows[p]]
    /\ UNCHANGED <<versions, activeOf, dataRows, launched>>

\* POST /runs: the version has to be one of the project
CreateRun(p, version, shown) ==
    /\ versions[version].project = p
    /\ launched' = launched \cup {[project |-> p, version |-> version, shown |-> shown]}
    /\ UNCHANGED <<versions, activeOf, dataRows, sanitized>>

ConfigType ==
    /\ versions \in Seq([project : Projects, content : Contents,
                         restored : 0 .. MaxVersions])
    /\ activeOf \in [Projects -> VersionIds]
    /\ \A p \in Projects : versions[activeOf[p]].project = p
=============================================================================
