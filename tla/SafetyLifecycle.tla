-------------------------- MODULE SafetyLifecycle --------------------------
(***************************************************************************)
(* The ISO 26262 work-product lifecycle: the artifact store                *)
(* (AI_Agent-Core_Assistant/artifact_store.py), the review workflow        *)
(* (review_workflow.py) and the tools of the phase plugins, each tool      *)
(* taken as one step.  ReviewRace.tla splits the tools into the reads and  *)
(* writes of their files.                                                  *)
(*                                                                         *)
(* An artifact id is made from its work product id                         *)
(* (id_generation.new_artifact_id), so Wp is a function of the id.  A      *)
(* document's text, author, reviewer, dates and notes are left out.        *)
(***************************************************************************)
EXTENDS Naturals, FiniteSets

CONSTANTS
    Artifacts,   \* artifact ids
    Wp,          \* Wp[a]: the work product of artifact a
    Projects,    \* project slugs
    MaxFiles     \* bound on the metadata files of the store

WorkProducts ==
    {"WP-SAFETYPLAN", "WP-HARA", "WP-FSC", "WP-TSC",
     "WP-HW-SRS", "WP-SW-SRS", "WP-SAFETYMANUAL", "WP-SAFETYCASE"}

ASSUME WpAssumption == Wp \in [Artifacts -> WorkProducts]

ASSUME MaxFilesAssumption == MaxFiles \in Nat

VARIABLE
    files        \* the .json metadata files: <<artifact id, version>> -> metadata

vars == <<files>>

Status == {"DRAFT", "IN_REVIEW", "APPROVED", "SUPERSEDED"}

Version == Nat \ {0}

FileName == Artifacts \X Version

Ref == [file : FileName, status : Status]

Metadata ==
    [project       : Projects,
     status        : Status,
     locked        : BOOLEAN,      \* with approved_at: set by approve, never reset
     upstream_refs : SUBSET Ref,
     supersedes    : Nat,          \* version this one supersedes; 0 is {}
     superseded_by : Nat]          \* 0 while the field is absent

-----------------------------------------------------------------------------
(* artifact_store.py *)

Written(f, m) == [g \in DOMAIN files \union {f} |-> IF g = f THEN m ELSE files[g]]

save_artifact(f, m) == files' = Written(f, m)

update_metadata(f, m) == files' = Written(f, m)

\* Mutant of get_latest_by_id: the max() over versions is forgotten.
AnyVersionById(a) == {f \in DOMAIN files : f[1] = a}

\* get_latest_by_id: over every project, the matching file of highest version
\* (the empty set stands for None).
get_latest_by_id(a) ==
    {f \in DOMAIN files : /\ f[1] = a
                          /\ \A g \in DOMAIN files : g[1] = a => g[2] <= f[2]}

\* Mutant of OfWp: the status filter is dropped.
OfWpAnyStatus(p, wp) ==
    {g \in DOMAIN files : Wp[g[1]] = wp /\ files[g].project = p}

\* get_latest_by_wp with a status: max() over the artifacts of the work
\* product; glob order decides between equal versions, so any of them may win.
OfWp(p, wp) ==
    {g \in DOMAIN files : /\ Wp[g[1]] = wp
                          /\ files[g].project = p
                          /\ files[g].status = "APPROVED"}

get_latest_by_wp(p, wp) == {f \in OfWp(p, wp) : \A g \in OfWp(p, wp) : g[2] <= f[2]}

MissingUpstream(p, requirements) ==
    {wp \in requirements : get_latest_by_wp(p, wp) = {}}

\* resolve_upstream: one approved file for each requirement that has one.
resolve_upstream(p, requirements) ==
    {found \in SUBSET UNION {get_latest_by_wp(p, wp) : wp \in requirements} :
        /\ \A wp \in requirements \ MissingUpstream(p, requirements) :
               \E f \in found : Wp[f[1]] = wp
        /\ \A f, g \in found : Wp[f[1]] = Wp[g[1]] => f = g}

\* Mutant of build_metadata: a revision starts with no upstream references.
RevisionWithoutRefs(p, refs, supersedes) ==
    [project       |-> p,
     status        |-> "DRAFT",
     locked        |-> FALSE,
     upstream_refs |-> IF supersedes = 0 THEN refs ELSE {},
     supersedes    |-> supersedes,
     superseded_by |-> 0]

build_metadata(p, refs, supersedes) ==
    [project       |-> p,
     status        |-> "DRAFT",
     locked        |-> FALSE,
     upstream_refs |-> refs,
     supersedes    |-> supersedes,
     superseded_by |-> 0]

record_status_change(m, status) == [m EXCEPT !.status = status]

(* traceability.py *)

make_upstream_refs(found) == {[file |-> f, status |-> files[f].status] : f \in found}

-----------------------------------------------------------------------------
(* review_workflow.py: none of the functions looks at the status it changes. *)

request_review(a) ==
    \E f \in get_latest_by_id(a) :
        update_metadata(f, record_status_change(files[f], "IN_REVIEW"))

\* Mutant of request_changes: a status the store does not know.
ChangesRequestedStatus(a) ==
    \E f \in get_latest_by_id(a) :
        update_metadata(f, record_status_change(files[f], "CHANGES_REQUESTED"))

request_changes(a) ==
    \E f \in get_latest_by_id(a) :
        update_metadata(f, record_status_change(files[f], "DRAFT"))

\* Mutant of approve: the metadata is not locked.
ApproveWithoutLock(a) ==
    \E f \in get_latest_by_id(a) :
        update_metadata(f, record_status_change(files[f], "APPROVED"))

approve(a) ==
    \E f \in get_latest_by_id(a) :
        update_metadata(f,
            record_status_change([files[f] EXCEPT !.locked = TRUE], "APPROVED"))

\* Mutants of Superseded: superseded_by, or the status change, is forgotten.
SupersededNoLink(m, v) == record_status_change(m, "SUPERSEDED")

SupersededNoStatus(m, v) == [m EXCEPT !.superseded_by = v]

Superseded(m, v) ==
    record_status_change([m EXCEPT !.superseded_by = v], "SUPERSEDED")

\* The new version is saved, then the previous file is rewritten.
revise(a) ==
    \E f \in get_latest_by_id(a) :
        LET previous    == files[f]
            new_version == f[2] + 1
            new_meta    == build_metadata(previous.project, previous.upstream_refs, f[2])
        IN  /\ Cardinality(DOMAIN files) < MaxFiles
            /\ files' = [g \in DOMAIN files \union {<<a, new_version>>} |->
                            IF g = f THEN Superseded(previous, new_version)
                            ELSE IF g = <<a, new_version>> THEN new_meta
                            ELSE files[g]]

ReviewTools(a) ==
    \/ request_review(a)
    \/ request_changes(a)
    \/ approve(a)
    \/ revise(a)

-----------------------------------------------------------------------------
(* The phase plugins.  A review tool takes any artifact id, whatever plugin  *)
(* it belongs to; as all plugins have the same four, each is listed with its *)
(* own work product.                                                         *)

Fresh(a) == \A g \in DOMAIN files : g[1] # a

\* Mutant of KeptUpstream: `upstream = []` is forgotten.
KeepPartialUpstream(found, missing) == found

\* A generate_* tool with upstream requirements.  Without
\* allow_missing_upstream a missing upstream ends the tool; with it the
\* references that were found are dropped too.
KeptUpstream(found, missing) == IF missing = {} THEN found ELSE {}

Generate(a, requirements) ==
    \E p \in Projects, allow_missing_upstream \in BOOLEAN :
        LET missing == MissingUpstream(p, requirements) IN
        \E found \in resolve_upstream(p, requirements) :
            /\ Fresh(a) /\ Cardinality(DOMAIN files) < MaxFiles
            /\ missing = {} \/ allow_missing_upstream
            /\ save_artifact(<<a, 1>>,
                   build_metadata(p, make_upstream_refs(KeptUpstream(found, missing)), 0))

UPSTREAM_FSC    == {"WP-SAFETYPLAN", "WP-HARA"}
UPSTREAM_TSC    == {"WP-FSC"}
UPSTREAM_HW     == {"WP-TSC"}
UPSTREAM_SW     == {"WP-TSC"}
UPSTREAM_MANUAL == {"WP-HW-SRS", "WP-SW-SRS"}
UPSTREAM_CASE   == {"WP-SAFETYPLAN", "WP-FSC", "WP-TSC", "WP-HW-SRS", "WP-SW-SRS",
                    "WP-SAFETYMANUAL"}

generate_safety_plan(a)   == Generate(a, {})
generate_hara_artifact(a) == Generate(a, {})
generate_fsc(a)           == Generate(a, UPSTREAM_FSC)
generate_tsc(a)           == Generate(a, UPSTREAM_TSC)
generate_hw_srs(a)        == Generate(a, UPSTREAM_HW)
generate_sw_srs(a)        == Generate(a, UPSTREAM_SW)
generate_safety_manual(a) == Generate(a, UPSTREAM_MANUAL)
generate_safety_case(a)   == Generate(a, UPSTREAM_CASE)

safety_plan_tools(a)   == generate_safety_plan(a)   \/ ReviewTools(a)
hara_tools(a)          == generate_hara_artifact(a) \/ ReviewTools(a)
fsc_tools(a)           == generate_fsc(a)           \/ ReviewTools(a)
tsc_tools(a)           == generate_tsc(a)           \/ ReviewTools(a)
hw_srs_tools(a)        == generate_hw_srs(a)        \/ ReviewTools(a)
sw_srs_tools(a)        == generate_sw_srs(a)        \/ ReviewTools(a)
safety_manual_tools(a) == generate_safety_manual(a) \/ ReviewTools(a)
safety_case_tools(a)   == generate_safety_case(a)   \/ ReviewTools(a)

Init == files = [f \in {} |-> {}]

Next ==
    \E a \in Artifacts :
        \/ Wp[a] = "WP-SAFETYPLAN"   /\ safety_plan_tools(a)
        \/ Wp[a] = "WP-HARA"         /\ hara_tools(a)
        \/ Wp[a] = "WP-FSC"          /\ fsc_tools(a)
        \/ Wp[a] = "WP-TSC"          /\ tsc_tools(a)
        \/ Wp[a] = "WP-HW-SRS"       /\ hw_srs_tools(a)
        \/ Wp[a] = "WP-SW-SRS"       /\ sw_srs_tools(a)
        \/ Wp[a] = "WP-SAFETYMANUAL" /\ safety_manual_tools(a)
        \/ Wp[a] = "WP-SAFETYCASE"   /\ safety_case_tools(a)

Spec == Init /\ [][Next]_vars

-----------------------------------------------------------------------------
(* Properties *)

\* Every metadata file is a well-formed record of save_artifact's fields.
TypeOK ==
    /\ DOMAIN files \subseteq FileName
    /\ files \in [DOMAIN files -> Metadata]

\* The version history is one unbroken chain: version v of an artifact exists
\* only with version v - 1, each supersedes the one before and is named by it
\* in superseded_by.  Revisions (review_workflow.revise) write the two ends of
\* a link into two different files.
VersionChain ==
    \A f \in DOMAIN files :
        /\ files[f].supersedes = f[2] - 1
        /\ f[2] > 1 => /\ <<f[1], f[2] - 1>> \in DOMAIN files
                       /\ files[<<f[1], f[2] - 1>>].superseded_by = f[2]

\* Exactly the latest version of an artifact is live: what get_latest_by_id
\* returns is never SUPERSEDED, and every older version is.
OneLiveVersion ==
    \A f \in DOMAIN files :
        files[f].status = "SUPERSEDED" <=> f \notin get_latest_by_id(f[1])

\* Every upstream reference names an existing file of the same project which
\* had been approved when it was referenced (locked is never reset), and the
\* recorded snapshot of its status says APPROVED.
TraceSound ==
    \A f \in DOMAIN files : \A r \in files[f].upstream_refs :
        /\ r.status = "APPROVED"
        /\ r.file \in DOMAIN files
        /\ files[r.file].locked
        /\ files[r.file].project = files[f].project

\* The upstream requirement table of the phase plugins.
Requirements(wp) ==
    CASE wp = "WP-FSC"          -> UPSTREAM_FSC
      [] wp = "WP-TSC"          -> UPSTREAM_TSC
      [] wp = "WP-HW-SRS"       -> UPSTREAM_HW
      [] wp = "WP-SW-SRS"       -> UPSTREAM_SW
      [] wp = "WP-SAFETYMANUAL" -> UPSTREAM_MANUAL
      [] wp = "WP-SAFETYCASE"   -> UPSTREAM_CASE
      [] OTHER                  -> {}

\* Traceability is all or nothing: every version of an artifact refers to
\* exactly one file of each work product its plugin requires, or to none at
\* all (allow_missing_upstream), never to some of them.
TraceComplete ==
    \A f \in DOMAIN files :
        LET refs == files[f].upstream_refs IN
        \/ refs = {}
        \/ /\ {Wp[r.file[1]] : r \in refs} = Requirements(Wp[f[1]])
           /\ \A r, q \in refs : Wp[r.file[1]] = Wp[q.file[1]] => r = q

\* No tool touches a superseded version again, and no version loses or changes
\* the project, the references or the approval mark it once had.
HistoryFrozen ==
    [][\A f \in DOMAIN files :
          /\ f \in DOMAIN files'
          /\ files[f].status = "SUPERSEDED" => files'[f] = files[f]
          /\ files'[f].upstream_refs = files[f].upstream_refs
          /\ files'[f].project = files[f].project
          /\ files[f].locked => files'[f].locked]_vars

\* A revision inherits the trace: all versions of an artifact carry the same
\* upstream references and stay in one project, however often an upstream
\* artifact was revised in between (revise never resolves upstream again).
TraceInherited ==
    \A f, g \in DOMAIN files :
        f[1] = g[1] => /\ files[f].upstream_refs = files[g].upstream_refs
                       /\ files[f].project = files[g].project

=============================================================================
