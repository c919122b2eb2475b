---------------------- MODULE SafetyLifecycle_proofs ----------------------
(***************************************************************************)
(* Proofs about SafetyLifecycle for any set of artifacts, any projects and *)
(* any bound on files.                                                       *)
(***************************************************************************)
EXTENDS SafetyLifecycle, TLAPS

\* What request_review, request_changes and approve have in common: the status
\* and the approval mark of the latest version change, nothing else does.
StatusStep(a) ==
    \E f \in get_latest_by_id(a), st \in {"DRAFT", "IN_REVIEW", "APPROVED"}, lk \in BOOLEAN :
        /\ files[f].locked => lk
        /\ st = "APPROVED" => lk
        /\ files' = Written(f, [files[f] EXCEPT !.status = st, !.locked = lk])

\* What each kind of step does, in elementary terms.
StatusEffect(a, f) ==
    /\ f \in DOMAIN files /\ f[1] = a
    /\ files' = [g \in DOMAIN files' |-> files'[g]]
    /\ DOMAIN files' = DOMAIN files
    /\ \A g \in DOMAIN files : g # f => files'[g] = files[g]
    /\ files'[f] \in Metadata
    /\ files'[f].status \in {"DRAFT", "IN_REVIEW", "APPROVED"}
    /\ files'[f].status = "APPROVED" => files'[f].locked
    /\ files[f].locked => files'[f].locked
    /\ files'[f].project = files[f].project
    /\ files'[f].upstream_refs = files[f].upstream_refs
    /\ files'[f].supersedes = files[f].supersedes
    /\ files'[f].superseded_by = files[f].superseded_by

ReviseEffect(a, f, n) ==
    /\ f \in DOMAIN files /\ f = <<a, f[2]>> /\ f[2] \in Version
    /\ n = <<a, f[2] + 1>> /\ n \in FileName /\ n \notin DOMAIN files
    /\ files' = [g \in DOMAIN files' |-> files'[g]]
    /\ DOMAIN files' = DOMAIN files \union {n}
    /\ \A g \in DOMAIN files : g # f => files'[g] = files[g]
    /\ files'[f] \in Metadata
    /\ files'[f].status = "SUPERSEDED"
    /\ files'[f].superseded_by = f[2] + 1
    /\ files[f].locked => files'[f].locked
    /\ files'[f].project = files[f].project
    /\ files'[f].upstream_refs = files[f].upstream_refs
    /\ files'[f].supersedes = files[f].supersedes
    /\ files'[n] \in Metadata
    /\ files'[n].status = "DRAFT"
    /\ files'[n].project = files[f].project
    /\ files'[n].upstream_refs = files[f].upstream_refs
    /\ files'[n].supersedes = f[2]

GenerateEffect(a, n, p, kept, reqs) ==
    /\ Fresh(a) /\ n = <<a, 1>> /\ n \in FileName /\ n \notin DOMAIN files
    /\ files' = [g \in DOMAIN files' |-> files'[g]]
    /\ DOMAIN files' = DOMAIN files \union {n}
    /\ \A g \in DOMAIN files : files'[g] = files[g]
    /\ files'[n] \in Metadata
    /\ files'[n].status = "DRAFT"
    /\ files'[n].project = p
    /\ files'[n].upstream_refs = make_upstream_refs(kept)
    /\ files'[n].supersedes = 0
    /\ \A f \in kept : files[f].project = p /\ files[f].status = "APPROVED"
    /\ \A f \in kept : Wp[f[1]] \in reqs
    /\ \A f, g \in kept : Wp[f[1]] = Wp[g[1]] => f = g
    /\ kept = {} \/ \A wp \in reqs : \E f \in kept : Wp[f[1]] = wp

\* An approval always leaves its mark in the file.
ApprovedIsLocked ==
    \A f \in DOMAIN files : files[f].status = "APPROVED" => files[f].locked

IInv ==
    /\ TypeOK
    /\ VersionChain
    /\ OneLiveVersion
    /\ ApprovedIsLocked
    /\ TraceSound
    /\ TraceInherited

\* Every step of Next is a status step, a revision, or a generation with the
\* requirements of the artifact's own work product.
LEMMA NextShape ==
    ASSUME TypeOK, Next
    PROVE  \E a \in Artifacts :
              StatusStep(a) \/ revise(a) \/ Generate(a, Requirements(Wp[a]))
<1>1. ASSUME NEW a \in Artifacts, request_review(a) \/ request_changes(a) \/ approve(a)
      PROVE  StatusStep(a)
  <2>1. CASE request_review(a)
    <3>1. PICK f \in get_latest_by_id(a) :
             files' = Written(f, [files[f] EXCEPT !.status = "IN_REVIEW"])
      BY <2>1 DEF request_review, update_metadata, record_status_change
    <3>2. f \in DOMAIN files /\ files[f] \in Metadata
      BY DEF TypeOK, get_latest_by_id
    <3>3. [files[f] EXCEPT !.status = "IN_REVIEW"]
             = [files[f] EXCEPT !.status = "IN_REVIEW", !.locked = files[f].locked]
      BY <3>2 DEF Metadata
    <3> QED BY <3>1, <3>2, <3>3 DEF StatusStep, Metadata
  <2>2. CASE request_changes(a)
    <3>1. PICK f \in get_latest_by_id(a) :
             files' = Written(f, [files[f] EXCEPT !.status = "DRAFT"])
      BY <2>2 DEF request_changes, update_metadata, record_status_change
    <3>2. f \in DOMAIN files /\ files[f] \in Metadata
      BY DEF TypeOK, get_latest_by_id
    <3>3. [files[f] EXCEPT !.status = "DRAFT"]
             = [files[f] EXCEPT !.status = "DRAFT", !.locked = files[f].locked]
      BY <3>2 DEF Metadata
    <3> QED BY <3>1, <3>2, <3>3 DEF StatusStep, Metadata
  <2>3. CASE approve(a)
    <3>1. PICK f \in get_latest_by_id(a) :
             files' = Written(f, [[files[f] EXCEPT !.locked = TRUE] EXCEPT !.status = "APPROVED"])
      BY <2>3 DEF approve, update_metadata, record_status_change
    <3>2. f \in DOMAIN files /\ files[f] \in Metadata
      BY DEF TypeOK, get_latest_by_id
    <3>3. [[files[f] EXCEPT !.locked = TRUE] EXCEPT !.status = "APPROVED"]
             = [files[f] EXCEPT !.status = "APPROVED", !.locked = TRUE]
      BY <3>2 DEF Metadata
    <3> QED BY <3>1, <3>3 DEF StatusStep
  <2> QED BY <1>1, <2>1, <2>2, <2>3
<1>2. PICK a \in Artifacts :
         \/ Wp[a] = "WP-SAFETYPLAN"   /\ safety_plan_tools(a)
         \/ Wp[a] = "WP-HARA"         /\ hara_tools(a)
         \/ Wp[a] = "WP-FSC"          /\ fsc_tools(a)
         \/ Wp[a] = "WP-TSC"          /\ tsc_tools(a)
         \/ Wp[a] = "WP-HW-SRS"       /\ hw_srs_tools(a)
         \/ Wp[a] = "WP-SW-SRS"       /\ sw_srs_tools(a)
         \/ Wp[a] = "WP-SAFETYMANUAL" /\ safety_manual_tools(a)
         \/ Wp[a] = "WP-SAFETYCASE"   /\ safety_case_tools(a)
  BY DEF Next
<1>3. ReviewTools(a) \/ Generate(a, Requirements(Wp[a]))
  BY <1>2 DEF safety_plan_tools, hara_tools, fsc_tools, tsc_tools, hw_srs_tools,
     sw_srs_tools, safety_manual_tools, safety_case_tools, generate_safety_plan,
     generate_hara_artifact, generate_fsc, generate_tsc, generate_hw_srs,
     generate_sw_srs, generate_safety_manual, generate_safety_case, Requirements
<1> QED BY <1>1, <1>3 DEF ReviewTools

\* References made from existing files are well formed.
LEMMA RefsType ==
    ASSUME TypeOK, NEW kept \in SUBSET DOMAIN files
    PROVE  make_upstream_refs(kept) \in SUBSET Ref
<1>1. \A f \in kept : f \in FileName /\ files[f] \in Metadata
  BY DEF TypeOK
<1>2. \A f \in kept : files[f].status \in Status
  BY <1>1 DEF Metadata
<1> QED BY <1>1, <1>2 DEF make_upstream_refs, Ref

LEMMA StatusStepFacts ==
    ASSUME TypeOK, NEW a \in Artifacts, StatusStep(a)
    PROVE  \E f \in get_latest_by_id(a) : StatusEffect(a, f)
<1>1. PICK f \in get_latest_by_id(a), st \in {"DRAFT", "IN_REVIEW", "APPROVED"}, lk \in BOOLEAN :
         /\ files[f].locked => lk
         /\ st = "APPROVED" => lk
         /\ files' = Written(f, [files[f] EXCEPT !.status = st, !.locked = lk])
  BY DEF StatusStep
<1>2. f \in DOMAIN files /\ f[1] = a /\ files[f] \in Metadata
  BY DEF get_latest_by_id, TypeOK
<1>3. DOMAIN files \union {f} = DOMAIN files
  BY <1>2
<1> DEFINE m == [files[f] EXCEPT !.status = st, !.locked = lk]
<1>4. /\ m \in Metadata
      /\ m.status = st /\ m.locked = lk
      /\ m.project = files[f].project /\ m.upstream_refs = files[f].upstream_refs
      /\ m.supersedes = files[f].supersedes /\ m.superseded_by = files[f].superseded_by
  <2>1. st \in Status
    BY <1>1 DEF Status
  <2> QED BY <2>1, <1>2 DEF Metadata
<1>5. files' = Written(f, m)
  BY <1>1
<1> HIDE DEF m
<1>6. /\ files' = [g \in DOMAIN files' |-> files'[g]]
      /\ DOMAIN files' = DOMAIN files
      /\ files'[f] = m
      /\ \A g \in DOMAIN files : g # f => files'[g] = files[g]
  BY <1>2, <1>3, <1>5 DEF Written
<1>7. StatusEffect(a, f)
  BY <1>1, <1>2, <1>4, <1>6 DEF StatusEffect
<1> QED BY <1>7

LEMMA ReviseFacts ==
    ASSUME TypeOK, NEW a \in Artifacts, revise(a)
    PROVE  \E f \in get_latest_by_id(a) : \E n \in FileName : ReviseEffect(a, f, n)
<1>1. PICK f \in get_latest_by_id(a) :
         files' = [g \in DOMAIN files \union {<<a, f[2] + 1>>} |->
                            IF g = f THEN Superseded(files[f], f[2] + 1)
                            ELSE IF g = <<a, f[2] + 1>>
                                 THEN build_metadata(files[f].project, files[f].upstream_refs, f[2])
                            ELSE files[g]]
  BY DEF revise
<1>2. /\ f \in DOMAIN files /\ f \in FileName /\ f[1] = a /\ files[f] \in Metadata
      /\ \A g \in DOMAIN files : g[1] = a => g[2] <= f[2]
  BY DEF get_latest_by_id, TypeOK
<1>3. f = <<a, f[2]>> /\ f[2] \in Version /\ f[2] + 1 \in Version
  BY <1>2 DEF FileName, Version
<1> DEFINE n == <<a, f[2] + 1>>
<1>4. n \in FileName /\ n[1] = a /\ n[2] = f[2] + 1
  BY <1>3 DEF FileName
<1>5. n \notin DOMAIN files
  BY <1>2, <1>3, <1>4 DEF Version
<1>6. n # f
  BY <1>2, <1>5
<1>7. Superseded(files[f], f[2] + 1)
        = [files[f] EXCEPT !.superseded_by = f[2] + 1, !.status = "SUPERSEDED"]
  BY <1>2 DEF Superseded, record_status_change, Metadata
<1>8. n = <<a, f[2] + 1>>
  OBVIOUS
<1> HIDE DEF n
<1>9. /\ files' = [g \in DOMAIN files' |-> files'[g]]
      /\ DOMAIN files' = DOMAIN files \union {n}
      /\ files'[f] = Superseded(files[f], f[2] + 1)
      /\ files'[n] = build_metadata(files[f].project, files[f].upstream_refs, f[2])
      /\ \A g \in DOMAIN files : g # f => files'[g] = files[g]
  <2>1. files' = [g \in DOMAIN files \union {n} |->
                            IF g = f THEN Superseded(files[f], f[2] + 1)
                            ELSE IF g = n
                                 THEN build_metadata(files[f].project, files[f].upstream_refs, f[2])
                            ELSE files[g]]
    BY <1>1 DEF n
  <2> QED BY <2>1, <1>2, <1>5, <1>6
<1>10. /\ files[f].project \in Projects /\ files[f].upstream_refs \in SUBSET Ref
       /\ f[2] \in Nat /\ f[2] + 1 \in Nat
  BY <1>2, <1>3 DEF Metadata, Version
<1>11. /\ files'[f] \in Metadata
       /\ files'[f].status = "SUPERSEDED"
       /\ files'[f].superseded_by = f[2] + 1
       /\ files[f].locked => files'[f].locked
       /\ files'[f].project = files[f].project
       /\ files'[f].upstream_refs = files[f].upstream_refs
       /\ files'[f].supersedes = files[f].supersedes
  <2> DEFINE m == files[f]
             v == f[2] + 1
             s == files'[f]
  <2>1. m \in Metadata /\ v \in Nat /\ s = [m EXCEPT !.superseded_by = v, !.status = "SUPERSEDED"]
    BY <1>2, <1>7, <1>9, <1>10
  <2>2. /\ s \in Metadata
        /\ s.status = "SUPERSEDED"
        /\ s.superseded_by = v
        /\ m.locked => s.locked
        /\ s.project = m.project
        /\ s.upstream_refs = m.upstream_refs
        /\ s.supersedes = m.supersedes
    <3> HIDE DEF m, v, s
    <3> QED BY <2>1 DEF Metadata, Status
  <2> QED BY <2>2
<1>12. /\ files'[n] \in Metadata
       /\ files'[n].status = "DRAFT"
       /\ files'[n].project = files[f].project
       /\ files'[n].upstream_refs = files[f].upstream_refs
       /\ files'[n].supersedes = f[2]
  BY <1>9, <1>10 DEF build_metadata, Metadata, Status
<1>13. n \in FileName
  BY <1>4
<1> QED BY <1>2, <1>3, <1>4, <1>5, <1>8, <1>9, <1>11, <1>12, <1>13, ZenonT(60) DEF ReviseEffect

LEMMA GenerateFacts ==
    ASSUME TypeOK, NEW a \in Artifacts, NEW reqs, Generate(a, reqs)
    PROVE  \E n \in FileName, p \in Projects, kept \in SUBSET DOMAIN files :
              GenerateEffect(a, n, p, kept, reqs)
<1> DEFINE n == <<a, 1>>
<1>1. PICK p \in Projects : \E found \in resolve_upstream(p, reqs) :
         /\ Fresh(a)
         /\ files' = Written(n, build_metadata(p,
                       make_upstream_refs(KeptUpstream(found, MissingUpstream(p, reqs))), 0))
  BY DEF Generate, save_artifact
<1>2. PICK found \in resolve_upstream(p, reqs) :
         /\ Fresh(a)
         /\ files' = Written(n, build_metadata(p,
                       make_upstream_refs(KeptUpstream(found, MissingUpstream(p, reqs))), 0))
  BY <1>1
<1>3. n \in FileName /\ n[1] = a /\ n = <<a, 1>>
  BY DEF FileName, Version
<1>4. n \notin DOMAIN files
  BY <1>2, <1>3 DEF Fresh
<1>5. \A f \in found :
         /\ f \in DOMAIN files /\ files[f].project = p /\ files[f].status = "APPROVED"
         /\ Wp[f[1]] \in reqs
  <2>1. ASSUME NEW f \in found
        PROVE  \E wp \in reqs : f \in get_latest_by_wp(p, wp)
    BY DEF resolve_upstream
  <2> QED BY <2>1 DEF get_latest_by_wp, OfWp
<1> DEFINE kept == KeptUpstream(found, MissingUpstream(p, reqs))
<1>6. /\ kept \in SUBSET DOMAIN files
      /\ \A f \in kept : files[f].project = p /\ files[f].status = "APPROVED"
      /\ \A f \in kept : Wp[f[1]] \in reqs
      /\ \A f, g \in kept : Wp[f[1]] = Wp[g[1]] => f = g
      /\ kept = {} \/ \A wp \in reqs : \E f \in kept : Wp[f[1]] = wp
  <2>1. \A f, g \in found : Wp[f[1]] = Wp[g[1]] => f = g
    BY DEF resolve_upstream
  <2>2. MissingUpstream(p, reqs) = {} => \A wp \in reqs : \E f \in found : Wp[f[1]] = wp
    BY DEF resolve_upstream
  <2> QED BY <1>5, <2>1, <2>2 DEF KeptUpstream
<1>7. files' = Written(n, build_metadata(p, make_upstream_refs(kept), 0))
  BY <1>2
<1> HIDE DEF n, kept
<1>8. /\ files' = [g \in DOMAIN files' |-> files'[g]]
      /\ DOMAIN files' = DOMAIN files \union {n}
      /\ \A g \in DOMAIN files : files'[g] = files[g]
      /\ files'[n] = build_metadata(p, make_upstream_refs(kept), 0)
  BY <1>4, <1>7 DEF Written
<1>9. /\ files'[n] \in Metadata
      /\ files'[n].status = "DRAFT"
      /\ files'[n].project = p
      /\ files'[n].upstream_refs = make_upstream_refs(kept)
      /\ files'[n].supersedes = 0
  <2>1. make_upstream_refs(kept) \in SUBSET Ref /\ 0 \in Nat
    BY <1>6, RefsType
  <2> QED BY <1>8, <2>1 DEF build_metadata, Metadata, Status
<1>10. Fresh(a)
  BY <1>2
<1>11. GenerateEffect(a, n, p, kept, reqs)
  BY <1>3, <1>4, <1>6, <1>8, <1>9, <1>10, ZenonT(60) DEF GenerateEffect
<1> QED BY <1>3, <1>6, <1>11

\* The three kinds of step, and stuttering.
LEMMA StepCases ==
    ASSUME TypeOK, [Next]_vars
    PROVE  \/ UNCHANGED files
           \/ \E a \in Artifacts : \E f \in get_latest_by_id(a) : StatusEffect(a, f)
           \/ \E a \in Artifacts : \E f \in get_latest_by_id(a) : \E n \in FileName :
                 ReviseEffect(a, f, n)
           \/ \E a \in Artifacts : \E n \in FileName, p \in Projects, kept \in SUBSET DOMAIN files :
                 GenerateEffect(a, n, p, kept, Requirements(Wp[a]))
BY NextShape, StatusStepFacts, ReviseFacts, GenerateFacts, Zenon DEF vars

-----------------------------------------------------------------------------

\* Type correctness is preserved by every step.
LEMMA TypeStep ==
    ASSUME TypeOK, [Next]_vars
    PROVE  TypeOK'
<1>1. CASE UNCHANGED files
  BY <1>1 DEF TypeOK
<1>2. ASSUME NEW a \in Artifacts, NEW f \in get_latest_by_id(a), StatusEffect(a, f)
      PROVE  TypeOK'
  BY <1>2 DEF StatusEffect, TypeOK
<1>3. ASSUME NEW a \in Artifacts, NEW f \in get_latest_by_id(a), NEW n \in FileName,
             ReviseEffect(a, f, n)
      PROVE  TypeOK'
  BY <1>3 DEF ReviseEffect, TypeOK
<1>4. ASSUME NEW a \in Artifacts, NEW n \in FileName, NEW p \in Projects,
             NEW kept \in SUBSET DOMAIN files,
             GenerateEffect(a, n, p, kept, Requirements(Wp[a]))
      PROVE  TypeOK'
  BY <1>4 DEF GenerateEffect, TypeOK
<1> QED BY StepCases, <1>1, <1>2, <1>3, <1>4

\* Invariance of type correctness.
THEOREM TypeCorrect == Spec => []TypeOK
<1>1. Init => TypeOK
  BY DEF Init, TypeOK
<1>2. TypeOK /\ [Next]_vars => TypeOK'
  BY TypeStep
<1> QED BY <1>1, <1>2, PTL DEF Spec

\* Older versions are exactly the superseded ones after every step.
LEMMA LiveStep ==
    ASSUME TypeOK, OneLiveVersion, [Next]_vars
    PROVE  OneLiveVersion'
<1>0. \A f \in DOMAIN files : f = <<f[1], f[2]>> /\ f[1] \in Artifacts /\ f[2] \in Nat
  BY DEF TypeOK, FileName, Version
<1>1. CASE UNCHANGED files
  BY <1>1 DEF OneLiveVersion, get_latest_by_id
<1>2. ASSUME NEW a \in Artifacts, NEW f \in get_latest_by_id(a), StatusEffect(a, f)
      PROVE  OneLiveVersion'
  BY <1>2 DEF StatusEffect, OneLiveVersion, get_latest_by_id
<1>3. ASSUME NEW a \in Artifacts, NEW f \in get_latest_by_id(a), NEW n \in FileName,
             ReviseEffect(a, f, n)
      PROVE  OneLiveVersion'
  <2>1. /\ f \in DOMAIN files /\ f = <<a, f[2]>> /\ f[2] \in Nat /\ files[f] \in Metadata
        /\ f[1] = a /\ n[1] = a /\ n[2] = f[2] + 1 /\ n = <<a, f[2] + 1>>
        /\ \A g \in DOMAIN files : g[1] = a => g[2] <= f[2]
    BY <1>3 DEF ReviseEffect, TypeOK, Version, get_latest_by_id
  <2>3. files'[n].status = "DRAFT" /\ files'[f].status = "SUPERSEDED"
    BY <1>3 DEF ReviseEffect
  <2>4. DOMAIN files' = DOMAIN files \union {n}
    BY <1>3 DEF ReviseEffect
  <2>5. ASSUME NEW g \in DOMAIN files'
        PROVE  files'[g].status = "SUPERSEDED" <=> g \notin get_latest_by_id(g[1])'
    <3>1. CASE g = n
      <4>1. \A h \in DOMAIN files' : h[1] = a => h[2] <= n[2]
        BY <1>0, <2>1, <2>4
      <4>2. n \in get_latest_by_id(a)'
        BY <4>1, <2>1, <2>4 DEF get_latest_by_id
      <4> QED BY <3>1, <4>2, <2>1, <2>3
    <3>2. CASE g = f
      <4>1. n \in DOMAIN files' /\ ~(n[2] <= f[2])
        BY <2>1, <2>4
      <4>2. f \notin get_latest_by_id(a)'
        BY <4>1, <2>1 DEF get_latest_by_id
      <4> QED BY <3>2, <4>2, <2>1, <2>3
    <3>3. CASE g # n /\ g # f /\ g[1] = a
      <4>1. g \in DOMAIN files /\ g = <<a, g[2]>> /\ g[2] \in Nat /\ g[2] <= f[2]
        BY <3>3, <2>1, <2>4, <1>0
      <4>2. g[2] < f[2]
        BY <4>1, <3>3, <2>1
      <4>3. g \notin get_latest_by_id(a) /\ g \notin get_latest_by_id(a)'
        BY <4>1, <4>2, <2>1, <2>4 DEF get_latest_by_id
      <4>4. files'[g] = files[g]
        BY <1>3, <3>3, <4>1 DEF ReviseEffect
      <4> QED BY <3>3, <4>1, <4>3, <4>4 DEF OneLiveVersion
    <3>4. CASE g[1] # a
      <4>1. g \in DOMAIN files /\ files'[g] = files[g]
        BY <1>3, <3>4, <2>1, <2>4 DEF ReviseEffect
      <4>2. g \in get_latest_by_id(g[1])' <=> g \in get_latest_by_id(g[1])
        BY <3>4, <4>1, <2>1, <2>4 DEF get_latest_by_id
      <4> QED BY <4>1, <4>2 DEF OneLiveVersion
    <3> QED BY <3>1, <3>2, <3>3, <3>4
  <2> QED BY <2>5 DEF OneLiveVersion
<1>4. ASSUME NEW a \in Artifacts, NEW n \in FileName, NEW p \in Projects,
             NEW kept \in SUBSET DOMAIN files,
             GenerateEffect(a, n, p, kept, Requirements(Wp[a]))
      PROVE  OneLiveVersion'
  <2>1. /\ n[1] = a /\ n[2] = 1 /\ DOMAIN files' = DOMAIN files \union {n}
        /\ \A g \in DOMAIN files : g[1] # a /\ files'[g] = files[g]
    BY <1>4 DEF GenerateEffect, Fresh
  <2>2. files'[n].status = "DRAFT"
    BY <1>4 DEF GenerateEffect
  <2> QED BY <2>1, <2>2 DEF OneLiveVersion, get_latest_by_id
<1> QED BY StepCases, <1>1, <1>2, <1>3, <1>4

\* The chain of versions stays unbroken after every step.
LEMMA ChainStep ==
    ASSUME TypeOK, VersionChain, [Next]_vars
    PROVE  VersionChain'
<1>0. \A f \in DOMAIN files : f = <<f[1], f[2]>> /\ f[1] \in Artifacts /\ f[2] \in Nat /\ f[2] > 0
  BY DEF TypeOK, FileName, Version
<1>1. CASE UNCHANGED files
  BY <1>1 DEF VersionChain
<1>2. ASSUME NEW a \in Artifacts, NEW f \in get_latest_by_id(a), StatusEffect(a, f)
      PROVE  VersionChain'
  <2>1. /\ DOMAIN files' = DOMAIN files
        /\ \A g \in DOMAIN files : /\ files'[g].supersedes = files[g].supersedes
                                   /\ files'[g].superseded_by = files[g].superseded_by
    BY <1>2 DEF StatusEffect
  <2> QED BY <2>1 DEF VersionChain
<1>3. ASSUME NEW a \in Artifacts, NEW f \in get_latest_by_id(a), NEW n \in FileName,
             ReviseEffect(a, f, n)
      PROVE  VersionChain'
  <2>1. /\ f \in DOMAIN files /\ f = <<a, f[2]>> /\ f[2] \in Nat /\ files[f] \in Metadata
        /\ n[1] = a /\ n[2] = f[2] + 1 /\ f[2] > 0
        /\ \A g \in DOMAIN files : g[1] = a => g[2] <= f[2]
        /\ DOMAIN files' = DOMAIN files \union {n}
    BY <1>3 DEF ReviseEffect, TypeOK, Version, get_latest_by_id
  <2>3. /\ files'[n].supersedes = f[2]
        /\ files'[f].supersedes = files[f].supersedes
        /\ files'[f].superseded_by = f[2] + 1
    BY <1>3 DEF ReviseEffect
  <2>4. ASSUME NEW g \in DOMAIN files'
        PROVE  /\ files'[g].supersedes = g[2] - 1
               /\ g[2] > 1 => /\ <<g[1], g[2] - 1>> \in DOMAIN files'
                              /\ files'[<<g[1], g[2] - 1>>].superseded_by = g[2]
    <3>1. CASE g = n
      BY <3>1, <2>1, <2>3
    <3>2. CASE g # n
      <4>1. /\ g \in DOMAIN files /\ files[g].supersedes = g[2] - 1
            /\ files'[g].supersedes = files[g].supersedes
        BY <1>3, <3>2, <2>1, <2>3 DEF ReviseEffect, VersionChain
      <4>2. ASSUME g[2] > 1
            PROVE  /\ <<g[1], g[2] - 1>> \in DOMAIN files'
                   /\ files'[<<g[1], g[2] - 1>>].superseded_by = g[2]
        <5>1. /\ <<g[1], g[2] - 1>> \in DOMAIN files
              /\ files[<<g[1], g[2] - 1>>].superseded_by = g[2]
          BY <4>1, <4>2 DEF VersionChain
        <5>2. <<g[1], g[2] - 1>> # f
          BY <4>1, <2>1, <1>0
        <5> QED BY <1>3, <2>1, <5>1, <5>2 DEF ReviseEffect
      <4> QED BY <4>1, <4>2
    <3> QED BY <3>1, <3>2
  <2> QED BY <2>4 DEF VersionChain
<1>4. ASSUME NEW a \in Artifacts, NEW n \in FileName, NEW p \in Projects,
             NEW kept \in SUBSET DOMAIN files,
             GenerateEffect(a, n, p, kept, Requirements(Wp[a]))
      PROVE  VersionChain'
  <2>1. /\ n[1] = a /\ n[2] = 1 /\ DOMAIN files' = DOMAIN files \union {n}
        /\ \A g \in DOMAIN files : g[1] # a /\ files'[g] = files[g]
    BY <1>4 DEF GenerateEffect, Fresh
  <2>2. files'[n].supersedes = 0
    BY <1>4 DEF GenerateEffect
  <2>3. ASSUME NEW g \in DOMAIN files'
        PROVE  /\ files'[g].supersedes = g[2] - 1
               /\ g[2] > 1 => /\ <<g[1], g[2] - 1>> \in DOMAIN files'
                              /\ files'[<<g[1], g[2] - 1>>].superseded_by = g[2]
    <3>1. CASE g = n
      BY <3>1, <2>1, <2>2
    <3>2. CASE g # n
      BY <3>2, <2>1 DEF VersionChain
    <3> QED BY <3>1, <3>2
  <2> QED BY <2>3 DEF VersionChain
<1> QED BY StepCases, <1>1, <1>2, <1>3, <1>4
\* References keep naming files of the same project that were approved.
LEMMA TraceStep ==
    ASSUME TypeOK, ApprovedIsLocked, TraceSound, [Next]_vars
    PROVE  ApprovedIsLocked' /\ TraceSound'
<1>1. CASE UNCHANGED files
  BY <1>1 DEF ApprovedIsLocked, TraceSound
<1>2. ASSUME NEW a \in Artifacts, NEW f \in get_latest_by_id(a), StatusEffect(a, f)
      PROVE  ApprovedIsLocked' /\ TraceSound'
  <2>1. /\ DOMAIN files' = DOMAIN files
        /\ \A g \in DOMAIN files : /\ files'[g].upstream_refs = files[g].upstream_refs
                                   /\ files'[g].project = files[g].project
                                   /\ files[g].locked => files'[g].locked
    BY <1>2 DEF StatusEffect
  <2>2. ApprovedIsLocked'
    BY <1>2 DEF StatusEffect, ApprovedIsLocked
  <2>3. TraceSound'
    BY <2>1 DEF TraceSound
  <2> QED BY <2>2, <2>3
<1>3. ASSUME NEW a \in Artifacts, NEW f \in get_latest_by_id(a), NEW n \in FileName,
             ReviseEffect(a, f, n)
      PROVE  ApprovedIsLocked' /\ TraceSound'
  <2>1. /\ DOMAIN files' = DOMAIN files \union {n}
        /\ f \in DOMAIN files
        /\ files'[n].upstream_refs = files[f].upstream_refs
        /\ files'[n].project = files[f].project
        /\ files'[n].status = "DRAFT" /\ files'[f].status = "SUPERSEDED"
        /\ \A g \in DOMAIN files : /\ files'[g].upstream_refs = files[g].upstream_refs
                                   /\ files'[g].project = files[g].project
                                   /\ files[g].locked => files'[g].locked
                                   /\ g # f => files'[g] = files[g]
    BY <1>3 DEF ReviseEffect
  <2>2. ApprovedIsLocked'
    BY <2>1 DEF ApprovedIsLocked
  <2>3. TraceSound'
    BY <2>1 DEF TraceSound
  <2> QED BY <2>2, <2>3
<1>4. ASSUME NEW a \in Artifacts, NEW n \in FileName, NEW p \in Projects,
             NEW kept \in SUBSET DOMAIN files,
             GenerateEffect(a, n, p, kept, Requirements(Wp[a]))
      PROVE  ApprovedIsLocked' /\ TraceSound'
  <2>1. /\ DOMAIN files' = DOMAIN files \union {n} /\ n \notin DOMAIN files
        /\ \A g \in DOMAIN files : files'[g] = files[g]
        /\ files'[n].status = "DRAFT" /\ files'[n].project = p
        /\ files'[n].upstream_refs = make_upstream_refs(kept)
        /\ \A f \in kept : files[f].project = p /\ files[f].status = "APPROVED"
    BY <1>4 DEF GenerateEffect
  <2>2. ApprovedIsLocked'
    BY <2>1 DEF ApprovedIsLocked
  <2>3. ASSUME NEW r \in files'[n].upstream_refs
        PROVE  /\ r.status = "APPROVED" /\ r.file \in DOMAIN files'
               /\ files'[r.file].locked /\ files'[r.file].project = files'[n].project
    <3>1. PICK f \in kept : r = [file |-> f, status |-> files[f].status]
      BY <2>1, <2>3 DEF make_upstream_refs
    <3>2. r.file = f /\ r.status = "APPROVED" /\ f \in DOMAIN files
      BY <3>1, <2>1
    <3>3. files[f].locked
      BY <3>2, <2>1 DEF ApprovedIsLocked
    <3> QED BY <2>1, <3>2, <3>3
  <2>4. ASSUME NEW g \in DOMAIN files, NEW r \in files'[g].upstream_refs
        PROVE  /\ r.status = "APPROVED" /\ r.file \in DOMAIN files'
               /\ files'[r.file].locked /\ files'[r.file].project = files'[g].project
    BY <2>1, <2>4 DEF TraceSound
  <2>5. TraceSound'
    BY <2>1, <2>3, <2>4 DEF TraceSound
  <2> QED BY <2>2, <2>5
<1> QED BY StepCases, <1>1, <1>2, <1>3, <1>4

\* All versions of an artifact keep one project and one set of references.
LEMMA InheritStep ==
    ASSUME TypeOK, TraceInherited, [Next]_vars
    PROVE  TraceInherited'
<1>1. CASE UNCHANGED files
  BY <1>1 DEF TraceInherited
<1>2. ASSUME NEW a \in Artifacts, NEW f \in get_latest_by_id(a), StatusEffect(a, f)
      PROVE  TraceInherited'
  <2>1. /\ DOMAIN files' = DOMAIN files
        /\ \A g \in DOMAIN files : /\ files'[g].upstream_refs = files[g].upstream_refs
                                   /\ files'[g].project = files[g].project
    BY <1>2 DEF StatusEffect
  <2> QED BY <2>1 DEF TraceInherited
<1>3. ASSUME NEW a \in Artifacts, NEW f \in get_latest_by_id(a), NEW n \in FileName,
             ReviseEffect(a, f, n)
      PROVE  TraceInherited'
  <2>1. /\ DOMAIN files' = DOMAIN files \union {n}
        /\ f \in DOMAIN files /\ f[1] = a /\ n[1] = a
        /\ files'[n].upstream_refs = files[f].upstream_refs
        /\ files'[n].project = files[f].project
        /\ \A g \in DOMAIN files : /\ files'[g].upstream_refs = files[g].upstream_refs
                                   /\ files'[g].project = files[g].project
    BY <1>3 DEF ReviseEffect
  <2> QED BY <2>1 DEF TraceInherited
<1>4. ASSUME NEW a \in Artifacts, NEW n \in FileName, NEW p \in Projects,
             NEW kept \in SUBSET DOMAIN files,
             GenerateEffect(a, n, p, kept, Requirements(Wp[a]))
      PROVE  TraceInherited'
  <2>1. /\ DOMAIN files' = DOMAIN files \union {n} /\ n[1] = a
        /\ \A g \in DOMAIN files : g[1] # a /\ files'[g] = files[g]
    BY <1>4 DEF GenerateEffect, Fresh
  <2> QED BY <2>1 DEF TraceInherited
<1> QED BY StepCases, <1>1, <1>2, <1>3, <1>4

\* The inductive invariant.
THEOREM InductiveInvariant == Spec => []IInv
<1>1. Init => IInv
  <2>1. ASSUME Init PROVE DOMAIN files = {} /\ TypeOK
    BY <2>1 DEF Init, TypeOK
  <2> QED BY <2>1 DEF IInv, VersionChain, OneLiveVersion, ApprovedIsLocked, TraceSound,
             TraceInherited
<1>2. IInv /\ [Next]_vars => IInv'
  BY TypeStep, ChainStep, LiveStep, TraceStep, InheritStep, Zenon DEF IInv
<1> QED BY <1>1, <1>2, PTL DEF Spec

\* The version history of every artifact is one unbroken chain.
THEOREM VersionChainHolds == Spec => []VersionChain
BY InductiveInvariant, PTL DEF IInv

\* Exactly the latest version of every artifact is live.
THEOREM OneLiveVersionHolds == Spec => []OneLiveVersion
BY InductiveInvariant, PTL DEF IInv

\* Upstream references name files of the same project that had been approved.
THEOREM TraceSoundHolds == Spec => []TraceSound
BY InductiveInvariant, PTL DEF IInv

\* All versions of an artifact carry the same references.
THEOREM TraceInheritedHolds == Spec => []TraceInherited
BY InductiveInvariant, PTL DEF IInv

\* Superseded versions are frozen; references, projects and approval marks last.
THEOREM HistoryFrozenHolds == Spec => HistoryFrozen
<1> DEFINE Frozen == \A f \in DOMAIN files :
                        /\ f \in DOMAIN files'
                        /\ files[f].status = "SUPERSEDED" => files'[f] = files[f]
                        /\ files'[f].upstream_refs = files[f].upstream_refs
                        /\ files'[f].project = files[f].project
                        /\ files[f].locked => files'[f].locked
<1>1. TypeOK /\ OneLiveVersion /\ [Next]_vars => [Frozen]_vars
  <2> SUFFICES ASSUME TypeOK, OneLiveVersion, [Next]_vars PROVE Frozen
    OBVIOUS
  <2>1. CASE UNCHANGED files
    BY <2>1
  <2>2. ASSUME NEW a \in Artifacts, NEW f \in get_latest_by_id(a), StatusEffect(a, f)
        PROVE  Frozen
    <3>1. f \in DOMAIN files /\ files[f].status # "SUPERSEDED"
      BY DEF get_latest_by_id, OneLiveVersion
    <3> QED BY <2>2, <3>1 DEF StatusEffect
  <2>3. ASSUME NEW a \in Artifacts, NEW f \in get_latest_by_id(a), NEW n \in FileName,
               ReviseEffect(a, f, n)
        PROVE  Frozen
    <3>1. f \in DOMAIN files /\ files[f].status # "SUPERSEDED"
      BY DEF get_latest_by_id, OneLiveVersion
    <3> QED BY <2>3, <3>1 DEF ReviseEffect
  <2>4. ASSUME NEW a \in Artifacts, NEW n \in FileName, NEW p \in Projects,
               NEW kept \in SUBSET DOMAIN files,
               GenerateEffect(a, n, p, kept, Requirements(Wp[a]))
        PROVE  Frozen
    BY <2>4 DEF GenerateEffect
  <2> HIDE DEF Frozen
  <2> QED BY StepCases, <2>1, <2>2, <2>3, <2>4
<1> QED BY <1>1, TypeCorrect, OneLiveVersionHolds, PTL DEF Spec, HistoryFrozen
\* The references that a generation records are all or nothing.
LEMMA KeptRefs ==
    ASSUME NEW kept, NEW reqs,
           \A f \in kept : Wp[f[1]] \in reqs,
           \A f, g \in kept : Wp[f[1]] = Wp[g[1]] => f = g,
           kept = {} \/ \A wp \in reqs : \E f \in kept : Wp[f[1]] = wp,
           make_upstream_refs(kept) # {}
    PROVE  LET refs == make_upstream_refs(kept) IN
           /\ {Wp[r.file[1]] : r \in refs} = reqs
           /\ \A r, q \in refs : Wp[r.file[1]] = Wp[q.file[1]] => r = q
<1> DEFINE refs == make_upstream_refs(kept)
<1>1. \A r \in refs : \E f \in kept : r = [file |-> f, status |-> files[f].status]
  BY DEF make_upstream_refs
<1>2. \A f \in kept : [file |-> f, status |-> files[f].status] \in refs
  BY DEF make_upstream_refs
<1>3. kept # {}
  BY DEF make_upstream_refs
<1> HIDE DEF refs
<1>4. \A r \in refs : r.file \in kept /\ r = [file |-> r.file, status |-> files[r.file].status]
  BY <1>1
<1>5. \A f \in kept : \E r \in refs : r.file = f
  BY <1>2
<1>6. {Wp[r.file[1]] : r \in refs} = reqs
  BY <1>3, <1>4, <1>5
<1>7. \A r, q \in refs : Wp[r.file[1]] = Wp[q.file[1]] => r = q
  BY <1>4
<1> QED BY <1>6, <1>7 DEF refs

\* Every step keeps the trace all or nothing.
LEMMA CompleteStep ==
    ASSUME TypeOK, TraceComplete, [Next]_vars
    PROVE  TraceComplete'
<1> DEFINE Complete(refs, reqs) ==
              \/ refs = {}
              \/ /\ {Wp[r.file[1]] : r \in refs} = reqs
                 /\ \A r, q \in refs : Wp[r.file[1]] = Wp[q.file[1]] => r = q
<1>0. /\ \A f \in DOMAIN files : Complete(files[f].upstream_refs, Requirements(Wp[f[1]]))
      /\ (\A f \in DOMAIN files' : Complete(files'[f].upstream_refs, Requirements(Wp[f[1]])))
            => TraceComplete'
  BY Zenon DEF TraceComplete
<1>1. ASSUME NEW a \in Artifacts, NEW n \in FileName, NEW p \in Projects,
             NEW kept \in SUBSET DOMAIN files,
             GenerateEffect(a, n, p, kept, Requirements(Wp[a]))
      PROVE  /\ DOMAIN files' = DOMAIN files \union {n}
             /\ \A g \in DOMAIN files : files'[g] = files[g]
             /\ Complete(files'[n].upstream_refs, Requirements(Wp[n[1]]))
  <2>1. /\ \A f \in kept : Wp[f[1]] \in Requirements(Wp[a])
        /\ \A f, g \in kept : Wp[f[1]] = Wp[g[1]] => f = g
        /\ kept = {} \/ \A wp \in Requirements(Wp[a]) : \E f \in kept : Wp[f[1]] = wp
        /\ files'[n].upstream_refs = make_upstream_refs(kept)
        /\ n = <<a, 1>>
    BY <1>1, Zenon DEF GenerateEffect
  <2>2. n[1] = a
    BY <2>1
  <2>3. Complete(make_upstream_refs(kept), Requirements(Wp[a]))
    BY <2>1, KeptRefs, Zenon
  <2>4. /\ DOMAIN files' = DOMAIN files \union {n}
        /\ \A g \in DOMAIN files : files'[g] = files[g]
    BY <1>1, Zenon DEF GenerateEffect
  <2> HIDE DEF Complete
  <2> QED BY <2>1, <2>2, <2>3, <2>4
<1> HIDE DEF Complete
<1>2. CASE UNCHANGED files
  BY <1>0, <1>2
<1>3. ASSUME NEW a \in Artifacts, NEW f \in get_latest_by_id(a), StatusEffect(a, f)
      PROVE  TraceComplete'
  BY <1>0, <1>3 DEF StatusEffect
<1>4. ASSUME NEW a \in Artifacts, NEW f \in get_latest_by_id(a), NEW n \in FileName,
             ReviseEffect(a, f, n)
      PROVE  TraceComplete'
  <2>1. /\ f \in DOMAIN files /\ f[1] = n[1] /\ DOMAIN files' = DOMAIN files \union {n}
        /\ files'[n].upstream_refs = files[f].upstream_refs
        /\ \A g \in DOMAIN files : files'[g].upstream_refs = files[g].upstream_refs
    BY <1>4 DEF ReviseEffect
  <2> QED BY <1>0, <2>1
<1>5. ASSUME NEW a \in Artifacts, NEW n \in FileName, NEW p \in Projects,
             NEW kept \in SUBSET DOMAIN files,
             GenerateEffect(a, n, p, kept, Requirements(Wp[a]))
      PROVE  TraceComplete'
  BY <1>0, <1>1, <1>5
<1> QED BY StepCases, <1>2, <1>3, <1>4, <1>5

\* Every version refers to one file of each required work product, or to none.
THEOREM TraceCompleteHolds == Spec => []TraceComplete
<1>1. Init => TraceComplete
  <2>1. ASSUME Init PROVE DOMAIN files = {}
    BY <2>1 DEF Init
  <2> QED BY <2>1 DEF TraceComplete
<1>2. TypeOK /\ TraceComplete /\ [Next]_vars => TraceComplete'
  BY CompleteStep
<1> QED BY <1>1, <1>2, TypeCorrect, PTL DEF Spec
=============================================================================
