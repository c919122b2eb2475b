------------------------- MODULE ReviewRace_proofs -------------------------
(***************************************************************************)
(* Proofs about ReviewRace for any set of threads, any number of versions, *)
(* calls and crashes: what the review tools guarantee although nothing     *)
(* locks the artifact store.                                               *)
(***************************************************************************)
EXTENDS ReviewRace, FiniteSetTheorems, TLAPS

Metadata == Lifecycle!Metadata

Saving == {"md_open", "md_write", "json_open", "json_write"}

Updating == {"prev_open", "prev_write"}

StatusTools == {"request_review", "request_changes", "approve"}

TypeOK ==
    /\ json \in [Versions -> Metadata \union Markers]
    /\ md \in [Versions -> Texts \union Markers]
    /\ pc \in [Threads -> {"idle", "revise_read"} \union Saving \union Updating]
    /\ op \in [Threads -> {"none", "generate", "revise"} \union StatusTools]
    /\ prev \in [Threads -> [version : Nat, meta : Metadata \union {Absent}]]
    /\ text \in [Threads -> Texts]
    /\ ops \in Nat /\ crashes \in Nat /\ raced \in BOOLEAN /\ clashed \in BOOLEAN
    /\ settled \in [Versions -> Metadata \union Markers]

\* What a tool read of version prev[t].version: a file that exists since.
ReadVersion(t) ==
    /\ prev[t].version \in Versions
    /\ prev[t].meta \in Metadata
    /\ prev[t].meta.supersedes = prev[t].version - 1
    /\ json[prev[t].version] # Absent

\* A tool that saves a new version generates the first one, or revises one it
\* has read.
SavingOK(t) ==
    pc[t] \in Saving =>
        \/ op[t] = "generate" /\ prev[t] = NoPrev
        \/ op[t] = "revise" /\ ReadVersion(t) /\ prev[t].version < MaxVersion

\* The document is created before the metadata, both before the previous
\* version is rewritten.
DocumentFirst(t) ==
    (pc[t] \in {"md_write", "json_open", "json_write"} /\ NewVersion(t) \in Versions) =>
        md[NewVersion(t)] # Absent

UpdatingOK(t) ==
    pc[t] \in Updating =>
        /\ ReadVersion(t)
        /\ \/ op[t] \in StatusTools
           \/ /\ op[t] = "revise"
              /\ NewVersion(t) \in Versions
              /\ json[NewVersion(t)] # Absent /\ md[NewVersion(t)] # Absent

ReadingOK(t) == pc[t] = "revise_read" => op[t] = "revise"

ThreadOK(t) == ReadingOK(t) /\ SavingOK(t) /\ DocumentFirst(t) /\ UpdatingOK(t)

\* The inductive invariant that no race and no crash disturbs.
StoreInv ==
    /\ TypeOK
    /\ \A t \in Threads : ThreadOK(t)
    /\ NoVersionGap
    /\ SupersededHasSuccessor

-----------------------------------------------------------------------------
(* What the tools write *)

LEMMA MarkerFacts ==
    /\ Absent # Torn /\ Absent # Mixed /\ Torn # Mixed
    /\ \A m \in Metadata : m # Absent /\ m # Torn /\ m # Mixed
    /\ \A x \in Texts : x # Absent /\ x # Torn /\ x # Mixed
<1>1. Absent # Torn /\ Absent # Mixed /\ Torn # Mixed
  BY RaceBounds
<1>2. \A x \in {Absent, Torn, Mixed} : x \notin Metadata /\ x \notin Texts
  BY MarkerAssumption DEF Markers, Metadata
<1>3. Absent \notin Metadata /\ Torn \notin Metadata /\ Mixed \notin Metadata
      /\ Absent \notin Texts /\ Torn \notin Texts /\ Mixed \notin Texts
  BY <1>2
<1> HIDE DEF Metadata, Texts
<1> QED BY <1>1, <1>3

\* A file that was written holds what was written, or a mixture if others had it
\* open or had written to it.
LEMMA WrittenFacts ==
    ASSUME NEW file, NEW content, NEW others, NEW c \in Written(file, content, others)
    PROVE  /\ c = content \/ c = Mixed
           /\ (file = Torn /\ others = {}) => c = content
BY DEF Written

\* A text that revise_* may save after it read version v.
LEMMA RevisedFacts ==
    ASSUME TypeOK, NEW v \in Versions, NEW c \in RevisedTexts(v)
    PROVE  /\ c \in Texts
           /\ c.supplied \/ ReadContent(v) \subseteq c.changes
<1>1. ReadContent(v) \subseteq Nat /\ ops + 1 \in Nat
  BY DEF TypeOK, ReadContent, Texts, Markers
<1>2. CASE c = [supplied |-> TRUE, changes |-> {ops + 1}]
  BY <1>1, <1>2 DEF Texts
<1>3. CASE c = [supplied |-> FALSE, changes |-> ReadContent(v) \union {ops + 1}]
  <2>1. ReadContent(v) \union {ops + 1} \in SUBSET Nat
    BY <1>1
  <2>2. c.changes = ReadContent(v) \union {ops + 1} /\ c.supplied = FALSE
    BY <1>3
  <2> QED BY <1>3, <2>1, <2>2 DEF Texts
<1>4. CASE c = [supplied |-> FALSE, changes |-> ReadContent(v)]
  BY <1>1, <1>4 DEF Texts
<1> QED BY <1>2, <1>3, <1>4 DEF RevisedTexts

\* save_artifact writes well-formed metadata that supersedes the version read.
LEMMA NewMetaFacts ==
    ASSUME TypeOK, NEW t \in Threads, SavingOK(t), pc[t] \in Saving
    PROVE  /\ NewMeta(t) \in Metadata
           /\ NewMeta(t).supersedes = NewVersion(t) - 1
           /\ NewMeta(t).status = "DRAFT"
           /\ NewVersion(t) \in Nat /\ NewVersion(t) > 0
           /\ prev[t].version = NewVersion(t) - 1
<1>1. prev[t].version \in Nat
  BY DEF TypeOK
<1>2. CASE op[t] = "generate" /\ prev[t] = NoPrev
  BY <1>1, <1>2 DEF NewMeta, NewVersion, NoPrev, Metadata, Lifecycle!Metadata,
     Lifecycle!build_metadata, Lifecycle!Status
<1>3. CASE op[t] = "revise" /\ ReadVersion(t)
  <2>1. prev[t].meta \in Lifecycle!Metadata
    BY <1>3 DEF ReadVersion, Metadata
  <2> QED BY <1>1, <1>3, <2>1 DEF NewMeta, NewVersion, Metadata, Lifecycle!Metadata,
     Lifecycle!build_metadata, Lifecycle!Status
<1> QED BY <1>2, <1>3 DEF SavingOK

\* update_metadata writes well-formed metadata with the same back link, and
\* only revise marks a version superseded, by the version it has saved.
LEMMA UpdatedFacts ==
    ASSUME TypeOK, NEW t \in Threads, UpdatingOK(t), pc[t] \in Updating
    PROVE  /\ Updated(t) \in Metadata
           /\ Updated(t).supersedes = prev[t].version - 1
           /\ Updated(t).status = "SUPERSEDED" =>
                  op[t] = "revise" /\ Updated(t).superseded_by = prev[t].version + 1
<1>1. /\ prev[t].meta \in Lifecycle!Metadata
      /\ prev[t].version \in Nat
      /\ prev[t].meta.supersedes = prev[t].version - 1
  BY DEF UpdatingOK, ReadVersion, Metadata, TypeOK
<1>2. CASE op[t] = "request_review"
  BY <1>1, <1>2 DEF Updated, Metadata, Lifecycle!Metadata, Lifecycle!record_status_change, Lifecycle!Status
<1>3. CASE op[t] = "request_changes"
  BY <1>1, <1>3 DEF Updated, Metadata, Lifecycle!Metadata, Lifecycle!record_status_change, Lifecycle!Status
<1>4. CASE op[t] = "approve"
  BY <1>1, <1>4 DEF Updated, Metadata, Lifecycle!Metadata, Lifecycle!record_status_change, Lifecycle!Status
<1>5. CASE op[t] = "revise"
  <2>1. Updated(t) = [prev[t].meta EXCEPT !.superseded_by = prev[t].version + 1,
                                          !.status = "SUPERSEDED"]
    BY <1>5 DEF Updated, Lifecycle!record_status_change, Lifecycle!Superseded, NewVersion
  <2>2. prev[t].version + 1 \in Nat
    BY <1>1
  <2> QED BY <1>1, <1>5, <2>1, <2>2 DEF Metadata, Lifecycle!Metadata, Lifecycle!Status
<1> QED BY <1>2, <1>3, <1>4, <1>5 DEF UpdatingOK, StatusTools

\* The version a reader finds is a metadata file that exists.
LEMMA LatestFacts ==
    ASSUME TypeOK, NEW v \in Latest
    PROVE  v \in Versions /\ v \in Nat /\ Readable(v) /\ json[v] \in Metadata /\ json[v] # Absent
BY MarkerFacts, RaceBounds DEF Latest, Readable, TypeOK, Versions, Markers

-----------------------------------------------------------------------------
(* The store under races and crashes *)

LEMMA StoreInit == Init => StoreInv
<1> SUFFICES ASSUME Init PROVE StoreInv
  OBVIOUS
<1>1. TypeOK
  BY DEF Init, TypeOK, NoPrev, NoChange, Texts, Markers
<1>2. \A v \in Versions : json[v] = Absent /\ ~Readable(v)
  BY DEF Init, Readable, Markers
<1>3. \A t \in Threads : pc[t] = "idle"
  BY DEF Init
<1> QED BY <1>1, <1>2, <1>3 DEF StoreInv, ThreadOK, ReadingOK, SavingOK, DocumentFirst, UpdatingOK,
        Saving, Updating, NoVersionGap, SupersededHasSuccessor

LEMMA TypeStep ==
    ASSUME TypeOK, \A t \in Threads : ThreadOK(t), [Next]_vars
    PROVE  TypeOK'
<1>1. CASE UNCHANGED vars
  BY <1>1 DEF vars, TypeOK
<1>2. CASE Crash
  BY <1>2 DEF Crash, TypeOK
<1>3. ASSUME NEW t \in Threads, ToolStep(t)
      PROVE  TypeOK'
  <2>1. CASE CallGenerate(t)
    BY <2>1 DEF CallGenerate, NoteRace, TypeOK, NoPrev, Saving, NoChange, Texts
  <2>2. CASE CallStatusTool(t)
    <3>1. PICK v \in Latest, tool \in StatusTools :
              /\ op' = [op EXCEPT ![t] = tool]
              /\ prev' = [prev EXCEPT ![t] = [version |-> v, meta |-> json[v]]]
      BY <2>2 DEF CallStatusTool, StatusTools
    <3>2. v \in Nat /\ json[v] \in Metadata
      BY LatestFacts
    <3> QED BY <2>2, <3>1, <3>2 DEF CallStatusTool, NoteRace, TypeOK, Updating
  <2>3. CASE CallRevise(t)
    <3>1. PICK v \in Latest : \E c \in RevisedTexts(v) : text' = [text EXCEPT ![t] = c]
      BY <2>3 DEF CallRevise
    <3>2. \A c \in RevisedTexts(v) : c \in Texts
      BY LatestFacts, RevisedFacts
    <3> QED BY <2>3, <3>1, <3>2 DEF CallRevise, NoteRace, TypeOK
  <2>4. CASE ReviseRead(t)
    <3>1. CASE Latest = {}
      BY <2>4, <3>1 DEF ReviseRead, TypeOK
    <3>2. CASE Latest # {}
      <4>1. PICK v \in Latest : prev' = [prev EXCEPT ![t] = [version |-> v, meta |-> json[v]]]
        BY <2>4, <3>2 DEF ReviseRead
      <4>2. v \in Nat /\ json[v] \in Metadata
        BY LatestFacts
      <4>3. pc' = [pc EXCEPT ![t] = "md_open"]
        BY <2>4, <3>2 DEF ReviseRead
      <4> QED BY <2>4, <4>1, <4>2, <4>3 DEF ReviseRead, TypeOK, Saving
    <3> QED BY <3>1, <3>2
  <2>5. CASE MdOpen(t)
    BY <2>5 DEF MdOpen, NoteClash, TypeOK, Saving, Markers
  <2>6. CASE MdWrite(t)
    <3>1. PICK c : c \in Written(md[NewVersion(t)], text[t], MdWriters(NewVersion(t)) \ {t})
                   /\ md' = [md EXCEPT ![NewVersion(t)] = c]
      BY <2>6 DEF MdWrite
    <3>2. c \in Texts \union Markers
      BY <3>1, WrittenFacts DEF TypeOK, Markers
    <3> QED BY <2>6, <3>1, <3>2 DEF MdWrite, TypeOK, Saving
  <2>7. CASE JsonOpen(t)
    BY <2>7 DEF JsonOpen, NoteClash, TypeOK, Saving, Markers
  <2>8. CASE JsonWrite(t)
    <3>1. NewMeta(t) \in Metadata
      BY <2>8, NewMetaFacts DEF JsonWrite, ThreadOK, Saving
    <3>2. json' \in [Versions -> Metadata \union Markers]
      <4>1. PICK c : c \in Written(json[NewVersion(t)], NewMeta(t), JsonWriters(NewVersion(t)) \ {t})
                     /\ json' = [json EXCEPT ![NewVersion(t)] = c]
        BY <2>8 DEF JsonWrite
      <4>2. c \in Metadata \union Markers
        BY <3>1, <4>1, WrittenFacts DEF Markers
      <4> QED BY <4>1, <4>2 DEF TypeOK
    <3> QED BY <2>8, <3>2 DEF JsonWrite, Settle, TypeOK, Updating
  <2>9. CASE PrevOpen(t)
    BY <2>9 DEF PrevOpen, NoteClash, TypeOK, Updating, Markers
  <2>10. CASE PrevWrite(t)
    <3>1. Updated(t) \in Metadata
      BY <2>10, UpdatedFacts DEF PrevWrite, ThreadOK, Updating
    <3>2. json' \in [Versions -> Metadata \union Markers]
      <4>1. PICK c : c \in Written(json[prev[t].version], Updated(t), JsonWriters(prev[t].version) \ {t})
                     /\ json' = [json EXCEPT ![prev[t].version] = c]
        BY <2>10 DEF PrevWrite
      <4>2. c \in Metadata \union Markers
        BY <3>1, <4>1, WrittenFacts DEF Markers
      <4> QED BY <4>1, <4>2 DEF TypeOK
    <3> QED BY <2>10, <3>2 DEF PrevWrite, Settle, TypeOK
  <2> QED BY <1>3, <2>1, <2>2, <2>3, <2>4, <2>5, <2>6, <2>7, <2>8, <2>9, <2>10 DEF ToolStep
<1> QED BY <1>1, <1>2, <1>3 DEF Next

\* What a write leaves in the file, and that it changes no other file.
LEMMA WriteSteps ==
    ASSUME StoreInv, NEW t \in Threads
    PROVE  /\ MdWrite(t) =>
                /\ \A v \in Versions : v # NewVersion(t) => md'[v] = md[v]
                /\ NewVersion(t) \in Versions => md'[NewVersion(t)] \in {text[t], Mixed}
                /\ (md[NewVersion(t)] = Torn /\ MdWriters(NewVersion(t)) \ {t} = {}) =>
                       md' = [md EXCEPT ![NewVersion(t)] = text[t]]
           /\ JsonWrite(t) =>
                /\ \A v \in Versions : v # NewVersion(t) => json'[v] = json[v]
                /\ NewVersion(t) \in Versions => json'[NewVersion(t)] \in {NewMeta(t), Mixed}
                /\ (json[NewVersion(t)] = Torn /\ JsonWriters(NewVersion(t)) \ {t} = {}) =>
                       json' = [json EXCEPT ![NewVersion(t)] = NewMeta(t)]
           /\ PrevWrite(t) =>
                /\ \A v \in Versions : v # prev[t].version => json'[v] = json[v]
                /\ prev[t].version \in Versions => json'[prev[t].version] \in {Updated(t), Mixed}
                /\ (json[prev[t].version] = Torn /\ JsonWriters(prev[t].version) \ {t} = {}) =>
                       json' = [json EXCEPT ![prev[t].version] = Updated(t)]
<1> USE DEF StoreInv
<1>1. ASSUME MdWrite(t)
      PROVE  /\ \A v \in Versions : v # NewVersion(t) => md'[v] = md[v]
             /\ NewVersion(t) \in Versions => md'[NewVersion(t)] \in {text[t], Mixed}
             /\ (md[NewVersion(t)] = Torn /\ MdWriters(NewVersion(t)) \ {t} = {}) =>
                    md' = [md EXCEPT ![NewVersion(t)] = text[t]]
  <2>1. PICK c : c \in Written(md[NewVersion(t)], text[t], MdWriters(NewVersion(t)) \ {t})
                 /\ md' = [md EXCEPT ![NewVersion(t)] = c]
    BY <1>1 DEF MdWrite
  <2>2. /\ c \in {text[t], Mixed}
        /\ (md[NewVersion(t)] = Torn /\ MdWriters(NewVersion(t)) \ {t} = {}) => c = text[t]
    BY <2>1, WrittenFacts
  <2>3. DOMAIN md = Versions
    BY DEF TypeOK
  <2> QED BY <2>1, <2>2, <2>3
<1>2. ASSUME JsonWrite(t)
      PROVE  /\ \A v \in Versions : v # NewVersion(t) => json'[v] = json[v]
             /\ NewVersion(t) \in Versions => json'[NewVersion(t)] \in {NewMeta(t), Mixed}
             /\ (json[NewVersion(t)] = Torn /\ JsonWriters(NewVersion(t)) \ {t} = {}) =>
                    json' = [json EXCEPT ![NewVersion(t)] = NewMeta(t)]
  <2>1. PICK c : c \in Written(json[NewVersion(t)], NewMeta(t), JsonWriters(NewVersion(t)) \ {t})
                 /\ json' = [json EXCEPT ![NewVersion(t)] = c]
    BY <1>2 DEF JsonWrite
  <2>2. /\ c \in {NewMeta(t), Mixed}
        /\ (json[NewVersion(t)] = Torn /\ JsonWriters(NewVersion(t)) \ {t} = {}) => c = NewMeta(t)
    BY <2>1, WrittenFacts
  <2>3. DOMAIN json = Versions
    BY DEF TypeOK
  <2> QED BY <2>1, <2>2, <2>3
<1>3. ASSUME PrevWrite(t)
      PROVE  /\ \A v \in Versions : v # prev[t].version => json'[v] = json[v]
             /\ prev[t].version \in Versions => json'[prev[t].version] \in {Updated(t), Mixed}
             /\ (json[prev[t].version] = Torn /\ JsonWriters(prev[t].version) \ {t} = {}) =>
                    json' = [json EXCEPT ![prev[t].version] = Updated(t)]
  <2>1. PICK c : c \in Written(json[prev[t].version], Updated(t), JsonWriters(prev[t].version) \ {t})
                 /\ json' = [json EXCEPT ![prev[t].version] = c]
    BY <1>3 DEF PrevWrite
  <2>2. /\ c \in {Updated(t), Mixed}
        /\ (json[prev[t].version] = Torn /\ JsonWriters(prev[t].version) \ {t} = {}) => c = Updated(t)
    BY <2>1, WrittenFacts
  <2>3. DOMAIN json = Versions
    BY DEF TypeOK
  <2> QED BY <2>1, <2>2, <2>3
<1> QED BY <1>1, <1>2, <1>3

\* A file that exists is never removed: not by a tool, not by a crash.
LEMMA FilesStay ==
    ASSUME StoreInv, [Next]_vars
    PROVE  \A v \in Versions : /\ json[v] # Absent => json'[v] # Absent
                               /\ md[v] # Absent => md'[v] # Absent
<1> USE DEF StoreInv
<1>1. CASE UNCHANGED vars
  BY <1>1 DEF vars
<1>2. CASE Crash
  BY <1>2 DEF Crash
<1>3. ASSUME NEW t \in Threads, ToolStep(t)
      PROVE  \A v \in Versions : /\ json[v] # Absent => json'[v] # Absent
                                 /\ md[v] # Absent => md'[v] # Absent
  <2>1. CASE CallGenerate(t) \/ CallStatusTool(t) \/ CallRevise(t) \/ ReviseRead(t)
    BY <2>1 DEF CallGenerate, CallStatusTool, CallRevise, ReviseRead
  <2>2. CASE MdOpen(t)
    BY <2>2, MarkerFacts DEF MdOpen, TypeOK
  <2>3. CASE MdWrite(t)
    <3>1. text[t] # Absent
      BY MarkerFacts DEF TypeOK
    <3>2. text[t] # Absent /\ Mixed # Absent /\ json' = json
      BY <2>3, <3>1, MarkerFacts DEF MdWrite
    <3>3. ASSUME NEW v \in Versions, md[v] # Absent PROVE md'[v] # Absent
      <4>1. CASE v = NewVersion(t)
        BY <2>3, <3>2, <4>1, WriteSteps
      <4>2. CASE v # NewVersion(t)
        BY <2>3, <3>3, <4>2, WriteSteps
      <4> QED BY <4>1, <4>2
    <3> QED BY <3>2, <3>3
  <2>4. CASE JsonOpen(t)
    BY <2>4, MarkerFacts DEF JsonOpen, TypeOK
  <2>5. CASE JsonWrite(t)
    <3>1. NewMeta(t) \in Metadata
      BY <2>5, NewMetaFacts DEF JsonWrite, ThreadOK, Saving
    <3>2. NewMeta(t) # Absent /\ Mixed # Absent /\ md' = md
      BY <2>5, <3>1, MarkerFacts DEF JsonWrite
    <3>3. ASSUME NEW v \in Versions, json[v] # Absent PROVE json'[v] # Absent
      <4>1. CASE v = NewVersion(t)
        BY <2>5, <3>2, <4>1, WriteSteps
      <4>2. CASE v # NewVersion(t)
        BY <2>5, <3>3, <4>2, WriteSteps
      <4> QED BY <4>1, <4>2
    <3> QED BY <3>2, <3>3
  <2>6. CASE PrevOpen(t)
    BY <2>6, MarkerFacts DEF PrevOpen, TypeOK
  <2>7. CASE PrevWrite(t)
    <3>1. Updated(t) \in Metadata
      BY <2>7, UpdatedFacts DEF PrevWrite, ThreadOK, Updating
    <3>2. Updated(t) # Absent /\ Mixed # Absent /\ md' = md
      BY <2>7, <3>1, MarkerFacts DEF PrevWrite
    <3>3. ASSUME NEW v \in Versions, json[v] # Absent PROVE json'[v] # Absent
      <4>1. CASE v = prev[t].version
        BY <2>7, <3>2, <4>1, WriteSteps
      <4>2. CASE v # prev[t].version
        BY <2>7, <3>3, <4>2, WriteSteps
      <4> QED BY <4>1, <4>2
    <3> QED BY <3>2, <3>3
  <2> QED BY <1>3, <2>1, <2>2, <2>3, <2>4, <2>5, <2>6, <2>7 DEF ToolStep
<1> QED BY <1>1, <1>2, <1>3 DEF Next

\* What a thread knows stays true while it does not move, whatever the other
\* threads do.
LEMMA ThreadFrame ==
    ASSUME StoreInv, [Next]_vars, NEW u \in Threads,
           pc'[u] = pc[u], op'[u] = op[u], prev'[u] = prev[u]
    PROVE  ThreadOK(u)'
<1>1. ThreadOK(u) /\ TypeOK
  BY DEF StoreInv
<1>2. ReadVersion(u) => ReadVersion(u)'
  BY FilesStay DEF ReadVersion
<1>3. SavingOK(u)'
  BY <1>1, <1>2 DEF ThreadOK, SavingOK
<1>4. NewVersion(u)' = NewVersion(u)
  BY DEF NewVersion
<1>5. DocumentFirst(u)'
  BY <1>1, <1>4, FilesStay DEF ThreadOK, DocumentFirst
<1>6. UpdatingOK(u)'
  BY <1>1, <1>2, <1>4, FilesStay DEF ThreadOK, UpdatingOK
<1> QED BY <1>1, <1>3, <1>5, <1>6 DEF ThreadOK, ReadingOK

LEMMA ThreadStep ==
    ASSUME StoreInv, [Next]_vars, NEW u \in Threads
    PROVE  ThreadOK(u)'
<1> USE DEF StoreInv, Saving, Updating
<1>1. CASE UNCHANGED vars
  BY <1>1, ThreadFrame DEF vars
<1>2. CASE Crash
  <2>1. pc'[u] = "idle"
    BY <1>2 DEF Crash
  <2> QED BY <2>1 DEF ThreadOK, ReadingOK, SavingOK, DocumentFirst, UpdatingOK
<1>3. ASSUME NEW t \in Threads, ToolStep(t), u # t
      PROVE  ThreadOK(u)'
  <2>1. pc'[u] = pc[u] /\ op'[u] = op[u] /\ prev'[u] = prev[u]
    BY <1>3 DEF ToolStep, CallGenerate, CallStatusTool, CallRevise, ReviseRead,
       MdOpen, MdWrite, JsonOpen, JsonWrite, PrevOpen, PrevWrite, TypeOK
  <2> QED BY <2>1, ThreadFrame
<1>4. ASSUME NEW t \in Threads, ToolStep(t), u = t
      PROVE  ThreadOK(t)'
  <2>0. /\ t \in DOMAIN pc /\ t \in DOMAIN op /\ t \in DOMAIN prev
        /\ ThreadOK(t)
        /\ ReadVersion(t) /\ prev' = prev => ReadVersion(t)'
    BY FilesStay DEF TypeOK, ReadVersion
  <2>1. CASE CallGenerate(t)
    BY <2>0, <2>1 DEF CallGenerate, ThreadOK, ReadingOK, SavingOK, DocumentFirst, UpdatingOK, NoPrev
  <2>2. CASE CallStatusTool(t)
    <3>1. PICK v \in Latest, tool \in StatusTools :
              /\ op' = [op EXCEPT ![t] = tool]
              /\ prev' = [prev EXCEPT ![t] = [version |-> v, meta |-> json[v]]]
      BY <2>2 DEF CallStatusTool, StatusTools
    <3>2. /\ pc'[t] = "prev_open" /\ op'[t] \in StatusTools
          /\ prev'[t].version = v /\ prev'[t].meta = json[v]
          /\ json' = json
      BY <2>0, <2>2, <3>1 DEF CallStatusTool
    <3>3. ReadVersion(t)'
      BY <3>2, LatestFacts DEF ReadVersion, NoVersionGap
    <3> QED BY <3>2, <3>3 DEF ThreadOK, ReadingOK, SavingOK, DocumentFirst, UpdatingOK
  <2>3. CASE CallRevise(t)
    BY <2>0, <2>3 DEF CallRevise, ThreadOK, ReadingOK, SavingOK, DocumentFirst, UpdatingOK
  <2>4. CASE ReviseRead(t)
    <3>1. CASE Latest = {}
      BY <2>0, <2>4, <3>1 DEF ReviseRead, ThreadOK, ReadingOK, SavingOK, DocumentFirst, UpdatingOK
    <3>2. CASE Latest # {}
      <4>1. PICK v \in Latest : /\ v < MaxVersion
                                /\ prev' = [prev EXCEPT ![t] = [version |-> v, meta |-> json[v]]]
                                /\ pc' = [pc EXCEPT ![t] = "md_open"]
        BY <2>4, <3>2 DEF ReviseRead
      <4>2. /\ pc'[t] = "md_open" /\ prev'[t].version = v /\ prev'[t].meta = json[v]
            /\ json' = json /\ op'[t] = "revise"
        BY <2>0, <2>4, <4>1 DEF ReviseRead, ThreadOK, ReadingOK
      <4>3. ReadVersion(t)'
        BY <4>2, LatestFacts DEF ReadVersion, NoVersionGap
      <4> QED BY <4>1, <4>2, <4>3 DEF ThreadOK, ReadingOK, SavingOK, DocumentFirst, UpdatingOK
    <3> QED BY <3>1, <3>2
  <2>5. CASE MdOpen(t)
    <3>1. pc'[t] = "md_write" /\ op' = op /\ prev' = prev /\ pc[t] = "md_open"
      BY <2>0, <2>5 DEF MdOpen
    <3>2. NewVersion(t) \in Versions => md'[NewVersion(t)] = Torn
      BY <2>5 DEF MdOpen, TypeOK
    <3>3. NewVersion(t)' = NewVersion(t)
      BY <3>1 DEF NewVersion
    <3> QED BY <2>0, <3>1, <3>2, <3>3, MarkerFacts
            DEF ThreadOK, ReadingOK, SavingOK, DocumentFirst, UpdatingOK
  <2>6. CASE MdWrite(t)
    <3>1. pc'[t] = "json_open" /\ op' = op /\ prev' = prev /\ pc[t] = "md_write"
      BY <2>0, <2>6 DEF MdWrite
    <3>2. NewVersion(t)' = NewVersion(t)
      BY <3>1 DEF NewVersion
    <3> QED BY <2>0, <3>1, <3>2, FilesStay
            DEF ThreadOK, ReadingOK, SavingOK, DocumentFirst, UpdatingOK
  <2>7. CASE JsonOpen(t)
    <3>1. pc'[t] = "json_write" /\ op' = op /\ prev' = prev /\ pc[t] = "json_open"
      BY <2>0, <2>7 DEF JsonOpen
    <3>2. NewVersion(t)' = NewVersion(t)
      BY <3>1 DEF NewVersion
    <3> QED BY <2>0, <3>1, <3>2, FilesStay
            DEF ThreadOK, ReadingOK, SavingOK, DocumentFirst, UpdatingOK
  <2>8. CASE JsonWrite(t)
    <3>1. op' = op /\ prev' = prev /\ pc[t] = "json_write"
      BY <2>8 DEF JsonWrite
    <3>2. NewVersion(t)' = NewVersion(t)
      BY <3>1 DEF NewVersion
    <3>3. CASE op[t] = "generate"
      <4>1. pc'[t] = "idle"
        BY <2>0, <2>8, <3>3 DEF JsonWrite
      <4> QED BY <4>1 DEF ThreadOK, ReadingOK, SavingOK, DocumentFirst, UpdatingOK
    <3>4. CASE op[t] # "generate"
      <4>1. pc'[t] = "prev_open"
        BY <2>0, <2>8, <3>4 DEF JsonWrite
      <4>2. ReadVersion(t) /\ op[t] = "revise" /\ prev[t].version < MaxVersion
        BY <2>0, <3>1, <3>4 DEF ThreadOK, SavingOK
      <4>3. NewVersion(t) \in Versions
        BY <4>2, RaceBounds DEF NewVersion, ReadVersion, Versions
      <4>4. md'[NewVersion(t)] # Absent
        BY <2>0, <3>1, <4>3, FilesStay DEF ThreadOK, DocumentFirst
      <4>5. NewMeta(t) \in Metadata
        BY <2>0, <3>1, NewMetaFacts DEF ThreadOK
      <4>6. json'[NewVersion(t)] # Absent
        BY <2>8, <4>3, <4>5, WriteSteps, MarkerFacts
      <4> QED BY <2>0, <3>1, <3>2, <4>1, <4>2, <4>3, <4>4, <4>6
              DEF ThreadOK, ReadingOK, SavingOK, DocumentFirst, UpdatingOK
    <3> QED BY <3>3, <3>4
  <2>9. CASE PrevOpen(t)
    <3>1. pc'[t] = "prev_write" /\ op' = op /\ prev' = prev /\ pc[t] = "prev_open"
      BY <2>0, <2>9 DEF PrevOpen
    <3>2. NewVersion(t)' = NewVersion(t)
      BY <3>1 DEF NewVersion
    <3> QED BY <2>0, <3>1, <3>2, FilesStay
            DEF ThreadOK, ReadingOK, SavingOK, DocumentFirst, UpdatingOK
  <2>10. CASE PrevWrite(t)
    BY <2>0, <2>10 DEF PrevWrite, ThreadOK, ReadingOK, SavingOK, DocumentFirst, UpdatingOK
  <2> QED BY <1>4, <2>1, <2>2, <2>3, <2>4, <2>5, <2>6, <2>7, <2>8, <2>9, <2>10 DEF ToolStep
<1> QED BY <1>1, <1>2, <1>3, <1>4 DEF Next

\* A tool that saves a version knows that all lower versions exist.
LEMMA LowerVersionsExist ==
    ASSUME StoreInv, NEW t \in Threads, pc[t] \in Saving
    PROVE  \A w \in 1 .. NewVersion(t) - 1 : json[w] # Absent
<1>1. ThreadOK(t) /\ TypeOK
  BY DEF StoreInv
<1>2. CASE op[t] = "generate" /\ prev[t] = NoPrev
  BY <1>2 DEF NewVersion, NoPrev
<1>3. CASE op[t] = "revise" /\ ReadVersion(t)
  <2>1. prev[t].version \in Versions /\ json[prev[t].version] # Absent
    BY <1>3 DEF ReadVersion
  <2>2. \A w \in 1 .. prev[t].version : json[w] # Absent
    BY <2>1 DEF StoreInv, NoVersionGap
  <2> QED BY <1>1, <2>1, <2>2 DEF NewVersion, TypeOK
<1> QED BY <1>1, <1>2, <1>3 DEF ThreadOK, SavingOK

LEMMA GapStep ==
    ASSUME StoreInv, [Next]_vars
    PROVE  NoVersionGap'
<1> SUFFICES ASSUME NEW v \in Versions, json'[v] # Absent
             PROVE  /\ \A w \in 1 .. v : json'[w] # Absent
                    /\ Readable(v)' => json'[v].supersedes = v - 1
  BY DEF NoVersionGap
<1> USE DEF StoreInv
<1>0. /\ v \in Nat /\ v > 0
      /\ \A w \in 1 .. v : w \in Versions
      /\ TypeOK
  BY RaceBounds DEF Versions
<1>1. ASSUME json[v] # Absent
      PROVE  \A w \in 1 .. v : json'[w] # Absent
  BY <1>0, <1>1, FilesStay DEF NoVersionGap
<1>2. ASSUME json'[v] = json[v]
      PROVE  /\ \A w \in 1 .. v : json'[w] # Absent
             /\ Readable(v)' => json'[v].supersedes = v - 1
  BY <1>1, <1>2 DEF NoVersionGap, Readable
<1>3. CASE UNCHANGED vars
  BY <1>2, <1>3 DEF vars
<1>4. CASE Crash
  BY <1>2, <1>4 DEF Crash
<1>5. ASSUME NEW t \in Threads, ToolStep(t)
      PROVE  /\ \A w \in 1 .. v : json'[w] # Absent
             /\ Readable(v)' => json'[v].supersedes = v - 1
  <2>0. ThreadOK(t)
    OBVIOUS
  <2>1. CASE CallGenerate(t) \/ CallStatusTool(t) \/ CallRevise(t) \/ ReviseRead(t)
             \/ MdOpen(t) \/ MdWrite(t)
    BY <1>2, <2>1 DEF CallGenerate, CallStatusTool, CallRevise, ReviseRead, MdOpen, MdWrite
  <2>2. ASSUME v = NewVersion(t), pc[t] \in Saving
        PROVE  \A w \in 1 .. v : json'[w] # Absent
    <3>1. \A w \in 1 .. v - 1 : json'[w] # Absent
      BY <1>0, <2>2, LowerVersionsExist, FilesStay
    <3> QED BY <1>0, <3>1
  <2>3. CASE JsonOpen(t)
    <3>1. CASE v = NewVersion(t)
      <4>1. json'[v] = Torn
        BY <2>3, <3>1 DEF JsonOpen, TypeOK
      <4> QED BY <2>2, <2>3, <3>1, <4>1 DEF JsonOpen, Saving, Readable, Markers
    <3>2. CASE v # NewVersion(t)
      BY <1>2, <2>3, <3>2 DEF JsonOpen, TypeOK
    <3> QED BY <3>1, <3>2
  <2>4. CASE JsonWrite(t)
    <3>1. CASE v = NewVersion(t)
      <4>1. json'[v] \in {NewMeta(t), Mixed} /\ pc[t] \in Saving
        BY <2>4, <3>1, WriteSteps DEF JsonWrite, Saving
      <4>2. NewMeta(t).supersedes = v - 1
        BY <2>0, <3>1, <4>1, NewMetaFacts DEF ThreadOK
      <4> QED BY <2>2, <3>1, <4>1, <4>2 DEF Readable, Markers
    <3>2. CASE v # NewVersion(t)
      BY <1>2, <2>4, <3>2, WriteSteps
    <3> QED BY <3>1, <3>2
  <2>5. CASE PrevOpen(t)
    <3>1. CASE v = prev[t].version
      <4>1. json'[v] = Torn /\ json[v] # Absent
        BY <2>0, <2>5, <3>1 DEF PrevOpen, TypeOK, ThreadOK, UpdatingOK, Updating, ReadVersion
      <4> QED BY <1>1, <4>1 DEF Readable, Markers
    <3>2. CASE v # prev[t].version
      BY <1>2, <2>5, <3>2 DEF PrevOpen, TypeOK
    <3> QED BY <3>1, <3>2
  <2>6. CASE PrevWrite(t)
    <3>1. CASE v = prev[t].version
      <4>1. json'[v] \in {Updated(t), Mixed} /\ json[v] # Absent /\ pc[t] \in Updating
        BY <2>0, <2>6, <3>1, WriteSteps DEF PrevWrite, ThreadOK, UpdatingOK, Updating, ReadVersion
      <4>2. Updated(t).supersedes = v - 1
        BY <2>0, <3>1, <4>1, UpdatedFacts DEF ThreadOK
      <4> QED BY <1>1, <4>1, <4>2 DEF Readable, Markers
    <3>2. CASE v # prev[t].version
      BY <1>2, <2>6, <3>2, WriteSteps
    <3> QED BY <3>1, <3>2
  <2> QED BY <1>5, <2>1, <2>3, <2>4, <2>5, <2>6 DEF ToolStep
<1> QED BY <1>3, <1>4, <1>5 DEF Next

LEMMA SuccessorStep ==
    ASSUME StoreInv, [Next]_vars
    PROVE  SupersededHasSuccessor'
<1> DEFINE HasSuccessor(v) ==
       /\ json[v].superseded_by = v + 1
       /\ v + 1 \in Versions
       /\ json[v + 1] # Absent
       /\ md[v + 1] # Absent
<1> SUFFICES ASSUME NEW v \in Versions, Readable(v)', json'[v].status = "SUPERSEDED"
             PROVE  HasSuccessor(v)'
  BY DEF SupersededHasSuccessor
<1> USE DEF StoreInv
<1>2. ASSUME json'[v] = json[v]
      PROVE  HasSuccessor(v)'
  <2>1. HasSuccessor(v)
    BY <1>2 DEF SupersededHasSuccessor, Readable
  <2> QED BY <1>2, <2>1, FilesStay
<1> HIDE DEF HasSuccessor
<1>3. CASE UNCHANGED vars
  BY <1>2, <1>3 DEF vars
<1>4. CASE Crash
  BY <1>2, <1>4 DEF Crash
<1>5. ASSUME NEW t \in Threads, ToolStep(t)
      PROVE  HasSuccessor(v)'
  <2>0. ThreadOK(t)
    OBVIOUS
  <2>1. CASE CallGenerate(t) \/ CallStatusTool(t) \/ CallRevise(t) \/ ReviseRead(t)
             \/ MdOpen(t) \/ MdWrite(t)
    BY <1>2, <2>1 DEF CallGenerate, CallStatusTool, CallRevise, ReviseRead, MdOpen, MdWrite
  <2>3. CASE JsonOpen(t)
    BY <1>2, <2>3 DEF JsonOpen, TypeOK, Readable, Markers
  <2>4. CASE JsonWrite(t)
    <3>1. NewMeta(t).status = "DRAFT"
      BY <2>0, <2>4, NewMetaFacts DEF ThreadOK, JsonWrite, Saving
    <3> QED BY <1>2, <2>4, <3>1, WriteSteps DEF Readable, Markers
  <2>5. CASE PrevOpen(t)
    BY <1>2, <2>5 DEF PrevOpen, TypeOK, Readable, Markers
  <2>6. CASE PrevWrite(t)
    <3>1. CASE v = prev[t].version
      <4>1. json'[v] = Updated(t) /\ pc[t] \in Updating
        BY <2>6, <3>1, WriteSteps DEF PrevWrite, Updating, Readable, Markers
      <4>2. op[t] = "revise" /\ json'[v].superseded_by = v + 1
        BY <2>0, <3>1, <4>1, UpdatedFacts DEF ThreadOK
      <4>3. v + 1 \in Versions /\ json[v + 1] # Absent /\ md[v + 1] # Absent
        BY <2>0, <3>1, <4>1, <4>2 DEF ThreadOK, UpdatingOK, NewVersion, StatusTools
      <4> QED BY <4>2, <4>3, FilesStay DEF HasSuccessor
    <3>2. CASE v # prev[t].version
      BY <1>2, <2>6, <3>2, WriteSteps
    <3> QED BY <3>1, <3>2
  <2> QED BY <1>5, <2>1, <2>3, <2>4, <2>5, <2>6 DEF ToolStep
<1> QED BY <1>3, <1>4, <1>5 DEF Next

LEMMA StoreInvariant == Spec => []StoreInv
<1>1. ASSUME StoreInv, [Next]_vars
      PROVE  StoreInv'
  <2>1. TypeOK'
    BY <1>1, TypeStep DEF StoreInv
  <2>2. \A t \in Threads : ThreadOK(t)'
    BY <1>1, ThreadStep
  <2>3. NoVersionGap' /\ SupersededHasSuccessor'
    BY <1>1, GapStep, SuccessorStep
  <2> QED BY <2>1, <2>2, <2>3 DEF StoreInv
<1> QED BY <1>1, StoreInit, PTL DEF Spec

\* However tools race and wherever the process crashes, the version numbers on
\* disk have no gap and every readable version names its predecessor:
\* review_workflow.revise and artifact_store.save_artifact never skip a number.
THEOREM NoVersionGapHolds == Spec => []NoVersionGap
<1>1. StoreInv => NoVersionGap
  BY DEF StoreInv
<1> QED BY <1>1, StoreInvariant, PTL

\* However tools race and wherever the process crashes, a superseded version
\* has a successor on disk, because revise saves before it marks.
THEOREM SupersededHasSuccessorHolds == Spec => []SupersededHasSuccessor
<1>1. StoreInv => SupersededHasSuccessor
  BY DEF StoreInv
<1> QED BY <1>1, StoreInvariant, PTL

-----------------------------------------------------------------------------
(* The store heals *)

\* Thread t has truncated the metadata file, or the document, of version v and
\* is about to write it.
WritesJson(t, v) ==
    \/ pc[t] = "json_write" /\ NewVersion(t) = v
    \/ pc[t] = "prev_write" /\ prev[t].version = v

WritesMd(t, v) == pc[t] = "md_write" /\ NewVersion(t) = v

\* A file is truncated as long as the one thread that has it open is to write it,
\* and whole otherwise.
JsonGood(v) ==
    /\ json[v] # Mixed
    /\ json[v] = Torn <=> \E t \in Threads : WritesJson(t, v)
    /\ \A t, u \in Threads : WritesJson(t, v) /\ WritesJson(u, v) => t = u

MdGood(v) ==
    /\ md[v] # Mixed
    /\ md[v] = Torn <=> \E t \in Threads : WritesMd(t, v)
    /\ \A t, u \in Threads : WritesMd(t, v) /\ WritesMd(u, v) => t = u

\* Without a crash and without two writers of one file, whoever truncated a file
\* is still there to write it.
TornHasWriter == (crashes = 0 /\ ~clashed) => \A v \in Versions : JsonGood(v) /\ MdGood(v)

LEMMA WriterSets ==
    \A v : /\ MdWriters(v) = {u \in Threads : WritesMd(u, v)}
           /\ JsonWriters(v) = {u \in Threads : WritesJson(u, v)}
BY DEF MdWriters, JsonWriters, WritesMd, WritesJson

\* The three things that can happen to one file: nothing, opening, writing.
LEMMA JsonKept ==
    ASSUME NEW v \in Versions, NEW t \in Threads, JsonGood(v), json'[v] = json[v],
           \A u \in Threads : WritesJson(u, v)' <=> WritesJson(u, v)
    PROVE  JsonGood(v)'
BY DEF JsonGood

LEMMA JsonOpened ==
    ASSUME NEW v \in Versions, NEW t \in Threads, json'[v] = Torn, WritesJson(t, v)',
           \A u \in Threads : u # t => ~WritesJson(u, v)'
    PROVE  JsonGood(v)'
BY MarkerFacts DEF JsonGood

LEMMA JsonClosed ==
    ASSUME NEW v \in Versions, NEW t \in Threads, json'[v] # Torn, json'[v] # Mixed,
           \A u \in Threads : ~WritesJson(u, v)'
    PROVE  JsonGood(v)'
BY DEF JsonGood

LEMMA MdKept ==
    ASSUME NEW v \in Versions, NEW t \in Threads, MdGood(v), md'[v] = md[v],
           \A u \in Threads : WritesMd(u, v)' <=> WritesMd(u, v)
    PROVE  MdGood(v)'
BY DEF MdGood

LEMMA MdOpened ==
    ASSUME NEW v \in Versions, NEW t \in Threads, md'[v] = Torn, WritesMd(t, v)',
           \A u \in Threads : u # t => ~WritesMd(u, v)'
    PROVE  MdGood(v)'
BY MarkerFacts DEF MdGood

LEMMA MdClosed ==
    ASSUME NEW v \in Versions, NEW t \in Threads, md'[v] # Torn, md'[v] # Mixed,
           \A u \in Threads : ~WritesMd(u, v)'
    PROVE  MdGood(v)'
BY DEF MdGood

LEMMA TornStep ==
    ASSUME StoreInv, TornHasWriter, [Next]_vars
    PROVE  TornHasWriter'
<1> SUFFICES ASSUME crashes' = 0, ~clashed', NEW v \in Versions
             PROVE  JsonGood(v)' /\ MdGood(v)'
  BY DEF TornHasWriter
<1> USE DEF StoreInv
<1>1. CASE UNCHANGED vars
  BY <1>1 DEF vars, TornHasWriter, JsonGood, MdGood, WritesJson, WritesMd, NewVersion
<1>2. CASE Crash
  BY <1>2 DEF Crash, TypeOK
<1>3. ASSUME NEW t \in Threads, ToolStep(t)
      PROVE  JsonGood(v)' /\ MdGood(v)'
  <2>1. crashes = 0 /\ ~clashed
    BY <1>3 DEF ToolStep, CallGenerate, CallStatusTool, CallRevise, ReviseRead, NoteRace, NoteClash,
       MdOpen, MdWrite, JsonOpen, JsonWrite, PrevOpen, PrevWrite, TypeOK
  <2>2. \A u \in Threads : u # t => /\ WritesJson(u, v)' <=> WritesJson(u, v)
                                    /\ WritesMd(u, v)' <=> WritesMd(u, v)
    BY <1>3 DEF ToolStep, CallGenerate, CallStatusTool, CallRevise, ReviseRead,
       MdOpen, MdWrite, JsonOpen, JsonWrite, PrevOpen, PrevWrite, TypeOK,
       WritesJson, WritesMd, NewVersion
  <2>3. JsonGood(v) /\ MdGood(v)
    BY <2>1 DEF TornHasWriter
  <2>0. /\ t \in DOMAIN pc /\ t \in DOMAIN op /\ t \in DOMAIN prev /\ v \in DOMAIN json /\ v \in DOMAIN md
        /\ ThreadOK(t) /\ TypeOK
    BY DEF TypeOK
  <2>4. ASSUME json'[v] = json[v], WritesJson(t, v)' <=> WritesJson(t, v)
        PROVE  JsonGood(v)'
    BY <2>2, <2>3, <2>4, JsonKept
  <2>5. ASSUME md'[v] = md[v], WritesMd(t, v)' <=> WritesMd(t, v)
        PROVE  MdGood(v)'
    BY <2>2, <2>3, <2>5, MdKept
  <2>6. CASE CallGenerate(t) \/ CallStatusTool(t) \/ CallRevise(t) \/ ReviseRead(t)
    <3>1. pc[t] \notin {"md_write", "json_write", "prev_write"} /\ json' = json /\ md' = md
          /\ pc'[t] \notin {"md_write", "json_write", "prev_write"}
      BY <2>0, <2>6 DEF CallGenerate, CallStatusTool, CallRevise, ReviseRead
    <3>2. ~WritesJson(t, v) /\ ~WritesMd(t, v) /\ ~WritesJson(t, v)' /\ ~WritesMd(t, v)'
      BY <3>1 DEF WritesJson, WritesMd
    <3> QED BY <2>4, <2>5, <3>1, <3>2
  <2>7. CASE MdOpen(t)
    <3>1. /\ json' = json /\ prev' = prev /\ op' = op /\ pc[t] = "md_open" /\ pc'[t] = "md_write"
          /\ MdWriters(NewVersion(t)) = {}
      BY <2>0, <2>1, <2>7 DEF MdOpen, NoteClash
    <3>2. JsonGood(v)'
      BY <2>4, <3>1 DEF WritesJson
    <3>3. NewVersion(t)' = NewVersion(t)
      BY <3>1 DEF NewVersion
    <3>4. CASE NewVersion(t) = v
      <4>1. md'[v] = Torn /\ WritesMd(t, v)'
        BY <2>0, <2>7, <3>1, <3>3, <3>4 DEF MdOpen, WritesMd
      <4>2. \A u \in Threads : ~WritesMd(u, v)
        BY <3>1, <3>4, WriterSets
      <4> QED BY <2>2, <3>2, <4>1, <4>2, MdOpened
    <3>5. CASE NewVersion(t) # v
      <4>1. md'[v] = md[v] /\ ~WritesMd(t, v)' /\ ~WritesMd(t, v)
        BY <2>0, <2>7, <3>1, <3>3, <3>5 DEF MdOpen, WritesMd
      <4> QED BY <2>5, <3>2, <4>1
    <3> QED BY <3>4, <3>5
  <2>8. CASE MdWrite(t)
    <3>1. json' = json /\ prev' = prev /\ op' = op /\ pc[t] = "md_write" /\ pc'[t] = "json_open"
      BY <2>0, <2>8 DEF MdWrite
    <3>2. JsonGood(v)'
      BY <2>4, <3>1 DEF WritesJson
    <3>4. CASE NewVersion(t) = v
      <4>1. WritesMd(t, v) /\ ~WritesMd(t, v)'
        BY <3>1, <3>4 DEF WritesMd
      <4>2. md[v] = Torn /\ \A u \in Threads : u # t => ~WritesMd(u, v)
        BY <2>3, <4>1 DEF MdGood
      <4>3. MdWriters(v) \ {t} = {}
        BY <4>2, WriterSets
      <4>4. md'[v] = text[t] /\ text[t] \in Texts
        BY <2>0, <2>8, <3>4, <4>2, <4>3, WriteSteps DEF TypeOK
      <4> QED BY <2>2, <3>2, <4>1, <4>2, <4>4, MarkerFacts, MdClosed
    <3>5. CASE NewVersion(t) # v
      <4>1. md'[v] = md[v] /\ ~WritesMd(t, v)' /\ ~WritesMd(t, v)
        BY <2>8, <3>1, <3>5, WriteSteps DEF WritesMd
      <4> QED BY <2>5, <3>2, <4>1
    <3> QED BY <3>4, <3>5
  <2>9. CASE JsonOpen(t)
    <3>1. /\ md' = md /\ prev' = prev /\ op' = op /\ pc[t] = "json_open" /\ pc'[t] = "json_write"
          /\ JsonWriters(NewVersion(t)) = {}
      BY <2>0, <2>1, <2>9 DEF JsonOpen, NoteClash
    <3>2. MdGood(v)'
      BY <2>5, <3>1 DEF WritesMd
    <3>3. NewVersion(t)' = NewVersion(t)
      BY <3>1 DEF NewVersion
    <3>4. CASE NewVersion(t) = v
      <4>1. json'[v] = Torn /\ WritesJson(t, v)'
        BY <2>0, <2>9, <3>1, <3>3, <3>4 DEF JsonOpen, WritesJson
      <4>2. \A u \in Threads : ~WritesJson(u, v)
        BY <3>1, <3>4, WriterSets
      <4> QED BY <2>2, <3>2, <4>1, <4>2, JsonOpened
    <3>5. CASE NewVersion(t) # v
      <4>1. json'[v] = json[v] /\ ~WritesJson(t, v)' /\ ~WritesJson(t, v)
        BY <2>0, <2>9, <3>1, <3>3, <3>5 DEF JsonOpen, WritesJson
      <4> QED BY <2>4, <3>2, <4>1
    <3> QED BY <3>4, <3>5
  <2>10. CASE JsonWrite(t)
    <3>1. /\ md' = md /\ prev' = prev /\ op' = op /\ pc[t] = "json_write" /\ pc'[t] \in {"idle", "prev_open"}
      BY <2>0, <2>10 DEF JsonWrite
    <3>2. MdGood(v)'
      BY <2>5, <3>1 DEF WritesMd
    <3>4. CASE NewVersion(t) = v
      <4>1. WritesJson(t, v) /\ ~WritesJson(t, v)'
        BY <3>1, <3>4 DEF WritesJson
      <4>2. json[v] = Torn /\ \A u \in Threads : u # t => ~WritesJson(u, v)
        BY <2>3, <4>1 DEF JsonGood
      <4>3. JsonWriters(v) \ {t} = {}
        BY <4>2, WriterSets
      <4>4. json'[v] = NewMeta(t) /\ NewMeta(t) \in Metadata
        BY <2>0, <2>10, <3>1, <3>4, <4>2, <4>3, WriteSteps, NewMetaFacts DEF ThreadOK, Saving
      <4> QED BY <2>2, <3>2, <4>1, <4>2, <4>4, MarkerFacts, JsonClosed
    <3>5. CASE NewVersion(t) # v
      <4>1. json'[v] = json[v] /\ ~WritesJson(t, v)' /\ ~WritesJson(t, v)
        BY <2>10, <3>1, <3>5, WriteSteps DEF WritesJson
      <4> QED BY <2>4, <3>2, <4>1
    <3> QED BY <3>4, <3>5
  <2>11. CASE PrevOpen(t)
    <3>1. /\ md' = md /\ prev' = prev /\ op' = op /\ pc[t] = "prev_open" /\ pc'[t] = "prev_write"
          /\ JsonWriters(prev[t].version) = {}
      BY <2>0, <2>1, <2>11 DEF PrevOpen, NoteClash
    <3>2. MdGood(v)'
      BY <2>5, <3>1 DEF WritesMd
    <3>4. CASE prev[t].version = v
      <4>1. json'[v] = Torn /\ WritesJson(t, v)'
        BY <2>0, <2>11, <3>1, <3>4 DEF PrevOpen, WritesJson
      <4>2. \A u \in Threads : ~WritesJson(u, v)
        BY <3>1, <3>4, WriterSets
      <4> QED BY <2>2, <3>2, <4>1, <4>2, JsonOpened
    <3>5. CASE prev[t].version # v
      <4>1. json'[v] = json[v] /\ ~WritesJson(t, v)' /\ ~WritesJson(t, v)
        BY <2>0, <2>11, <3>1, <3>5 DEF PrevOpen, WritesJson
      <4> QED BY <2>4, <3>2, <4>1
    <3> QED BY <3>4, <3>5
  <2>12. CASE PrevWrite(t)
    <3>1. /\ md' = md /\ prev' = prev /\ op' = op /\ pc[t] = "prev_write" /\ pc'[t] = "idle"
      BY <2>0, <2>12 DEF PrevWrite
    <3>2. MdGood(v)'
      BY <2>5, <3>1 DEF WritesMd
    <3>4. CASE prev[t].version = v
      <4>1. WritesJson(t, v) /\ ~WritesJson(t, v)'
        BY <3>1, <3>4 DEF WritesJson
      <4>2. json[v] = Torn /\ \A u \in Threads : u # t => ~WritesJson(u, v)
        BY <2>3, <4>1 DEF JsonGood
      <4>3. JsonWriters(v) \ {t} = {}
        BY <4>2, WriterSets
      <4>4. json'[v] = Updated(t) /\ Updated(t) \in Metadata
        BY <2>0, <2>12, <3>1, <3>4, <4>2, <4>3, WriteSteps, UpdatedFacts DEF ThreadOK, Updating
      <4> QED BY <2>2, <3>2, <4>1, <4>2, <4>4, MarkerFacts, JsonClosed
    <3>5. CASE prev[t].version # v
      <4>1. json'[v] = json[v] /\ ~WritesJson(t, v)' /\ ~WritesJson(t, v)
        BY <2>12, <3>1, <3>5, WriteSteps DEF WritesJson
      <4> QED BY <2>4, <3>2, <4>1
    <3> QED BY <3>4, <3>5
  <2> QED BY <1>3, <2>6, <2>7, <2>8, <2>9, <2>10, <2>11, <2>12 DEF ToolStep
<1> QED BY <1>1, <1>2, <1>3 DEF Next

\* Without a crash, however the tools raced, unless two had one file open at a
\* time: once the last one has ended every file of the artifact is readable and
\* the version that load_metadata finds for the next tool is not a superseded one.
THEOREM LiveWhenQuietHolds == Spec => []LiveWhenQuiet
<1>1. Init => TornHasWriter
  BY MarkerFacts DEF Init, TornHasWriter, JsonGood, MdGood, WritesJson, WritesMd
<1>2. StoreInv /\ TornHasWriter /\ [Next]_vars => TornHasWriter'
  BY TornStep
<1>3. ASSUME StoreInv, TornHasWriter PROVE LiveWhenQuiet
  <2> SUFFICES ASSUME crashes = 0, ~clashed, \A t \in Threads : pc[t] = "idle"
               PROVE  /\ \A v \in Versions : json[v] \notin {Torn, Mixed} /\ md[v] \notin {Torn, Mixed}
                      /\ \A v \in Latest : json[v].status # "SUPERSEDED"
    BY DEF LiveWhenQuiet
  <2>1. \A v \in Versions : json[v] \notin {Torn, Mixed} /\ md[v] \notin {Torn, Mixed}
    BY <1>3 DEF TornHasWriter, JsonGood, MdGood, WritesJson, WritesMd
  <2>2. ASSUME NEW v \in Latest, json[v].status = "SUPERSEDED"
        PROVE  FALSE
    <3>1. v \in Versions /\ v \in Nat /\ Readable(v) /\ \A w \in Versions : Readable(w) => w <= v
      BY <1>3, LatestFacts DEF StoreInv, Latest
    <3>2. v + 1 \in Versions /\ json[v + 1] # Absent
      BY <1>3, <2>2, <3>1 DEF StoreInv, SupersededHasSuccessor
    <3>3. Readable(v + 1)
      BY <2>1, <3>2 DEF Readable, Markers
    <3> QED BY <3>1, <3>2, <3>3
  <2> QED BY <2>1, <2>2
<1> QED BY <1>1, <1>2, <1>3, StoreInvariant, PTL DEF Spec

-----------------------------------------------------------------------------
(* Until the first race or crash *)

\* The version thread t read is the newest settled one (0: there is none).
AtTop(t) ==
    /\ prev[t].version # 0 => settled[prev[t].version] = prev[t].meta
    /\ \A w \in Versions : w > prev[t].version => settled[w] = Absent

\* The metadata files as the only running tool t has left them: the settled
\* ones and what t has done to them since.
Saved(t) ==
    IF op[t] = "revise" THEN [settled EXCEPT ![NewVersion(t)] = NewMeta(t)] ELSE settled

Pending(t) ==
    CASE pc[t] = "json_write" -> [settled EXCEPT ![NewVersion(t)] = Torn]
      [] pc[t] = "prev_open"  -> Saved(t)
      [] pc[t] = "prev_write" -> [Saved(t) EXCEPT ![prev[t].version] = Torn]
      [] OTHER                -> settled

\* Thread t is past the write of the new document.
DocumentSaved(t) ==
    \/ pc[t] \in {"json_open", "json_write"}
    \/ pc[t] \in Updating /\ op[t] = "revise"

Alone == \A t, u \in Threads : (pc[t] # "idle" /\ pc[u] # "idle") => t = u

\* A text that keeps the changes of version v (0: there is none) or was supplied.
Extends(x, v) == x \in Texts /\ (v # 0 => x.supplied \/ md[v].changes \subseteq x.changes)

SettledText == \A v \in Versions : settled[v] # Absent => Extends(md[v], v - 1)

SequentialThread(t) ==
    /\ pc[t] # "idle" => json = Pending(t)
    /\ pc[t] = "revise_read" => \A v \in Latest : Extends(text[t], v)
    /\ pc[t] \in Saving \union Updating => AtTop(t)
    /\ pc[t] \in Saving => Extends(text[t], prev[t].version)
    /\ (pc[t] = "md_write" /\ NewVersion(t) \in Versions) => md[NewVersion(t)] = Torn
    /\ (DocumentSaved(t) /\ NewVersion(t) \in Versions) => Extends(md[NewVersion(t)], prev[t].version)

\* The inductive invariant of runs in which no two tools overlap.
Sequential ==
    /\ Alone
    /\ (\A t \in Threads : pc[t] = "idle") => json = settled
    /\ SettledText
    /\ \A t \in Threads : SequentialThread(t)

\* The first call finds an empty store.
FirstCall ==
    ops = 0 => /\ json = [v \in Versions |-> Absent]
               /\ \A t \in Threads : pc[t] = "idle"

\* What settled keeps after a race as well.
SettledOK == settled \in [Versions -> Metadata \union {Absent}]

SeqInv == FirstCall /\ SettledOK /\ (~raced => Sequential)

\* In a step of thread t before the first race, every other thread is idle.
LEMMA OnlyOneMoves ==
    ASSUME StoreInv, ~raced => Sequential, NEW t \in Threads, ToolStep(t), ~raced'
    PROVE  /\ ~raced /\ Sequential
           /\ \A u \in Threads : u # t => pc[u] = "idle" /\ pc'[u] = "idle"
<1> USE DEF StoreInv
<1>1. ~raced
  BY DEF ToolStep, CallGenerate, CallStatusTool, CallRevise, ReviseRead, NoteRace, NoteClash,
     MdOpen, MdWrite, JsonOpen, JsonWrite, PrevOpen, PrevWrite, TypeOK
<1>2. \A u \in Threads : u # t => pc'[u] = pc[u]
  BY DEF ToolStep, CallGenerate, CallStatusTool, CallRevise, ReviseRead,
     MdOpen, MdWrite, JsonOpen, JsonWrite, PrevOpen, PrevWrite, TypeOK
<1>3. CASE pc[t] # "idle"
  BY <1>1, <1>2, <1>3 DEF Sequential, Alone
<1>4. CASE pc[t] = "idle"
  <2>1. NoteRace(t)
    BY <1>4 DEF ToolStep, CallGenerate, CallStatusTool, CallRevise, ReviseRead,
       MdOpen, MdWrite, JsonOpen, JsonWrite, PrevOpen, PrevWrite
  <2> QED BY <1>1, <1>2, <2>1 DEF NoteRace
<1> QED BY <1>1, <1>3, <1>4

\* It is enough to look at the thread that moves.
LEMMA SequentialFrame ==
    ASSUME NEW t \in Threads, \A u \in Threads : u # t => pc'[u] = "idle",
           SettledText', SequentialThread(t)', pc'[t] = "idle" => json' = settled'
    PROVE  Sequential'
<1>1. \A u \in Threads : u # t => SequentialThread(u)'
  BY DEF SequentialThread, DocumentSaved, Saving, Updating
<1>2. Alone'
  BY DEF Alone
<1> QED BY <1>1, <1>2 DEF Sequential

\* The only tool at work finds the file it has opened as it left it, and nobody
\* else writes to it.
LEMMA WritesAlone ==
    ASSUME StoreInv, SettledOK, Sequential, NEW t \in Threads, SequentialThread(t),
           \A u \in Threads : u # t => pc[u] = "idle"
    PROVE  /\ MdWrite(t) => md' = [md EXCEPT ![NewVersion(t)] = text[t]]
           /\ JsonWrite(t) => json' = [json EXCEPT ![NewVersion(t)] = NewMeta(t)]
           /\ PrevWrite(t) => json' = [json EXCEPT ![prev[t].version] = Updated(t)]
<1>1. \A v : MdWriters(v) \ {t} = {} /\ JsonWriters(v) \ {t} = {}
  BY DEF MdWriters, JsonWriters
<1>2. DOMAIN json = Versions /\ DOMAIN md = Versions /\ DOMAIN settled = Versions
  BY DEF StoreInv, TypeOK
<1>3. ASSUME MdWrite(t) PROVE md' = [md EXCEPT ![NewVersion(t)] = text[t]]
  <2>1. CASE NewVersion(t) \in Versions
    BY <1>1, <1>3, <2>1, WriteSteps DEF MdWrite, SequentialThread
  <2>2. CASE NewVersion(t) \notin Versions
    BY <1>2, <1>3, <2>2 DEF MdWrite
  <2> QED BY <2>1, <2>2
<1>4. ASSUME JsonWrite(t) PROVE json' = [json EXCEPT ![NewVersion(t)] = NewMeta(t)]
  <2>1. CASE NewVersion(t) \in Versions
    <3>1. json[NewVersion(t)] = Torn
      BY <1>2, <1>4, <2>1 DEF JsonWrite, SequentialThread, Pending
    <3> QED BY <1>1, <1>4, <3>1, WriteSteps
  <2>2. CASE NewVersion(t) \notin Versions
    BY <1>2, <1>4, <2>2 DEF JsonWrite
  <2> QED BY <2>1, <2>2
<1>5. ASSUME PrevWrite(t) PROVE json' = [json EXCEPT ![prev[t].version] = Updated(t)]
  <2>1. prev[t].version \in Versions
    BY <1>5 DEF PrevWrite, StoreInv, ThreadOK, UpdatingOK, Updating, ReadVersion
  <2>2. DOMAIN Saved(t) = Versions
    BY <1>2 DEF Saved
  <2>3. json[prev[t].version] = Torn
    BY <1>5, <2>1, <2>2 DEF PrevWrite, SequentialThread, Pending
  <2> QED BY <1>1, <1>5, <2>3, WriteSteps
<1> QED BY <1>3, <1>4, <1>5

\* With an idle store, the version a reader finds is the newest settled one.
LEMMA ReadsTop ==
    ASSUME StoreInv, SettledOK, json = settled, NEW v \in Latest
    PROVE  /\ v \in Versions /\ v \in Nat /\ v # 0
           /\ settled[v] \in Metadata /\ settled[v] # Absent
           /\ \A w \in Versions : w > v => settled[w] = Absent
           /\ Latest = {v}
<1>1. /\ v \in Versions /\ Readable(v) /\ json[v] \in Metadata /\ json[v] # Absent
      /\ \A w \in Versions : Readable(w) => w <= v
  BY LatestFacts DEF StoreInv, Latest
<1>2. v \in Nat /\ v # 0 /\ \A w \in Versions : w \in Nat
  BY <1>1, RaceBounds DEF Versions
<1>3. \A w \in Versions : settled[w] # Absent => Readable(w)
  BY MarkerFacts DEF SettledOK, Readable, Markers
<1>4. \A w \in Versions : w > v => settled[w] = Absent
  BY <1>1, <1>2, <1>3
<1>5. ASSUME NEW w \in Latest PROVE w = v
  <2>1. w \in Versions /\ w <= v /\ v <= w
    BY <1>1, <1>5 DEF Latest
  <2> QED BY <1>2, <2>1
<1> QED BY <1>1, <1>2, <1>4, <1>5

LEMMA SequentialStep ==
    ASSUME StoreInv, StoreInv', FirstCall, SettledOK, ~raced => Sequential,
           NEW t \in Threads, ToolStep(t), ~raced'
    PROVE  Sequential'
<1> USE DEF StoreInv, Saving, Updating
<1>0. /\ ~raced /\ Sequential
      /\ \A u \in Threads : u # t => pc[u] = "idle" /\ pc'[u] = "idle"
  BY OnlyOneMoves
<1>1. /\ SequentialThread(t) /\ SettledText /\ ThreadOK(t) /\ TypeOK
      /\ t \in DOMAIN pc /\ t \in DOMAIN op /\ t \in DOMAIN prev /\ t \in DOMAIN text
  BY <1>0 DEF Sequential, TypeOK
<1>2. pc[t] = "idle" => json = settled
  BY <1>0 DEF Sequential
<1>3. SUFFICES /\ SettledText' /\ SequentialThread(t)'
               /\ pc'[t] = "idle" => json' = settled'
  BY <1>0, SequentialFrame
<1>4. CASE CallGenerate(t)
  <2>1. /\ pc'[t] = "md_open" /\ op'[t] = "generate" /\ prev'[t] = NoPrev /\ text'[t] = NoChange
        /\ json' = json /\ settled' = settled /\ md' = md /\ json = settled /\ ops = 0
    BY <1>1, <1>2, <1>4 DEF CallGenerate
  <2>2. AtTop(t)'
    BY <2>1 DEF AtTop, NoPrev, FirstCall
  <2>3. Pending(t)' = settled'
    BY <2>1 DEF Pending
  <2>4. NoChange \in Texts
    BY DEF NoChange, Texts
  <2> QED BY <1>1, <2>1, <2>2, <2>3, <2>4 DEF SettledText, SequentialThread, DocumentSaved, NoPrev, Extends
<1>5. CASE CallStatusTool(t)
  <2>1. PICK v \in Latest, tool \in StatusTools :
            /\ op' = [op EXCEPT ![t] = tool]
            /\ prev' = [prev EXCEPT ![t] = [version |-> v, meta |-> json[v]]]
    BY <1>5 DEF CallStatusTool, StatusTools
  <2>2. /\ pc'[t] = "prev_open" /\ op'[t] \in StatusTools
        /\ prev'[t].version = v /\ prev'[t].meta = json[v]
        /\ json' = json /\ settled' = settled /\ md' = md /\ json = settled
    BY <1>1, <1>2, <1>5, <2>1 DEF CallStatusTool
  <2>3. AtTop(t)'
    BY <2>2, ReadsTop DEF AtTop
  <2>4. Pending(t)' = settled' /\ ~DocumentSaved(t)'
    BY <2>2 DEF Pending, Saved, DocumentSaved, StatusTools
  <2> QED BY <1>1, <2>2, <2>3, <2>4 DEF SettledText, SequentialThread, Extends
<1>6. CASE CallRevise(t)
  <2>0. PICK v \in Latest : \E c \in RevisedTexts(v) : text' = [text EXCEPT ![t] = c]
    BY <1>6 DEF CallRevise
  <2>1. PICK c \in RevisedTexts(v) : text' = [text EXCEPT ![t] = c]
    BY <2>0
  <2>2. /\ pc'[t] = "revise_read" /\ text'[t] = c
        /\ json' = json /\ settled' = settled /\ md' = md /\ json = settled
    BY <1>1, <1>2, <1>6, <2>1 DEF CallRevise
  <2>3. v \in Versions /\ v \in Nat /\ settled[v] # Absent /\ Latest = {v} /\ v # 0
    BY <2>2, ReadsTop
  <2>4. md[v] \in Texts
    BY <1>1, <2>3 DEF SettledText, Extends
  <2>5. Extends(text[t], v)'
    <3>1. ReadContent(v) = md[v].changes
      BY <2>4, MarkerFacts DEF ReadContent, Markers
    <3> QED BY <1>1, <2>2, <2>3, <3>1, RevisedFacts DEF Extends
  <2>6. Latest' = Latest
    BY <2>2 DEF Latest, Readable
  <2>7. Pending(t)' = settled' /\ ~DocumentSaved(t)'
    BY <2>2 DEF Pending, DocumentSaved
  <2> QED BY <1>1, <2>2, <2>3, <2>5, <2>6, <2>7 DEF SettledText, SequentialThread, Extends
<1>7. CASE ReviseRead(t)
  <2>1. /\ json' = json /\ settled' = settled /\ md' = md /\ text' = text /\ json = settled
        /\ pc[t] = "revise_read"
    BY <1>1, <1>7 DEF ReviseRead, SequentialThread, Pending
  <2>2. CASE Latest = {}
    <3>1. pc'[t] = "idle"
      BY <1>1, <1>7, <2>2 DEF ReviseRead
    <3> QED BY <1>1, <2>1, <3>1 DEF SettledText, SequentialThread, DocumentSaved, Extends
  <2>3. CASE Latest # {}
    <3>1. PICK v \in Latest : /\ v < MaxVersion
                              /\ prev' = [prev EXCEPT ![t] = [version |-> v, meta |-> json[v]]]
                              /\ pc' = [pc EXCEPT ![t] = "md_open"]
      BY <1>7, <2>3 DEF ReviseRead
    <3>2. pc'[t] = "md_open" /\ prev'[t].version = v /\ prev'[t].meta = json[v]
      BY <1>1, <3>1
    <3>3. AtTop(t)'
      BY <2>1, <3>2, ReadsTop DEF AtTop
    <3>4. Extends(text[t], v)'
      BY <1>1, <2>1 DEF SequentialThread, Extends
    <3>5. Pending(t)' = settled' /\ ~DocumentSaved(t)'
      BY <3>2 DEF Pending, DocumentSaved
    <3> QED BY <1>1, <2>1, <3>2, <3>3, <3>4, <3>5 DEF SettledText, SequentialThread, Extends
  <2> QED BY <2>2, <2>3
<1>8. CASE MdOpen(t)
  <2>1. /\ pc[t] = "md_open" /\ pc'[t] = "md_write" /\ op' = op /\ prev' = prev /\ text' = text
        /\ json' = json /\ settled' = settled /\ json = settled
        /\ md' = [md EXCEPT ![NewVersion(t)] = Torn]
    BY <1>1, <1>8 DEF MdOpen, SequentialThread, Pending
  <2>2. AtTop(t)' /\ AtTop(t)
    BY <1>1, <2>1 DEF SequentialThread, AtTop
  <2>3. Pending(t)' = settled' /\ ~DocumentSaved(t)'
    BY <2>1 DEF Pending, DocumentSaved
  <2>4. SettledText' /\ Extends(text[t], prev[t].version)'
    <3>1. /\ \A w \in Versions : w >= NewVersion(t) => settled[w] = Absent
          /\ prev[t].version # NewVersion(t)
      BY <1>1, <2>2, RaceBounds DEF AtTop, NewVersion, TypeOK, Versions
    <3>2. \A w : w # NewVersion(t) => md'[w] = md[w]
      BY <2>1
    <3>3. \A v \in Versions : settled[v] # Absent => v # NewVersion(t) /\ v - 1 # NewVersion(t)
      BY <1>1, <3>1, RaceBounds DEF NewVersion, TypeOK, Versions
    <3>4. SettledText'
      BY <1>1, <2>1, <3>2, <3>3 DEF SettledText, Extends
    <3>5. Extends(text[t], prev[t].version)'
      BY <1>1, <2>1, <3>1, <3>2 DEF SequentialThread, Extends
    <3> QED BY <3>4, <3>5
  <2>5. (NewVersion(t) \in Versions => md[NewVersion(t)] = Torn)'
    BY <1>1, <2>1 DEF NewVersion, TypeOK
  <2> QED BY <1>1, <2>1, <2>2, <2>3, <2>4, <2>5 DEF SequentialThread
<1>9. CASE MdWrite(t)
  <2>1. /\ pc[t] = "md_write" /\ pc'[t] = "json_open" /\ op' = op /\ prev' = prev /\ text' = text
        /\ json' = json /\ settled' = settled /\ json = settled
        /\ md' = [md EXCEPT ![NewVersion(t)] = text[t]]
    BY <1>0, <1>1, <1>9, WritesAlone DEF MdWrite, SequentialThread, Pending
  <2>2. AtTop(t)' /\ AtTop(t) /\ Extends(text[t], prev[t].version) /\ NewVersion(t)' = NewVersion(t)
    BY <1>1, <2>1 DEF SequentialThread, AtTop, NewVersion
  <2>3. Pending(t)' = settled'
    BY <2>1 DEF Pending
  <2>4. SettledText' /\ Extends(text[t], prev[t].version)'
    <3>1. /\ \A w \in Versions : w >= NewVersion(t) => settled[w] = Absent
          /\ prev[t].version # NewVersion(t)
      BY <1>1, <2>2, RaceBounds DEF AtTop, NewVersion, TypeOK, Versions
    <3>2. \A w : w # NewVersion(t) => md'[w] = md[w]
      BY <2>1
    <3>3. \A v \in Versions : settled[v] # Absent => v # NewVersion(t) /\ v - 1 # NewVersion(t)
      BY <1>1, <3>1, RaceBounds DEF NewVersion, TypeOK, Versions
    <3>4. SettledText'
      BY <1>1, <2>1, <3>2, <3>3 DEF SettledText, Extends
    <3>5. Extends(text[t], prev[t].version)'
      BY <1>1, <2>1, <2>2, <3>1, <3>2 DEF Extends
    <3> QED BY <3>4, <3>5
  <2>5. NewVersion(t) \in Versions => md'[NewVersion(t)] = text'[t]
    BY <1>1, <2>1, <2>2 DEF TypeOK
  <2>6. (NewVersion(t) \in Versions => Extends(md[NewVersion(t)], prev[t].version))'
    BY <2>1, <2>2, <2>4, <2>5 DEF Extends
  <2> QED BY <1>1, <2>1, <2>2, <2>3, <2>4, <2>6 DEF SequentialThread
<1>10. CASE JsonOpen(t)
  <2>1. /\ pc[t] = "json_open" /\ pc'[t] = "json_write" /\ op' = op /\ prev' = prev /\ text' = text
        /\ md' = md /\ settled' = settled /\ json = settled
        /\ json' = [json EXCEPT ![NewVersion(t)] = Torn]
    BY <1>1, <1>10 DEF JsonOpen, SequentialThread, Pending
  <2>2. AtTop(t)' /\ NewVersion(t)' = NewVersion(t)
    BY <1>1, <2>1 DEF SequentialThread, AtTop, NewVersion
  <2>3. Pending(t)' = json'
    BY <2>1, <2>2 DEF Pending
  <2>4. DocumentSaved(t)
    BY <2>1 DEF DocumentSaved
  <2> QED BY <1>1, <2>1, <2>2, <2>3, <2>4 DEF SequentialThread, SettledText, Extends
<1>11. CASE JsonWrite(t) /\ op[t] = "generate"
  <2>1. /\ pc[t] = "json_write" /\ pc'[t] = "idle" /\ op' = op /\ prev' = prev /\ md' = md
        /\ json' = [json EXCEPT ![NewVersion(t)] = NewMeta(t)]
        /\ json = [settled EXCEPT ![NewVersion(t)] = Torn]
        /\ settled' = json'
    BY <1>0, <1>1, <1>11, WritesAlone DEF JsonWrite, Settle, SequentialThread, Pending
  <2>2. NewVersion(t) \in Versions => Extends(md[NewVersion(t)], NewVersion(t) - 1)
    BY <1>1, <2>1 DEF SequentialThread, DocumentSaved, NewVersion, TypeOK
  <2>3. SettledText'
    <3>1. \A v \in Versions : v # NewVersion(t) => settled'[v] = settled[v]
      BY <1>1, <2>1 DEF TypeOK
    <3> QED BY <1>1, <2>1, <2>2, <3>1 DEF SettledText, Extends
  <2> QED BY <2>1, <2>3 DEF SequentialThread, DocumentSaved
<1>12. CASE JsonWrite(t) /\ op[t] # "generate"
  <2>1. /\ pc[t] = "json_write" /\ pc'[t] = "prev_open" /\ op' = op /\ prev' = prev /\ md' = md
        /\ json' = [json EXCEPT ![NewVersion(t)] = NewMeta(t)]
        /\ json = [settled EXCEPT ![NewVersion(t)] = Torn]
        /\ settled' = settled /\ op[t] = "revise"
    BY <1>0, <1>1, <1>12, WritesAlone DEF JsonWrite, SequentialThread, Pending, ThreadOK, SavingOK
  <2>2. AtTop(t)' /\ NewVersion(t)' = NewVersion(t) /\ NewMeta(t)' = NewMeta(t)
    BY <1>1, <2>1 DEF SequentialThread, AtTop, NewVersion, NewMeta
  <2>3. json' = [settled EXCEPT ![NewVersion(t)] = NewMeta(t)]
    BY <1>1, <2>1 DEF TypeOK
  <2>4. Pending(t)' = json'
    BY <2>1, <2>2, <2>3 DEF Pending, Saved
  <2>5. NewVersion(t) \in Versions => Extends(md[NewVersion(t)], prev[t].version)
    BY <1>1, <2>1 DEF SequentialThread, DocumentSaved
  <2> QED BY <1>1, <2>1, <2>2, <2>4, <2>5 DEF SequentialThread, SettledText, Extends
<1>13. CASE PrevOpen(t)
  <2>1. /\ pc[t] = "prev_open" /\ pc'[t] = "prev_write" /\ op' = op /\ prev' = prev /\ md' = md
        /\ json' = [json EXCEPT ![prev[t].version] = Torn]
        /\ json = Saved(t) /\ settled' = settled
    BY <1>1, <1>13 DEF PrevOpen, SequentialThread, Pending
  <2>2. AtTop(t)' /\ NewVersion(t)' = NewVersion(t) /\ NewMeta(t)' = NewMeta(t)
    BY <1>1, <2>1 DEF SequentialThread, AtTop, NewVersion, NewMeta
  <2>3. Saved(t)' = Saved(t)
    BY <2>1, <2>2 DEF Saved
  <2>4. Pending(t)' = json'
    BY <2>1, <2>3 DEF Pending
  <2>5. DocumentSaved(t)' = DocumentSaved(t)
    BY <2>1 DEF DocumentSaved
  <2> QED BY <1>1, <2>1, <2>2, <2>4, <2>5 DEF SequentialThread, SettledText, Extends
<1>14. CASE PrevWrite(t)
  <2>1. /\ pc[t] = "prev_write" /\ pc'[t] = "idle" /\ md' = md
        /\ json' = [json EXCEPT ![prev[t].version] = Updated(t)]
        /\ json = [Saved(t) EXCEPT ![prev[t].version] = Torn]
        /\ settled' = json'
    BY <1>0, <1>1, <1>14, WritesAlone DEF PrevWrite, Settle, SequentialThread, Pending
  <2>2. /\ prev[t].version \in Versions /\ prev[t].meta \in Metadata
        /\ settled[prev[t].version] = prev[t].meta /\ prev[t].version # 0
    BY <1>1, <2>1, RaceBounds DEF SequentialThread, AtTop, ThreadOK, UpdatingOK, ReadVersion, Versions
  <2>3. Extends(md[prev[t].version], prev[t].version - 1)
    BY <1>1, <2>2, MarkerFacts DEF SettledText
  <2>4. SettledText'
    <3>1. ASSUME NEW v \in Versions, v # prev[t].version
          PROVE  settled'[v] = Saved(t)[v]
      BY <1>1, <2>1, <3>1 DEF Saved, TypeOK
    <3>2. CASE op[t] = "revise"
      <4>1. NewVersion(t) \in Versions => Extends(md[NewVersion(t)], NewVersion(t) - 1)
        BY <1>1, <2>1, <3>2 DEF SequentialThread, DocumentSaved, NewVersion, TypeOK
      <4>2. \A v \in Versions : v # NewVersion(t) => Saved(t)[v] = settled[v]
        BY <1>1, <3>2 DEF Saved, TypeOK
      <4> QED BY <1>1, <2>1, <2>3, <3>1, <4>1, <4>2 DEF SettledText, Extends
    <3>3. CASE op[t] # "revise"
      BY <1>1, <2>1, <2>3, <3>1, <3>3 DEF SettledText, Saved, Extends
    <3> QED BY <3>2, <3>3
  <2> QED BY <2>1, <2>4 DEF SequentialThread, DocumentSaved
<1> QED BY <1>4, <1>5, <1>6, <1>7, <1>8, <1>9, <1>10, <1>11, <1>12, <1>13, <1>14 DEF ToolStep

\* The settled files change when a tool ends, by what that tool did to them.
GenerateEnds(t) ==
    /\ pc[t] = "json_write" /\ op[t] = "generate"
    /\ settled' = [settled EXCEPT ![NewVersion(t)] = NewMeta(t)]

UpdateEnds(t) ==
    /\ pc[t] = "prev_write"
    /\ settled' = [Saved(t) EXCEPT ![prev[t].version] = Updated(t)]

LEMMA SettleShape ==
    ASSUME StoreInv, SeqInv, NEW t \in Threads, ToolStep(t), settled' # settled
    PROVE  ~raced /\ Sequential /\ (GenerateEnds(t) \/ UpdateEnds(t))
<1>1. \/ JsonWrite(t) /\ op[t] = "generate" /\ Settle
      \/ PrevWrite(t)
  BY DEF ToolStep, CallGenerate, CallStatusTool, CallRevise, ReviseRead,
     MdOpen, MdWrite, JsonOpen, JsonWrite, PrevOpen, PrevWrite
<1>2. ~raced /\ settled' = json'
  BY <1>1 DEF PrevWrite, Settle
<1>3. /\ Sequential /\ SequentialThread(t) /\ SettledOK
      /\ \A u \in Threads : u # t => pc[u] = "idle"
  <2>1. Sequential /\ SequentialThread(t) /\ SettledOK
    BY <1>2 DEF SeqInv, Sequential
  <2>2. pc[t] # "idle"
    BY <1>1 DEF JsonWrite, PrevWrite
  <2> QED BY <2>1, <2>2 DEF Sequential, Alone
<1>4. CASE JsonWrite(t) /\ op[t] = "generate"
  <2>1. /\ pc[t] = "json_write"
        /\ json' = [json EXCEPT ![NewVersion(t)] = NewMeta(t)]
        /\ json = [settled EXCEPT ![NewVersion(t)] = Torn]
    BY <1>3, <1>4, WritesAlone DEF JsonWrite, SequentialThread, Pending
  <2>2. settled' = [settled EXCEPT ![NewVersion(t)] = NewMeta(t)]
    BY <1>2, <2>1 DEF SeqInv, SettledOK
  <2> QED BY <1>2, <1>3, <1>4, <2>1, <2>2 DEF GenerateEnds
<1>5. CASE PrevWrite(t)
  <2>1. /\ pc[t] = "prev_write"
        /\ json' = [json EXCEPT ![prev[t].version] = Updated(t)]
        /\ json = [Saved(t) EXCEPT ![prev[t].version] = Torn]
    BY <1>3, <1>5, WritesAlone DEF PrevWrite, SequentialThread, Pending
  <2>2. Saved(t) = [v \in Versions |-> Saved(t)[v]]
    BY DEF SeqInv, SettledOK, Saved
  <2>3. settled' = [Saved(t) EXCEPT ![prev[t].version] = Updated(t)]
    BY <1>2, <2>1, <2>2
  <2> QED BY <1>2, <1>3, <2>1, <2>3 DEF UpdateEnds
<1> QED BY <1>1, <1>4, <1>5

\* The metadata a revision has saved before it rewrites the version it read.
LEMMA RevisionMeta ==
    ASSUME StoreInv, NEW t \in Threads, pc[t] \in Updating, op[t] = "revise"
    PROVE  /\ NewMeta(t) \in Metadata
           /\ NewMeta(t) = Lifecycle!build_metadata(prev[t].meta.project, prev[t].meta.upstream_refs,
                                                    prev[t].version)
<1>1. prev[t].meta \in Lifecycle!Metadata /\ prev[t].version \in Nat
  BY DEF StoreInv, ThreadOK, UpdatingOK, ReadVersion, Metadata, TypeOK
<1> QED BY <1>1 DEF NewMeta, Metadata, Lifecycle!Metadata, Lifecycle!build_metadata, Lifecycle!Status

LEMMA SeqInvariant == Spec => [](StoreInv /\ SeqInv)
<1>1. Init => SeqInv
  <2> SUFFICES ASSUME Init PROVE SeqInv
    OBVIOUS
  <2>1. FirstCall /\ SettledOK
    BY DEF Init, FirstCall, SettledOK
  <2>2. Sequential
    BY DEF Init, Sequential, Alone, SettledText, SequentialThread, DocumentSaved, Saving, Updating
  <2> QED BY <2>1, <2>2 DEF SeqInv
<1>2. ASSUME StoreInv, StoreInv', SeqInv, [Next]_vars
      PROVE  SeqInv'
  <2>1. FirstCall'
    <3>1. CASE UNCHANGED vars
      BY <1>2, <3>1 DEF SeqInv, FirstCall, vars
    <3>2. CASE Crash
      BY <1>2, <3>2 DEF SeqInv, FirstCall, Crash
    <3>3. ASSUME NEW t \in Threads, ToolStep(t)
          PROVE  ops' # 0
      <4>1. CASE pc[t] = "idle"
        BY <1>2, <3>3, <4>1 DEF StoreInv, TypeOK, ToolStep, CallGenerate, CallStatusTool, CallRevise,
           ReviseRead, MdOpen, MdWrite, JsonOpen, JsonWrite, PrevOpen, PrevWrite
      <4>2. CASE pc[t] # "idle"
        BY <1>2, <3>3, <4>2 DEF SeqInv, FirstCall, ToolStep, CallGenerate, CallStatusTool, CallRevise,
           ReviseRead, MdOpen, MdWrite, JsonOpen, JsonWrite, PrevOpen, PrevWrite
      <4> QED BY <4>1, <4>2
    <3> QED BY <1>2, <3>1, <3>2, <3>3 DEF Next, FirstCall
  <2>2. CASE UNCHANGED vars
    <3>1. Sequential => Sequential'
      BY <2>2 DEF vars, Sequential, Alone, SettledText, SequentialThread, DocumentSaved, NewVersion,
         AtTop, Latest, Readable, Pending, Saved, NewMeta, Extends
    <3> QED BY <1>2, <2>1, <2>2, <3>1 DEF vars, SeqInv, SettledOK
  <2>3. CASE Crash
    BY <1>2, <2>1, <2>3 DEF Crash, SeqInv, SettledOK
  <2>4. ASSUME NEW t \in Threads, ToolStep(t)
        PROVE  SeqInv'
    <3>1. ~raced' => Sequential'
      BY <1>2, <2>4, SequentialStep DEF SeqInv
    <3>2. SettledOK'
      <4>1. CASE settled' = settled
        BY <1>2, <4>1 DEF SeqInv, SettledOK
      <4>2. CASE settled' # settled
        <5>1. CASE GenerateEnds(t)
          <6>1. NewMeta(t) \in Metadata
            BY <1>2, <5>1, NewMetaFacts DEF GenerateEnds, StoreInv, ThreadOK, Saving
          <6> QED BY <1>2, <5>1, <6>1 DEF SeqInv, SettledOK, GenerateEnds
        <5>2. CASE UpdateEnds(t)
          <6>1. Updated(t) \in Metadata
            BY <1>2, <5>2, UpdatedFacts DEF UpdateEnds, StoreInv, ThreadOK, Updating
          <6>2. Saved(t) \in [Versions -> Metadata \union {Absent}]
            <7>1. CASE op[t] = "revise"
              <8>1. NewMeta(t) \in Metadata
                BY <1>2, <5>2, <7>1, RevisionMeta DEF UpdateEnds, Updating
              <8> QED BY <1>2, <7>1, <8>1 DEF SeqInv, SettledOK, Saved
            <7>2. CASE op[t] # "revise"
              BY <1>2, <7>2 DEF SeqInv, SettledOK, Saved
            <7> QED BY <7>1, <7>2
          <6> QED BY <5>2, <6>1, <6>2 DEF SettledOK, UpdateEnds
        <5> QED BY <1>2, <2>4, <4>2, <5>1, <5>2, SettleShape
      <4> QED BY <4>1, <4>2
    <3> QED BY <2>1, <3>1, <3>2 DEF SeqInv
  <2> QED BY <1>2, <2>2, <2>3, <2>4 DEF Next
<1> QED BY <1>1, <1>2, StoreInvariant, PTL DEF Spec

\* Until two tools overlap or the process crashes, every version has a document
\* that keeps the changes of the version before, unless the caller of revise
\* supplied it: revise_* reads the document that review_workflow.revise then
\* supersedes, and keeps it when the LLM fails.
THEOREM NoLostRevisionHolds == Spec => []NoLostRevision
<1>1. ASSUME StoreInv, SeqInv PROVE NoLostRevision
  <2> SUFFICES ASSUME ~raced, NEW v \in Versions, Readable(v)
               PROVE  Extends(md[v], v - 1)
    BY RaceBounds DEF NoLostRevision, Extends, Versions
  <2> USE <1>1 DEF StoreInv
  <2>0. Sequential /\ TypeOK
    BY DEF SeqInv
  <2>1. CASE \A t \in Threads : pc[t] = "idle"
    BY <2>0, <2>1 DEF Sequential, SettledText, Readable, Markers
  <2>2. ASSUME NEW t \in Threads, pc[t] # "idle"
        PROVE  Extends(md[v], v - 1)
    <3>1. SequentialThread(t) /\ json = Pending(t)
      BY <2>0, <2>2 DEF Sequential, SequentialThread
    <3>2. CASE json[v] = settled[v]
      BY <2>0, <3>2 DEF Sequential, SettledText, Readable, Markers
    <3>3. CASE json[v] # settled[v]
      <4>1. /\ pc[t] \in Updating /\ op[t] = "revise" /\ v = NewVersion(t)
        BY <2>0, <3>1, <3>3 DEF Pending, Saved, TypeOK, Readable, Updating, Markers
      <4>2. prev[t].version = v - 1
        BY <2>0, <4>1 DEF NewVersion, TypeOK
      <4> QED BY <3>1, <4>1, <4>2 DEF SequentialThread, DocumentSaved
    <3> QED BY <3>2, <3>3
  <2> QED BY <2>1, <2>2
<1> QED BY <1>1, SeqInvariant, PTL

-----------------------------------------------------------------------------
(* The refinement: before the first race or crash the tools are atomic *)

\* The files of the atomic specification.
Existing == {v \in Versions : settled[v] # Absent}

Files == [f \in {<<"artifact", v>> : v \in Existing} |-> settled[f[2]]]

LEMMA FilesFacts ==
    ASSUME NEW v \in Existing
    PROVE  <<"artifact", v>> \in DOMAIN Files /\ Files[<<"artifact", v>>] = settled[v]
BY DEF Files

\* As long as a version is free, the atomic store is below its bound as well.
LEMMA RoomForFile ==
    ASSUME NEW v \in Versions, v \notin Existing
    PROVE  Cardinality(DOMAIN Files) < MaxVersion
<1>1. /\ IsFiniteSet(Versions) /\ Cardinality(Versions) = MaxVersion
  <2>1. MaxVersion \in Int /\ 1 <= MaxVersion /\ 1 \in Int
    BY RaceBounds DEF Versions
  <2> QED BY <2>1, FS_Interval DEF Versions
<1>2. IsFiniteSet(Versions \ {v}) /\ Cardinality(Versions \ {v}) = MaxVersion - 1
  BY <1>1, FS_RemoveElement
<1>3. Existing \in SUBSET (Versions \ {v})
  BY DEF Existing
<1>4. IsFiniteSet(Existing) /\ Cardinality(Existing) <= MaxVersion - 1
  BY <1>2, <1>3, FS_Subset
<1> DEFINE number == [f \in DOMAIN Files |-> f[2]]
<1>5. number \in Injection(DOMAIN Files, Existing)
  BY DEF Files, Injection, IsInjective
<1>6. IsFiniteSet(DOMAIN Files) /\ Cardinality(DOMAIN Files) <= Cardinality(Existing)
  BY <1>4, <1>5, FS_Injection
<1>7. Cardinality(DOMAIN Files) \in Nat /\ Cardinality(Existing) \in Nat
  BY <1>4, <1>6, FS_CardinalityType
<1> QED BY <1>4, <1>6, <1>7, RaceBounds

\* get_latest_by_id of the atomic specification.
LEMMA LatestFile ==
    ASSUME NEW v \in Existing, \A w \in Versions : w > v => settled[w] = Absent
    PROVE  <<"artifact", v>> \in Lifecycle!get_latest_by_id("artifact")
<1>1. \A w \in Existing : w <= v
  BY RaceBounds DEF Existing, Versions
<1>2. \A g \in DOMAIN Files : g[2] \in Existing
  BY DEF Files
<1>3. <<"artifact", v>> \in DOMAIN Files
  BY FilesFacts
<1>4. Lifecycle!get_latest_by_id("artifact")
        = {f \in DOMAIN Files : /\ f[1] = "artifact"
                                /\ \A g \in DOMAIN Files : g[1] = "artifact" => g[2] <= f[2]}
  BY DEF Lifecycle!get_latest_by_id, Files, Existing
<1> QED BY <1>1, <1>2, <1>3, <1>4

\* Writing one settled file is Written of the atomic specification.
LEMMA WrittenFile ==
    ASSUME SettledOK, NEW v \in Versions, NEW m, m # Absent,
           settled' = [settled EXCEPT ![v] = m]
    PROVE  /\ Files' = [g \in DOMAIN Files \union {<<"artifact", v>>} |->
                           IF g = <<"artifact", v>> THEN m ELSE Files[g]]
           /\ Existing' = Existing \union {v}
<1>1. Existing' = Existing \union {v}
  BY DEF Existing, SettledOK
<1>2. DOMAIN Files' = DOMAIN Files \union {<<"artifact", v>>}
  BY <1>1 DEF Files
<1>3. ASSUME NEW g \in DOMAIN Files'
      PROVE  Files'[g] = IF g = <<"artifact", v>> THEN m ELSE Files[g]
  <2>1. PICK w \in Existing' : g = <<"artifact", w>>
    BY <1>3 DEF Files
  <2>2. Files'[g] = settled'[w]
    BY <2>1 DEF Files
  <2>3. CASE w = v
    BY <2>1, <2>2, <2>3 DEF SettledOK
  <2>4. CASE w # v
    <3>1. w \in Existing /\ w \in Versions /\ g # <<"artifact", v>>
      BY <1>1, <2>1, <2>4 DEF Existing
    <3> QED BY <2>1, <2>2, <2>4, <3>1, FilesFacts DEF SettledOK
  <2> QED BY <2>3, <2>4
<1>4. Files' = [g \in DOMAIN Files' |-> Files'[g]]
  BY DEF Files
<1> QED BY <1>1, <1>2, <1>3, <1>4

\* A review tool of the atomic specification is a step of its Next.
LEMMA ReviewToolIsNext ==
    ASSUME Lifecycle!ReviewTools("artifact") \/ Lifecycle!generate_safety_plan("artifact")
    PROVE  Lifecycle!Next
BY DEF Lifecycle!Next, Lifecycle!safety_plan_tools

LEMMA StatusToolRefines ==
    ASSUME StoreInv, SeqInv, NEW t \in Threads, ~raced, UpdateEnds(t), op[t] \in StatusTools
    PROVE  Lifecycle!Next
<1> DEFINE p == prev[t].version
           f == <<"artifact", p>>
<1>1. /\ AtTop(t) /\ p \in Versions /\ prev[t].meta \in Metadata /\ p \in Nat /\ p # 0
      /\ SettledOK
  BY RaceBounds DEF SeqInv, Sequential, SequentialThread, UpdateEnds, StoreInv, ThreadOK, UpdatingOK, ReadVersion,
     Updating, Versions
<1>2. settled[p] = prev[t].meta /\ settled[p] # Absent /\ p \in Existing
  BY <1>1, MarkerFacts DEF AtTop, Existing
<1>3. f \in Lifecycle!get_latest_by_id("artifact")
  BY <1>1, <1>2, LatestFile DEF AtTop
<1>4. f \in DOMAIN Files /\ Files[f] = settled[p]
  BY <1>2, FilesFacts
<1>5. Updated(t) # Absent
  BY UpdatedFacts, MarkerFacts DEF StoreInv, ThreadOK, Updating, UpdateEnds
<1>6. settled' = [settled EXCEPT ![p] = Updated(t)]
  BY DEF UpdateEnds, Saved, StatusTools
<1>7. Files' = [g \in DOMAIN Files \union {f} |-> IF g = f THEN Updated(t) ELSE Files[g]]
  BY <1>1, <1>5, <1>6, WrittenFile
<1> HIDE DEF f
<1>8. CASE op[t] = "request_review"
  <2>1. Updated(t) = Lifecycle!record_status_change(Files[f], "IN_REVIEW")
    BY <1>2, <1>4, <1>8 DEF Updated
  <2>2. Lifecycle!request_review("artifact")
    BY <1>3, <1>7, <2>1 DEF Lifecycle!request_review, Lifecycle!update_metadata, Lifecycle!Written,
       Files, Existing
  <2> QED BY <2>2, ReviewToolIsNext DEF Lifecycle!ReviewTools
<1>9. CASE op[t] = "request_changes"
  <2>1. Updated(t) = Lifecycle!record_status_change(Files[f], "DRAFT")
    BY <1>2, <1>4, <1>9 DEF Updated
  <2>2. Lifecycle!request_changes("artifact")
    BY <1>3, <1>7, <2>1 DEF Lifecycle!request_changes, Lifecycle!update_metadata, Lifecycle!Written,
       Files, Existing
  <2> QED BY <2>2, ReviewToolIsNext DEF Lifecycle!ReviewTools
<1>10. CASE op[t] = "approve"
  <2>1. Updated(t) = Lifecycle!record_status_change([Files[f] EXCEPT !.locked = TRUE], "APPROVED")
    BY <1>2, <1>4, <1>10 DEF Updated
  <2>2. Lifecycle!approve("artifact")
    BY <1>3, <1>7, <2>1 DEF Lifecycle!approve, Lifecycle!update_metadata, Lifecycle!Written,
       Files, Existing
  <2> QED BY <2>2, ReviewToolIsNext DEF Lifecycle!ReviewTools
<1> QED BY <1>8, <1>9, <1>10 DEF StatusTools

\* The instance counts with the same Cardinality.
LEMMA SameCardinality ==
    ASSUME NEW S
    PROVE  Lifecycle!Cardinality(S) = Cardinality(S)
BY DEF Lifecycle!Cardinality, Cardinality

LEMMA ReviseRefines ==
    ASSUME StoreInv, SeqInv, NEW t \in Threads, ~raced, UpdateEnds(t), op[t] = "revise"
    PROVE  Lifecycle!Next
<1> DEFINE p == prev[t].version
           f == <<"artifact", p>>
           n == <<"artifact", p + 1>>
<1>1. /\ AtTop(t) /\ p \in Versions /\ prev[t].meta \in Metadata /\ p \in Nat /\ p # 0
      /\ SettledOK
  BY RaceBounds DEF SeqInv, Sequential, SequentialThread, UpdateEnds, StoreInv, ThreadOK, UpdatingOK, ReadVersion,
     Updating, Versions
<1>2. settled[p] = prev[t].meta /\ settled[p] # Absent /\ p \in Existing
  BY <1>1, MarkerFacts DEF AtTop, Existing
<1>3. p + 1 \in Versions /\ NewVersion(t) = p + 1
  BY DEF NewVersion, UpdateEnds, StoreInv, ThreadOK, UpdatingOK, Updating, StatusTools
<1>4. p + 1 \notin Existing
  BY <1>1, <1>3 DEF AtTop, Existing
<1>5. f \in Lifecycle!get_latest_by_id("artifact")
  BY <1>1, <1>2, LatestFile DEF AtTop
<1>6. f \in DOMAIN Files /\ Files[f] = settled[p] /\ f[2] = p
  BY <1>2, FilesFacts
<1>7. Updated(t) = Lifecycle!Superseded(Files[f], p + 1)
  BY <1>2, <1>3, <1>6 DEF Updated
<1>8. NewMeta(t) = Lifecycle!build_metadata(Files[f].project, Files[f].upstream_refs, p)
  BY <1>2, <1>6, RevisionMeta DEF UpdateEnds, Updating
<1>9. Updated(t) # Absent /\ NewMeta(t) # Absent
  BY UpdatedFacts, RevisionMeta, MarkerFacts DEF StoreInv, ThreadOK, Updating, UpdateEnds
<1>10. settled' = [[settled EXCEPT ![p + 1] = NewMeta(t)] EXCEPT ![p] = Updated(t)]
  BY <1>3 DEF UpdateEnds, Saved
<1>11. Existing' = Existing \union {p + 1}
  BY <1>1, <1>2, <1>3, <1>9, <1>10 DEF Existing, SettledOK
<1>12. DOMAIN Files' = DOMAIN Files \union {n}
  BY <1>11 DEF Files
<1>13. ASSUME NEW g \in DOMAIN Files'
       PROVE  Files'[g] = IF g = f THEN Updated(t) ELSE IF g = n THEN NewMeta(t) ELSE Files[g]
  <2>1. PICK w \in Existing' : g = <<"artifact", w>>
    BY <1>13 DEF Files
  <2>2. Files'[g] = settled'[w]
    BY <2>1 DEF Files
  <2>3. CASE w = p
    BY <1>1, <1>10, <2>1, <2>2, <2>3 DEF SettledOK
  <2>4. CASE w = p + 1
    BY <1>1, <1>3, <1>10, <2>1, <2>2, <2>4 DEF SettledOK
  <2>5. CASE w # p /\ w # p + 1
    <3>1. w \in Existing /\ w \in Versions /\ g # f /\ g # n
      BY <1>11, <2>1, <2>5 DEF Existing
    <3> QED BY <1>1, <1>10, <2>1, <2>2, <2>5, <3>1, FilesFacts DEF SettledOK
  <2> QED BY <2>3, <2>4, <2>5
<1>14. Files' = [g \in DOMAIN Files \union {n} |->
                    IF g = f THEN Updated(t) ELSE IF g = n THEN NewMeta(t) ELSE Files[g]]
  <2>1. Files' = [g \in DOMAIN Files' |-> Files'[g]]
    BY DEF Files
  <2> QED BY <1>12, <1>13, <2>1
<1>15. Cardinality(DOMAIN Files) < MaxVersion
  BY <1>3, <1>4, RoomForFile
<1>16. n = <<"artifact", f[2] + 1>>
  BY <1>6
<1> HIDE DEF f, n
<1>17. Lifecycle!Cardinality(DOMAIN Files) < MaxVersion
  BY <1>15, SameCardinality
<1>18. Files' = [g \in DOMAIN Files \union {<<"artifact", f[2] + 1>>} |->
                    IF g = f THEN Lifecycle!Superseded(Files[f], f[2] + 1)
                    ELSE IF g = <<"artifact", f[2] + 1>>
                         THEN Lifecycle!build_metadata(Files[f].project, Files[f].upstream_refs, f[2])
                    ELSE Files[g]]
  BY <1>6, <1>7, <1>8, <1>14, <1>16
<1>19. Lifecycle!revise("artifact")
  BY <1>5, <1>17, <1>18 DEF Lifecycle!revise, Files, Existing
<1> QED BY <1>19, ReviewToolIsNext DEF Lifecycle!ReviewTools

LEMMA GenerateRefines ==
    ASSUME StoreInv, SeqInv, NEW t \in Threads, ~raced, GenerateEnds(t), settled' # settled
    PROVE  Lifecycle!Next
<1>1. prev[t] = NoPrev /\ AtTop(t) /\ SettledOK
  BY DEF SeqInv, Sequential, SequentialThread, GenerateEnds, StoreInv, ThreadOK, SavingOK, Saving
<1>2. NewVersion(t) = 1
  BY <1>1 DEF NewVersion, NoPrev
<1>3. NewMeta(t) = Lifecycle!build_metadata("project", {}, 0) /\ NewMeta(t) # Absent
  BY NewMetaFacts, MarkerFacts DEF NewMeta, GenerateEnds, StoreInv, ThreadOK, Saving
<1>4. 1 \in Versions
  BY <1>1, <1>2 DEF GenerateEnds, SettledOK
<1>5. Existing = {}
  BY <1>1, RaceBounds DEF Existing, AtTop, NoPrev, Versions
<1>6. DOMAIN Files = {}
  BY <1>5 DEF Files
<1>7. Files' = [g \in DOMAIN Files \union {<<"artifact", 1>>} |->
                   IF g = <<"artifact", 1>> THEN Lifecycle!build_metadata("project", {}, 0)
                   ELSE Files[g]]
  BY <1>1, <1>2, <1>3, <1>4, WrittenFile DEF GenerateEnds
<1>8. Cardinality(DOMAIN Files) < MaxVersion
  BY <1>4, <1>5, RoomForFile
<1>9. Lifecycle!Fresh("artifact")
  BY <1>6 DEF Lifecycle!Fresh, Files, Existing
<1>10. Lifecycle!MissingUpstream("project", {}) = {}
  BY DEF Lifecycle!MissingUpstream
<1>11. {} \in Lifecycle!resolve_upstream("project", {})
  BY DEF Lifecycle!resolve_upstream
<1>12. Lifecycle!make_upstream_refs(
           Lifecycle!KeptUpstream({}, Lifecycle!MissingUpstream("project", {}))) = {}
  BY <1>10 DEF Lifecycle!make_upstream_refs, Lifecycle!KeptUpstream
<1>13. Lifecycle!Cardinality(DOMAIN Files) < MaxVersion
  BY <1>8, SameCardinality
<1>14. Lifecycle!Generate("artifact", {})
  <2> SUFFICES \E p \in {"project"}, allow \in BOOLEAN : \E found \in Lifecycle!resolve_upstream(p, {}) :
                  /\ Lifecycle!Fresh("artifact") /\ Lifecycle!Cardinality(DOMAIN Files) < MaxVersion
                  /\ Lifecycle!MissingUpstream(p, {}) = {} \/ allow
                  /\ Files' = [g \in DOMAIN Files \union {<<"artifact", 1>>} |->
                         IF g = <<"artifact", 1>>
                         THEN Lifecycle!build_metadata(p,
                                 Lifecycle!make_upstream_refs(
                                     Lifecycle!KeptUpstream(found, Lifecycle!MissingUpstream(p, {}))), 0)
                         ELSE Files[g]]
    BY DEF Lifecycle!Generate, Lifecycle!save_artifact, Lifecycle!Written, Files, Existing
  <2> QED BY <1>7, <1>9, <1>10, <1>11, <1>12, <1>13
<1> QED BY <1>14, ReviewToolIsNext DEF Lifecycle!generate_safety_plan

\* Until two tools overlap or the process crashes, the tools' reads,
\* truncations and writes of their own files implement the atomic tools of the
\* lifecycle specification: whatever holds of review_workflow.py taken one
\* function at a time holds of the files when a tool ends.
THEOREM ImplementsLifecycleHolds == Spec => ImplementsLifecycle
<1>1. Init => Lifecycle!Init
  <2> SUFFICES ASSUME Init PROVE Lifecycle!Init
    OBVIOUS
  <2>1. {v \in Versions : settled[v] # Absent} = {}
    BY DEF Init
  <2> QED BY <2>1 DEF Lifecycle!Init
<1>2. StoreInv /\ SeqInv /\ [Next]_vars => [Lifecycle!Next]_(Lifecycle!vars)
  <2> SUFFICES ASSUME StoreInv, SeqInv, [Next]_vars, settled' # settled
               PROVE  Lifecycle!Next
    BY DEF Lifecycle!vars
  <2>1. PICK t \in Threads : ToolStep(t)
    BY DEF Next, vars, Crash
  <2>2. ~raced /\ (GenerateEnds(t) \/ UpdateEnds(t))
    BY <2>1, SettleShape
  <2>3. UpdateEnds(t) => op[t] \in StatusTools \union {"revise"}
    BY DEF UpdateEnds, StoreInv, ThreadOK, UpdatingOK, Updating
  <2> QED BY <2>2, <2>3, GenerateRefines, StatusToolRefines, ReviseRefines
<1> QED BY <1>1, <1>2, SeqInvariant, PTL DEF Spec, ImplementsLifecycle, Lifecycle!Spec
=============================================================================
