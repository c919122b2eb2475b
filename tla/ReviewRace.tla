----------------------------- MODULE ReviewRace -----------------------------
(***************************************************************************)
(* The review tools of one artifact at the grain of their file accesses.   *)
(* Each tool runs in a threadpool thread of its chat turn and nothing      *)
(* locks the store: a tool reads the latest metadata, and later rewrites   *)
(* whole files with open(path, "w"), which truncates them first.           *)
(* load_metadata skips a file it cannot parse, so a truncated version is   *)
(* invisible to readers.  Two handles that are open at a time write at     *)
(* positions of their own, so that what is left may be a mixture of both   *)
(* texts.  The process may crash between any two accesses.                 *)
(*                                                                         *)
(* A document's text is abstracted to the revisions whose change requests  *)
(* it contains, and to whether the caller of revise supplied it whole.     *)
(***************************************************************************)
EXTENDS Naturals, FiniteSets

CONSTANTS
    Threads,
    MaxVersion,  \* bound on the versions of the artifact
    MaxOps,      \* bound on the number of tool calls
    MaxCrashes,  \* bound on the number of crashes
    Absent,      \* stands for a file that does not exist
    Torn,        \* a file truncated by open(path, "w") and not yet written
    Mixed        \* a file with bytes of two writers, which is no JSON and no known text

Markers == {Absent, Torn, Mixed}

ASSUME RaceBounds ==
    /\ MaxVersion \in Nat /\ MaxOps \in Nat /\ MaxCrashes \in Nat
    /\ Absent \notin {Torn, Mixed} /\ Torn # Mixed

Versions == 1 .. MaxVersion

VARIABLES
    json,      \* json[v]: the metadata file of version v
    md,        \* md[v]: the document of version v
    pc,        \* pc[t]: the next access of thread t's tool
    op,        \* op[t]: the tool thread t runs
    prev,      \* prev[t]: version and metadata the workflow function read
    text,      \* text[t]: the text about to be saved
    ops,       \* tool calls so far
    crashes,   \* crashes so far
    raced,     \* history: two tools have overlapped, or the process crashed
    clashed,   \* history: a file was opened for writing while another thread had it open
    settled    \* history: json when the last tool ended before the first race

vars == <<json, md, pc, op, prev, text, ops, crashes, raced, clashed, settled>>

Lifecycle == INSTANCE SafetyLifecycle
                 WITH Artifacts <- {"artifact"},
                      Wp        <- [a \in {"artifact"} |-> "WP-SAFETYPLAN"],
                      Projects  <- {"project"},
                      MaxFiles  <- MaxVersion,
                      files     <- [f \in {<<"artifact", v>> : v \in {w \in Versions : settled[w] # Absent}}
                                      |-> settled[f[2]]]

Texts == [supplied : BOOLEAN, changes : SUBSET Nat]

NoChange == [supplied |-> FALSE, changes |-> {}]

\* The markers are neither metadata nor the text of a document.
ASSUME MarkerAssumption ==
    \A x \in Markers : x \notin Lifecycle!Metadata /\ x \notin Texts

Readable(v) == json[v] \notin Markers

\* get_latest_by_id over the files that load_metadata can parse.
Latest == {v \in Versions : Readable(v) /\ \A w \in Versions : Readable(w) => w <= v}

NoPrev == [version |-> 0, meta |-> Absent]

-----------------------------------------------------------------------------
(* A tool is called.  generate_* makes a new id, so it runs once per         *)
(* artifact; the other tools return "Artifact not found" without a file.     *)

NoteRace(t) ==
    /\ raced' = (raced \/ \E u \in Threads \ {t} : pc[u] # "idle")
    /\ UNCHANGED <<crashes, clashed>>

CallGenerate(t) ==
    /\ pc[t] = "idle" /\ ops = 0
    /\ op' = [op EXCEPT ![t] = "generate"]
    /\ prev' = [prev EXCEPT ![t] = NoPrev]
    /\ text' = [text EXCEPT ![t] = NoChange]
    /\ pc' = [pc EXCEPT ![t] = "md_open"]
    /\ ops' = ops + 1
    /\ NoteRace(t)
    /\ UNCHANGED <<json, md, settled>>

\* request_review, request_changes, approve: the latest metadata is read.
CallStatusTool(t) ==
    /\ pc[t] = "idle" /\ ops < MaxOps
    /\ \E v \in Latest, tool \in {"request_review", "request_changes", "approve"} :
           /\ op' = [op EXCEPT ![t] = tool]
           /\ prev' = [prev EXCEPT ![t] = [version |-> v, meta |-> json[v]]]
    /\ pc' = [pc EXCEPT ![t] = "prev_open"]
    /\ ops' = ops + 1
    /\ NoteRace(t)
    /\ UNCHANGED <<json, md, text, settled>>

\* Mutant of ReadContent: the document is never read.
ReadNothing(v) == {}

\* The changes that are known to be in the latest version's document.
ReadContent(v) == IF md[v] \in Markers THEN {} ELSE md[v].changes

\* revise_*: the caller supplies the revised document, or the LLM applies the
\* change requests to the text that was read; without change requests, or when
\* the LLM raises, that text is saved as it is.
RevisedTexts(v) ==
    {[supplied |-> TRUE, changes |-> {ops + 1}],
     [supplied |-> FALSE, changes |-> ReadContent(v) \union {ops + 1}],
     [supplied |-> FALSE, changes |-> ReadContent(v)]}

CallRevise(t) ==
    /\ pc[t] = "idle" /\ ops < MaxOps
    /\ \E v \in Latest : \E c \in RevisedTexts(v) : text' = [text EXCEPT ![t] = c]
    /\ op' = [op EXCEPT ![t] = "revise"]
    /\ pc' = [pc EXCEPT ![t] = "revise_read"]
    /\ ops' = ops + 1
    /\ NoteRace(t)
    /\ UNCHANGED <<json, md, prev, settled>>

\* Mutant of ReviseRead: the previous version is marked before the new one is saved.
ReviseMarksFirst(t) ==
    /\ pc[t] = "revise_read"
    /\ \E v \in Latest :
           /\ v < MaxVersion
           /\ prev' = [prev EXCEPT ![t] = [version |-> v, meta |-> json[v]]]
           /\ json' = [json EXCEPT ![v] = Lifecycle!Superseded(json[v], v + 1)]
    /\ pc' = [pc EXCEPT ![t] = "md_open"]
    /\ UNCHANGED <<md, op, text, ops, crashes, raced, clashed, settled>>

\* review_workflow.revise reads the latest version again, after the LLM call.
ReviseRead(t) ==
    /\ pc[t] = "revise_read"
    /\ IF Latest = {}
       THEN pc' = [pc EXCEPT ![t] = "idle"] /\ UNCHANGED prev
       ELSE \E v \in Latest :
               /\ v < MaxVersion
               /\ prev' = [prev EXCEPT ![t] = [version |-> v, meta |-> json[v]]]
               /\ pc' = [pc EXCEPT ![t] = "md_open"]
    /\ UNCHANGED <<json, md, op, text, ops, crashes, raced, clashed, settled>>

-----------------------------------------------------------------------------
(* save_artifact(new_meta, content) *)

\* Mutant of NewVersion: off by one.
SkippedVersion(t) == prev[t].version + (IF op[t] = "generate" THEN 1 ELSE 2)

NewVersion(t) == prev[t].version + 1

NewMeta(t) ==
    LET m == prev[t].meta IN
    IF op[t] = "generate"
    THEN Lifecycle!build_metadata("project", {}, 0)
    ELSE Lifecycle!build_metadata(m.project, m.upstream_refs, prev[t].version)

\* The threads that have the document, or the metadata, of version v open.
MdWriters(v) == {u \in Threads : pc[u] = "md_write" /\ NewVersion(u) = v}

JsonWriters(v) ==
    {u \in Threads : \/ pc[u] = "json_write" /\ NewVersion(u) = v
                     \/ pc[u] = "prev_write" /\ prev[u].version = v}

NoteClash(others) ==
    /\ clashed' = (clashed \/ others # {})
    /\ UNCHANGED <<crashes, raced>>

\* What a file is after a thread wrote to it: its text, unless the file is not
\* as empty as open left it or others, who may have written a part, have it open.
Written(file, content, others) ==
    IF file = Torn /\ others = {} THEN {content} ELSE {content, Mixed}

MdOpen(t) ==
    /\ pc[t] = "md_open"
    /\ md' = [md EXCEPT ![NewVersion(t)] = Torn]
    /\ pc' = [pc EXCEPT ![t] = "md_write"]
    /\ NoteClash(MdWriters(NewVersion(t)))
    /\ UNCHANGED <<json, op, prev, text, ops, settled>>

MdWrite(t) ==
    /\ pc[t] = "md_write"
    /\ LET v == NewVersion(t)
       IN  \E c \in Written(md[v], text[t], MdWriters(v) \ {t}) : md' = [md EXCEPT ![v] = c]
    /\ pc' = [pc EXCEPT ![t] = "json_open"]
    /\ UNCHANGED <<json, op, prev, text, ops, crashes, raced, clashed, settled>>

JsonOpen(t) ==
    /\ pc[t] = "json_open"
    /\ json' = [json EXCEPT ![NewVersion(t)] = Torn]
    /\ pc' = [pc EXCEPT ![t] = "json_write"]
    /\ NoteClash(JsonWriters(NewVersion(t)))
    /\ UNCHANGED <<md, op, prev, text, ops, settled>>

\* The history variable follows the files when a tool ends, until a race.
Settle == settled' = IF raced THEN settled ELSE json'

JsonWrite(t) ==
    /\ pc[t] = "json_write"
    /\ LET v == NewVersion(t)
       IN  \E c \in Written(json[v], NewMeta(t), JsonWriters(v) \ {t}) : json' = [json EXCEPT ![v] = c]
    /\ IF op[t] = "generate"
       THEN pc' = [pc EXCEPT ![t] = "idle"] /\ Settle
       ELSE pc' = [pc EXCEPT ![t] = "prev_open"] /\ UNCHANGED settled
    /\ UNCHANGED <<md, op, prev, text, ops, crashes, raced, clashed>>

(* update_metadata of the version that was read *)

\* Mutant of Updated: approve does not lock.
ApproveWithoutLock(t) ==
    LET m == prev[t].meta IN
    CASE op[t] = "request_review"  -> Lifecycle!record_status_change(m, "IN_REVIEW")
      [] op[t] = "request_changes" -> Lifecycle!record_status_change(m, "DRAFT")
      [] op[t] = "approve"         -> Lifecycle!record_status_change(m, "APPROVED")
      [] op[t] = "revise"          -> Lifecycle!Superseded(m, NewVersion(t))

Updated(t) ==
    LET m == prev[t].meta IN
    CASE op[t] = "request_review"  -> Lifecycle!record_status_change(m, "IN_REVIEW")
      [] op[t] = "request_changes" -> Lifecycle!record_status_change(m, "DRAFT")
      [] op[t] = "approve" ->
             Lifecycle!record_status_change([m EXCEPT !.locked = TRUE], "APPROVED")
      [] op[t] = "revise" -> Lifecycle!Superseded(m, NewVersion(t))

PrevOpen(t) ==
    /\ pc[t] = "prev_open"
    /\ json' = [json EXCEPT ![prev[t].version] = Torn]
    /\ pc' = [pc EXCEPT ![t] = "prev_write"]
    /\ NoteClash(JsonWriters(prev[t].version))
    /\ UNCHANGED <<md, op, prev, text, ops, settled>>

\* Mutant of PrevWrite: the rewritten metadata never reaches the file.
PrevWriteLost(t) ==
    /\ pc[t] = "prev_write"
    /\ pc' = [pc EXCEPT ![t] = "idle"]
    /\ UNCHANGED <<json, md, op, prev, text, ops, crashes, raced, clashed, settled>>

PrevWrite(t) ==
    /\ pc[t] = "prev_write"
    /\ LET v == prev[t].version
       IN  \E c \in Written(json[v], Updated(t), JsonWriters(v) \ {t}) : json' = [json EXCEPT ![v] = c]
    /\ pc' = [pc EXCEPT ![t] = "idle"]
    /\ Settle
    /\ UNCHANGED <<md, op, prev, text, ops, crashes, raced, clashed>>

-----------------------------------------------------------------------------

\* The process dies: every running tool is gone, the files stay as they are.
Crash ==
    /\ crashes < MaxCrashes
    /\ \E t \in Threads : pc[t] # "idle"
    /\ pc' = [t \in Threads |-> "idle"]
    /\ crashes' = crashes + 1
    /\ raced' = TRUE
    /\ UNCHANGED <<json, md, op, prev, text, ops, clashed, settled>>

Init ==
    /\ json = [v \in Versions |-> Absent]
    /\ md = [v \in Versions |-> Absent]
    /\ pc = [t \in Threads |-> "idle"]
    /\ op = [t \in Threads |-> "none"]
    /\ prev = [t \in Threads |-> NoPrev]
    /\ text = [t \in Threads |-> NoChange]
    /\ ops = 0
    /\ crashes = 0
    /\ raced = FALSE
    /\ clashed = FALSE
    /\ settled = [v \in Versions |-> Absent]

ToolStep(t) ==
    \/ CallGenerate(t) \/ CallStatusTool(t) \/ CallRevise(t) \/ ReviseRead(t)
    \/ MdOpen(t) \/ MdWrite(t) \/ JsonOpen(t) \/ JsonWrite(t)
    \/ PrevOpen(t) \/ PrevWrite(t)

Next == Crash \/ \E t \in Threads : ToolStep(t)

Spec == Init /\ [][Next]_vars

-----------------------------------------------------------------------------
(* Properties *)

\* Until two tools overlap or the process crashes, the file accesses implement
\* the atomic tools of SafetyLifecycle: the reads and truncations of a tool's
\* own files never show.
ImplementsLifecycle == Lifecycle!Spec

\* Until two tools overlap or the process crashes every version that readers
\* see has a document, and no change request is lost: the document contains the
\* changes of the version before, unless the caller of revise supplied it.
NoLostRevision ==
    ~raced => \A v \in Versions : Readable(v) =>
        /\ md[v] \in Texts
        /\ v > 1 => md[v].supplied \/ md[v - 1].changes \subseteq md[v].changes

\* Whatever races or crashes happen, revise saves the new version before it
\* marks the old one: a superseded version always has a successor file, a
\* document and the right forward link.
SupersededHasSuccessor ==
    \A v \in Versions :
        (Readable(v) /\ json[v].status = "SUPERSEDED") =>
            /\ json[v].superseded_by = v + 1
            /\ v + 1 \in Versions
            /\ json[v + 1] # Absent
            /\ md[v + 1] # Absent

\* Without a crash the store heals, whatever tools raced, unless two had one
\* file open at a time: when no tool is running, every file is readable and the
\* highest version is live.
LiveWhenQuiet ==
    (crashes = 0 /\ ~clashed /\ \A t \in Threads : pc[t] = "idle") =>
        /\ \A v \in Versions : json[v] \notin {Torn, Mixed} /\ md[v] \notin {Torn, Mixed}
        /\ \A v \in Latest : json[v].status # "SUPERSEDED"

\* Version numbers never have a gap, although a reader skips files that
\* other threads or a crash left truncated or mixed and may reuse their number.
NoVersionGap ==
    \A v \in Versions : json[v] # Absent =>
        /\ \A w \in 1 .. v : json[w] # Absent
        /\ Readable(v) => json[v].supersedes = v - 1
=============================================================================
