--------------------------- MODULE Ingest_proofs ---------------------------
(***************************************************************************)
(* Proofs about Ingest for any files, pages, exports and chunk sizes and   *)
(* any number of uploads, toggles and deletions.                           *)
(***************************************************************************)
EXTENDS Ingest, Integers, FiniteSetTheorems, TLAPS

\* Stages of a thread that reads the files of an upload, and of the event loop.
Working ==
    {"fetch", "reset_handlers", "hook_handlers", "get_handlers", "reset_splitter",
     "hook_splitter", "get_splitter", "split", "store"}

LoopStages == {"idle", "reset_handlers", "hook_handlers", "get_handlers"}

\* Chunk sizes.
Big == Nat \ {0}

Request ==
    [kind : {"file", "url", "memory"}, files : Seq(Files \union Urls \union Memories),
     size : Big \union {0}, status : {"none", "checked", "accepted", "refused", "error"},
     sure : BOOLEAN]

Task ==
    [i : Nat \ {0}, splitter : Splitters \union {NoSplitter}, rest : Nat, chunks : Seq(Big),
     k : Nat \ {0}, sure : BOOLEAN, own : BOOLEAN, page : BOOLEAN, missing : SUBSET Nat]

TypeOK ==
    /\ request \in [Uploads -> Request]
    /\ pc \in [Threads -> Working \union Ended \union {"memory"}]
    /\ pc[Loop] \in LoopStages
    /\ text_splitter \in Splitters \union {NoSplitter}
    /\ chunk_size \in [Splitters -> Big]
    /\ task \in [Uploads -> Task]
    /\ alone \in [Threads -> BOOLEAN]

\* What the stage of an upload implies: only accepted files and pages are read,
\* and a splitter is there when it is used.
UploadOK(u) ==
    /\ request[u].status \in {"none", "checked"} => pc[u] = "idle" /\ task[u] = NoTask
    /\ request[u].status = "checked" => request[u].kind = "file" /\ Len(request[u].files) > 0
    /\ request[u].kind # "memory" => request[u].files \in Seq(Files \union Urls)
    /\ pc[u] \in Working =>
          /\ request[u].status = "accepted" /\ request[u].kind # "memory"
          /\ task[u].i \in 1 .. Len(request[u].files)
    /\ pc[u] \in {"hook_splitter", "get_splitter"} => text_splitter \in Splitters
    /\ pc[u] = "split" => task[u].splitter \in Splitters

StageInv == TypeOK /\ \A u \in Uploads : UploadOK(u)

\* The files before the one at hand are done, and only those of accepted requests.
Done(u, i) == \A j \in 1 .. i - 1 : \E f \in finished : f.u = u /\ f.i = j

OrderInv ==
    /\ \A f \in finished : f.u \in Uploads /\ request[f.u].status = "accepted"
    /\ \A u \in Uploads : Done(u, task[u].i)
    /\ BatchInOrder

\* Thread u is the only one between the reset of the splitter and the split.
SplitsAlone(u) == pc[u] \in Splitting /\ alone[u]

SizeOf(u) == Limit(request[u].size)

AllChunks(u) == Kept(Length[File(u)], SizeOf(u))

\* The chunks of upload u so far: the size is that of the request if the thread is
\* alone, and what is cut and what is left make up the text.
SplitOK(u) ==
    /\ SplitsAlone(u) => \A v \in Uploads \ {u} : pc[v] \notin Splitting
    /\ SplitsAlone(u) /\ pc[u] \in {"hook_splitter", "get_splitter"} => chunk_size[text_splitter] = DefaultSize
    /\ pc[u] \in Working \ {"split", "store"} => task[u].chunks = << >>
    /\ pc[u] \in {"reset_splitter", "hook_splitter", "get_splitter"} /\ task[u].page =>
          task[u].rest = Length[File(u)]
    /\ SplitsAlone(u) /\ pc[u] = "split" =>
          /\ chunk_size[task[u].splitter] = SizeOf(u)
          /\ \A n \in DOMAIN task[u].chunks : task[u].chunks[n] = SizeOf(u)
          /\ task[u].page => Len(task[u].chunks) + Kept(task[u].rest, SizeOf(u)) = AllChunks(u)
    /\ pc[u] = "store" /\ task[u].own =>
          /\ \A n \in DOMAIN task[u].chunks : task[u].chunks[n] = SizeOf(u)
          /\ task[u].page => Len(task[u].chunks) = AllChunks(u)

\* The points that are or were in memory.
Stored == removed \union {p.id : p \in declarative}

\* The chunks before the one at hand are stored, apart from those that were left out.
StoredOK(u) ==
    /\ pc[u] \in Working \ {"store"} => task[u].k = 1
    /\ pc[u] \in Working =>
          \A n \in (1 .. task[u].k - 1) \ task[u].missing : <<u, task[u].i, n>> \in Stored

SplitInv ==
    /\ \A u \in Uploads : SplitOK(u) /\ StoredOK(u)
    /\ SplitAsAsked /\ FinishedIsComplete

\* The types that have a parser now.
Parsers == DefaultTypes \union (IF plugin_on THEN PluginTypes ELSE {})

\* Thread t is the only one that reloads the parsers.
ReloadsAlone(t) == pc[t] \in ReloadingHandlers /\ alone[t]

HandlersOK(t) ==
    ReloadsAlone(t) =>
        /\ \A o \in Threads \ {t} : pc[o] \notin ReloadingHandlers
        /\ pc[t] = "hook_handlers" => file_handlers = DefaultTypes
        /\ pc[t] = "get_handlers" /\ t \notin changed /\ t \notin missed => file_handlers = Parsers

\* The types of a request that was accepted have parsers until the plugin is toggled.
AcceptedOK(u) ==
    request[u].status = "accepted" /\ request[u].kind = "file" /\ u \notin changed =>
        \A i \in DOMAIN request[u].files : Type[request[u].files[i]] \in Parsers

HandlersInv ==
    /\ \A t \in Threads : HandlersOK(t)
    /\ pc[Loop] \in ReloadingHandlers => file_handlers \subseteq Parsers
    /\ DefaultTypes \subseteq file_handlers
    /\ changed \subseteq Uploads
    /\ \A u \in Uploads : AcceptedOK(u)
    /\ AcceptedIsParsed

-----------------------------------------------------------------------------
(* Arithmetic of chunks *)

\* A number smaller than the divisor.
LEMMA DivSmall ==
    ASSUME NEW s \in Nat \ {0}, NEW n \in Nat, n < s
    PROVE  n \div s = 0 /\ n % s = n
  OBVIOUS

\* Taking the divisor off a number.
LEMMA DivStep ==
    ASSUME NEW s \in Nat \ {0}, NEW n \in Nat, n >= s
    PROVE  (n - s) \div s = n \div s - 1 /\ (n - s) % s = n % s
  OBVIOUS

\* The number of chunks is a number.
LEMMA KeptNat ==
    ASSUME NEW s \in Big, NEW n \in Nat
    PROVE  Kept(n, s) \in Nat
<1>1. s \in Nat \ {0} /\ TooShort \in Nat
  BY IngestAssumption DEF Big
<1>2. n \div s \in Nat /\ n % s \in Nat
  BY <1>1
<1> QED
  BY <1>1, <1>2 DEF Kept

\* A text of which nothing is left has no chunk.
LEMMA KeptNothing ==
    ASSUME NEW s \in Big
    PROVE  Kept(0, s) = 0
<1>1. s \in Nat \ {0} /\ TooShort \in Nat
  BY IngestAssumption DEF Big
<1>2. 0 \div s = 0 /\ 0 % s = 0
  BY <1>1
<1> QED
  BY <1>1, <1>2 DEF Kept

\* Cutting a chunk off a text takes one off the chunks it has, if it is kept.
LEMMA KeptStep ==
    ASSUME NEW s \in Big, NEW n \in Nat, n > 0
    PROVE  LET cut == IF n < s THEN n ELSE s
           IN  /\ n - cut \in Nat
               /\ Kept(n, s) \in Nat /\ Kept(n - cut, s) \in Nat
               /\ Kept(n, s) = Kept(n - cut, s) + IF cut > TooShort THEN 1 ELSE 0
<1>1. s \in Nat \ {0} /\ TooShort \in Nat
  BY IngestAssumption DEF Big
<1>2. CASE n < s
  <2>1. 0 < s /\ 0 \in Nat /\ n - n = 0
    BY <1>1
  <2>2. n \div s = 0 /\ n % s = n
    BY <1>1, <1>2, DivSmall, Zenon
  <2>3. Kept(n, s) = IF n > TooShort THEN 1 ELSE 0
    BY <1>1, <2>2 DEF Kept
  <2>4. Kept(0, s) = 0
    BY KeptNothing
  <2> QED
    BY <1>1, <1>2, <2>1, <2>3, <2>4
<1>3. CASE n >= s
  <2>1. n - s \in Nat
    BY <1>1, <1>3
  <2>2. (n - s) \div s = n \div s - 1 /\ (n - s) % s = n % s
    BY <1>1, <1>3, <2>1, DivStep, Zenon
  <2>3. n \div s \in Nat /\ n % s \in Nat /\ Kept(n, s) \in Nat /\ Kept(n - s, s) \in Nat
    BY <1>1, <2>1, KeptNat
  <2>4. Kept(n, s) = Kept(n - s, s) + IF s > TooShort THEN 1 ELSE 0
    BY <1>1, <2>1, <2>2, <2>3 DEF Kept
  <2> QED
    BY <1>1, <1>3, <2>1, <2>3, <2>4
<1> QED
  BY <1>1, <1>2, <1>3

\* Sizes of requests are chunk sizes.
LEMMA SizeFacts ==
    /\ DefaultSize \in Big
    /\ \A n \in Big \union {0} : Limit(n) \in Big
    /\ \A n \in Sizes : n \in Big \union {0}
    /\ \A b \in Batches : b.size \in Big \union {0} /\ b.files \in Seq(Files) /\ Len(b.files) > 0
<1>1. DefaultSize \in Big
  BY IngestAssumption DEF Big
<1>2. \A n \in Sizes : n \in Big \union {0}
  BY IngestAssumption DEF Big
<1>3. \A b \in Batches : b.size \in Big \union {0} /\ b.files \in Seq(Files) /\ Len(b.files) > 0
  BY IngestAssumption DEF Big
<1> QED
  BY <1>1, <1>2, <1>3 DEF Limit

\* The event loop is no upload.
LEMMA ThreadFacts ==
    /\ Loop \notin Uploads /\ Uploads \subseteq Nat \ {0} /\ Loop \in Threads /\ Uploads \subseteq Threads
  BY IngestAssumption DEF Uploads, Threads

\* A task that has not begun.
LEMMA NoTaskFacts ==
    /\ NoTask \in Task /\ NoTask.i = 1 /\ NoTask.k = 1 /\ NoTask.chunks = << >> /\ NoTask.rest = 0
    /\ NoTask.page = TRUE /\ NoTask.missing = {} /\ NoTask.splitter = NoSplitter
<1>1. << >> \in Seq(Big)
  OBVIOUS
<1> QED
  BY <1>1 DEF NoTask, Task

-----------------------------------------------------------------------------
(* Splitter objects *)

\* There are more splitters than references to them.
LEMMA FreshFacts ==
    ASSUME NEW w \in Uploads
    PROVE  Fresh \in Splitters
<1> DEFINE Free(s) == s # text_splitter /\ \A v \in Uploads : s # task[v].splitter
<1>1. MaxUploads \in Nat /\ MaxUploads > 0 /\ Uploads = 1 .. MaxUploads
  BY IngestAssumption DEF Uploads
<1>2. \E s \in Splitters : Free(s)
  <2>1. SUFFICES ASSUME \A s \in Splitters : ~Free(s) PROVE FALSE
    OBVIOUS
  <2> DEFINE holder == [s \in Splitters |-> IF s = text_splitter THEN 0
                                            ELSE CHOOSE v \in Uploads : s = task[v].splitter]
             T == 0 .. MaxUploads
  <2>2. \A s \in Splitters : s # text_splitter => holder[s] \in Uploads /\ s = task[holder[s]].splitter
    BY <2>1
  <2>3. \A s \in Splitters : s = text_splitter => holder[s] = 0
    OBVIOUS
  <2>4. holder \in [Splitters -> T]
    BY <2>2, <2>3, <1>1
  <2>5. IsFiniteSet(T) /\ Cardinality(T) = MaxUploads + 1
    <3>1. 0 \in Int /\ MaxUploads \in Int /\ ~(0 > MaxUploads)
      BY <1>1
    <3> QED
      BY <3>1, <1>1, FS_Interval
  <2>6. IsFiniteSet(Splitters) /\ Cardinality(Splitters) = 2 * MaxUploads + 1
    <3> DEFINE n == 2 * MaxUploads + 1
    <3>1. 1 \in Int /\ n \in Int /\ ~(1 > n) /\ Splitters = 1 .. n
      BY <1>1 DEF Splitters
    <3>2. n = 2 * MaxUploads + 1
      OBVIOUS
    <3> HIDE DEF n
    <3> QED
      BY <3>1, <3>2, FS_Interval
  <2>7. Cardinality(T) < Cardinality(Splitters)
    BY <2>5, <2>6, <1>1
  <2> HIDE DEF holder, T
  <2>8. PICK x \in Splitters, y \in Splitters : x # y /\ holder[x] = holder[y]
    BY <2>4, <2>5, <2>6, <2>7, FS_PigeonHole
  <2> QED
    BY <2>2, <2>3, <2>8, <1>1
<1> QED
  BY <1>2 DEF Fresh

-----------------------------------------------------------------------------
(* What the steps of a thread change *)

Stages == Working \union Ended \union {"memory"}

\* Thread t goes to stage p.
Goes(t, p) ==
    /\ pc' \in [Threads -> Stages] /\ pc'[t] = p
    /\ \A o \in Threads \ {t} : pc'[o] = pc[o]

\* The task of upload u becomes x.
Becomes(u, x) ==
    /\ task' \in [Uploads -> Task] /\ task'[u] = x
    /\ \A v \in Uploads \ {u} : task'[v] = task[v]

\* One thread moves.
LEMMA AtFacts ==
    ASSUME StageInv, NEW t \in Threads, NEW p \in Stages, At(t, p)
    PROVE  Goes(t, p)
  BY DEF StageInv, TypeOK, At, Goes, Stages

\* One task changes.
LEMMA TaskFacts ==
    ASSUME StageInv, NEW u \in Uploads, NEW x \in Task, task' = [task EXCEPT ![u] = x]
    PROVE  Becomes(u, x)
  BY DEF StageInv, TypeOK, Becomes

\* The history variable, when thread t enters a section.
LEMMA EnterFacts ==
    ASSUME StageInv, NEW t \in Threads, NEW section, Enter(t, section)
    PROVE  /\ alone' \in [Threads -> BOOLEAN]
           /\ alone'[t] <=> \A o \in Threads \ {t} : pc[o] \notin section
           /\ \A o \in Threads \ {t} : alone'[o] <=> (alone[o] /\ pc[o] \notin section)
<1> DEFINE others == {o \in Threads \ {t} : pc[o] \in section}
<1>1. alone' = [o \in Threads |-> IF o = t THEN others = {} ELSE alone[o] /\ o \notin others]
  BY DEF Enter
<1>2. alone \in [Threads -> BOOLEAN]
  BY DEF StageInv, TypeOK
<1>3. alone' \in [Threads -> BOOLEAN]
  BY <1>1, <1>2
<1>4. alone'[t] <=> others = {}
  BY <1>1
<1>5. \A o \in Threads \ {t} : alone'[o] <=> (alone[o] /\ o \notin others)
  BY <1>1, <1>2
<1> QED
  BY <1>3, <1>4, <1>5

\* The stages are stages.
LEMMA StageFacts ==
    /\ Working \subseteq Stages /\ LoopStages \subseteq Stages /\ "memory" \in Stages
    /\ "idle" \in Stages /\ "failed" \in Stages /\ "no_parser" \in Stages
  BY DEF Stages, Working, LoopStages, Ended

\* The defaults are loaded.
LEMMA ResetHandlersFacts ==
    ASSUME StageInv, NEW t \in Threads, ResetHandlers(t)
    PROVE  /\ pc[t] = "reset_handlers" /\ Goes(t, "hook_handlers") /\ file_handlers' = DefaultTypes
           /\ alone' \in [Threads -> BOOLEAN]
           /\ alone'[t] <=> \A o \in Threads \ {t} : pc[o] \notin ReloadingHandlers
           /\ \A o \in Threads \ {t} : alone'[o] <=> (alone[o] /\ pc[o] \notin ReloadingHandlers)
           /\ UNCHANGED <<request, text_splitter, chunk_size, task, declarative, plugin_on, finished, removed, changed, missed>>
<1>1. "hook_handlers" \in Stages
  BY DEF Stages, Working
<1> QED
  BY <1>1, AtFacts, EnterFacts DEF ResetHandlers, bounds, At, Enter

\* The hooks add theirs.
LEMMA HookHandlersFacts ==
    ASSUME StageInv, NEW t \in Threads, HookHandlers(t)
    PROVE  /\ pc[t] = "hook_handlers" /\ Goes(t, "get_handlers")
           /\ \/ /\ file_handlers' = file_handlers \union (IF plugin_on THEN PluginTypes ELSE {})
                 /\ missed' = missed
              \/ file_handlers' = file_handlers /\ missed' = missed \union {t}
           /\ UNCHANGED <<request, text_splitter, chunk_size, task, declarative, plugin_on, finished, removed, alone, changed>>
<1>1. "get_handlers" \in Stages
  BY DEF Stages, Working
<1> QED
  BY <1>1, AtFacts DEF HookHandlers, bounds, At

\* A page is fetched.
LEMMA FetchFacts ==
    ASSUME StageInv, NEW u \in Uploads, Fetch(u)
    PROVE  /\ pc[u] = "fetch" /\ Goes(u, "reset_handlers")
           /\ \E x \in Task : /\ Becomes(u, x) /\ x.i = task[u].i /\ x.k = task[u].k
                              /\ x.chunks = task[u].chunks /\ x.missing = task[u].missing
           /\ UNCHANGED <<request, file_handlers, text_splitter, chunk_size, declarative, plugin_on,
                          finished, removed, alone, changed, missed>>
<1>1. PICK right \in BOOLEAN : task' = [task EXCEPT ![u].page = right]
  BY DEF Fetch
<1> DEFINE x == [task[u] EXCEPT !.page = right]
<1>2. task[u] \in Task /\ task \in [Uploads -> Task]
  BY DEF StageInv, TypeOK
<1>3. x \in Task /\ x.i = task[u].i /\ x.k = task[u].k /\ x.chunks = task[u].chunks /\ x.missing = task[u].missing
  BY <1>2 DEF Task
<1>4. task' = [task EXCEPT ![u] = x]
  BY <1>1, <1>2
<1> HIDE DEF x
<1>5. Becomes(u, x)
  BY <1>3, <1>4, TaskFacts
<1>6. "reset_handlers" \in Stages /\ u \in Threads
  BY ThreadFacts DEF Stages, Working
<1>7. Goes(u, "reset_handlers")
  BY <1>6, AtFacts DEF Fetch, At
<1> QED
  BY <1>3, <1>5, <1>7 DEF Fetch, hole, history

\* A parser is chosen and run.
LEMMA ParseFacts ==
    ASSUME StageInv, NEW u \in Uploads, Parse(u)
    PROVE  /\ pc[u] = "get_handlers"
           /\ Goes(u, IF task[u].page => Type[File(u)] \in file_handlers THEN "reset_splitter" ELSE "no_parser")
           /\ \E x \in Task : /\ Becomes(u, x) /\ x.i = task[u].i /\ x.k = task[u].k
                              /\ x.chunks = task[u].chunks /\ x.missing = task[u].missing
                              /\ (x.page <=> task[u].page) /\ (x.sure => alone[u] /\ u \notin missed)
                              /\ x.page => x.rest = Length[File(u)]
           /\ missed' = missed \ {u}
           /\ UNCHANGED <<request, file_handlers, text_splitter, chunk_size, declarative, plugin_on,
                          finished, removed, alone, changed>>
<1> DEFINE n == IF task[u].page THEN Length[File(u)] ELSE DefaultSize
           p == IF task[u].page => Type[File(u)] \in file_handlers THEN "reset_splitter" ELSE "no_parser"
           b == alone[u] /\ u \notin missed
           x == [task[u] EXCEPT !.rest = n, !.sure = b]
<1>1. pc[u] = "get_handlers" /\ task' = [task EXCEPT ![u].rest = n, ![u].sure = b] /\ At(u, p)
  BY DEF Parse
<1>2. task[u] \in Task /\ task \in [Uploads -> Task] /\ b \in BOOLEAN /\ u \in Threads
  BY ThreadFacts DEF StageInv, TypeOK
<1>3. n \in Nat
  <2>1. request[u].kind # "memory" /\ task[u].i \in 1 .. Len(request[u].files) /\ request[u].files \in Seq(Files \union Urls)
    BY <1>1 DEF StageInv, UploadOK, Working
  <2>2. File(u) \in Files \union Urls
    BY <2>1 DEF File
  <2> QED
    BY <2>2, IngestAssumption
<1>4. p \in Stages
  BY DEF Stages, Working, Ended
<1>5. n = IF task[u].page THEN Length[File(u)] ELSE DefaultSize
  OBVIOUS
<1>6. task' = [task EXCEPT ![u] = x]
  BY <1>1, <1>2
<1>11. b => alone[u] /\ u \notin missed
  OBVIOUS
<1> HIDE DEF n, b
<1>7. /\ x \in Task /\ x.i = task[u].i /\ x.k = task[u].k /\ x.chunks = task[u].chunks
      /\ x.missing = task[u].missing /\ (x.page <=> task[u].page) /\ x.sure = b /\ x.rest = n
  BY <1>2, <1>3 DEF Task
<1> HIDE DEF x
<1>8. Becomes(u, x)
  BY <1>6, <1>7, TaskFacts
<1>9. Goes(u, p)
  <2> HIDE DEF p
  <2> QED
    BY <1>1, <1>2, <1>4, AtFacts DEF At
<1>10. missed' = missed \ {u} /\ UNCHANGED <<request, file_handlers, text_splitter, chunk_size, declarative, plugin_on,
                   finished, removed, alone, changed>>
  BY DEF Parse, hole
<1> QED
  BY <1>1, <1>5, <1>7, <1>8, <1>9, <1>10, <1>11

\* A splitter object gets a size.
LEMMA SizeSet ==
    ASSUME StageInv, NEW sp \in Splitters, NEW n \in Big, chunk_size' = [chunk_size EXCEPT ![sp] = n]
    PROVE  chunk_size' \in [Splitters -> Big] /\ chunk_size'[sp] = n
  BY DEF StageInv, TypeOK

\* A new default splitter.
LEMMA ResetSplitterFacts ==
    ASSUME StageInv, NEW u \in Uploads, ResetSplitter(u)
    PROVE  /\ pc[u] = "reset_splitter" /\ Goes(u, "hook_splitter")
           /\ text_splitter' \in Splitters
           /\ chunk_size' \in [Splitters -> Big] /\ chunk_size'[text_splitter'] = DefaultSize
           /\ alone' \in [Threads -> BOOLEAN]
           /\ alone'[u] <=> \A o \in Threads \ {u} : pc[o] \notin Splitting
           /\ \A o \in Threads \ {u} : alone'[o] <=> (alone[o] /\ pc[o] \notin Splitting)
           /\ UNCHANGED <<request, file_handlers, task, declarative, plugin_on, finished, removed, changed, missed>>
<1>1. "hook_splitter" \in Stages /\ u \in Threads
  BY ThreadFacts DEF Stages, Working
<1>2. Fresh \in Splitters /\ DefaultSize \in Big
  BY FreshFacts, SizeFacts
<1>3. text_splitter' = Fresh /\ chunk_size' = [chunk_size EXCEPT ![Fresh] = DefaultSize]
  BY DEF ResetSplitter
<1>4. chunk_size' \in [Splitters -> Big] /\ chunk_size'[Fresh] = DefaultSize
  BY <1>2, <1>3, SizeSet
<1>5. Goes(u, "hook_splitter")
  BY <1>1, AtFacts DEF ResetSplitter, At
<1>6. /\ alone' \in [Threads -> BOOLEAN]
      /\ alone'[u] <=> \A o \in Threads \ {u} : pc[o] \notin Splitting
      /\ \A o \in Threads \ {u} : alone'[o] <=> (alone[o] /\ pc[o] \notin Splitting)
  <2>1. Enter(u, Splitting)
    BY DEF ResetSplitter
  <2> QED
    BY <1>1, <2>1, EnterFacts DEF Enter
<1>7. /\ pc[u] = "reset_splitter"
      /\ UNCHANGED <<request, file_handlers, task, declarative, plugin_on, finished, removed, changed, missed>>
  BY DEF ResetSplitter
<1> QED
  BY <1>2, <1>3, <1>4, <1>5, <1>6, <1>7

\* The copy that the hooks return.
LEMMA HookSplitterFacts ==
    ASSUME StageInv, NEW u \in Uploads, HookSplitter(u)
    PROVE  /\ pc[u] = "hook_splitter" /\ Goes(u, "get_splitter")
           /\ text_splitter' \in Splitters
           /\ chunk_size' \in [Splitters -> Big] /\ chunk_size'[text_splitter'] = chunk_size[text_splitter]
           /\ UNCHANGED <<request, file_handlers, task, declarative, plugin_on, finished, removed, alone, changed, missed>>
<1>1. "get_splitter" \in Stages /\ u \in Threads
  BY ThreadFacts DEF Stages, Working
<1>2. /\ pc[u] = "hook_splitter" /\ text_splitter' = Fresh
      /\ chunk_size' = [chunk_size EXCEPT ![Fresh] = chunk_size[text_splitter]]
      /\ UNCHANGED <<request, file_handlers, task, declarative, plugin_on, finished, removed, alone, changed, missed>>
  BY DEF HookSplitter, history
<1>3. Fresh \in Splitters /\ chunk_size[text_splitter] \in Big
  BY <1>2, FreshFacts DEF StageInv, TypeOK, UploadOK
<1>4. chunk_size' \in [Splitters -> Big] /\ chunk_size'[Fresh] = chunk_size[text_splitter]
  BY <1>2, <1>3, SizeSet
<1>5. Goes(u, "get_splitter")
  BY <1>1, AtFacts DEF HookSplitter, At
<1> QED
  BY <1>2, <1>3, <1>4, <1>5

\* The size of the request is set on the splitter.
LEMMA GetSplitterFacts ==
    ASSUME StageInv, NEW u \in Uploads, GetSplitter(u)
    PROVE  /\ pc[u] = "get_splitter" /\ Goes(u, "split")
           /\ chunk_size' \in [Splitters -> Big]
           /\ chunk_size'[text_splitter] = IF request[u].size = 0 THEN chunk_size[text_splitter] ELSE request[u].size
           /\ \E x \in Task : /\ Becomes(u, x) /\ x.i = task[u].i /\ x.k = task[u].k
                              /\ x.chunks = task[u].chunks /\ x.rest = task[u].rest /\ x.splitter = text_splitter
                              /\ x.missing = task[u].missing /\ (x.page <=> task[u].page)
           /\ UNCHANGED <<request, file_handlers, text_splitter, declarative, plugin_on, finished, removed, alone, changed, missed>>
<1> DEFINE x == [task[u] EXCEPT !.splitter = text_splitter]
<1>1. "split" \in Stages /\ u \in Threads
  BY ThreadFacts DEF Stages, Working
<1>2. /\ pc[u] = "get_splitter" /\ task' = [task EXCEPT ![u].splitter = text_splitter]
      /\ chunk_size' = IF request[u].size = 0 THEN chunk_size
                       ELSE [chunk_size EXCEPT ![text_splitter] = request[u].size]
      /\ UNCHANGED <<request, file_handlers, text_splitter, declarative, plugin_on, finished, removed, alone, changed, missed>>
  BY DEF GetSplitter, history
<1>3. task[u] \in Task /\ task \in [Uploads -> Task] /\ text_splitter \in Splitters /\ request[u] \in Request
  BY <1>2 DEF StageInv, TypeOK, UploadOK
<1>4. /\ chunk_size' \in [Splitters -> Big]
      /\ chunk_size'[text_splitter] = IF request[u].size = 0 THEN chunk_size[text_splitter] ELSE request[u].size
  <2>1. CASE request[u].size = 0
    BY <2>1, <1>2 DEF StageInv, TypeOK
  <2>2. CASE request[u].size # 0
    <3>1. request[u].size \in Big
      BY <2>2, <1>3 DEF Request
    <3> QED
      BY <2>2, <3>1, <1>2, <1>3, SizeSet
  <2> QED
    BY <2>1, <2>2
<1>5. /\ x \in Task /\ x.i = task[u].i /\ x.k = task[u].k
      /\ x.chunks = task[u].chunks /\ x.rest = task[u].rest /\ x.splitter = text_splitter
      /\ x.missing = task[u].missing /\ (x.page <=> task[u].page)
  BY <1>3 DEF Task
<1>6. task' = [task EXCEPT ![u] = x]
  BY <1>2, <1>3
<1> HIDE DEF x
<1>7. Becomes(u, x)
  BY <1>5, <1>6, TaskFacts
<1>8. Goes(u, "split")
  BY <1>1, AtFacts DEF GetSplitter, At
<1> QED
  BY <1>2, <1>4, <1>5, <1>7, <1>8

\* A chunk is cut off.
LEMMA CutChunkFacts ==
    ASSUME StageInv, NEW u \in Uploads, CutChunk(u)
    PROVE  LET size == chunk_size[task[u].splitter]
               cut == IF task[u].rest < size THEN task[u].rest ELSE size
           IN  /\ pc[u] = "split" /\ task[u].rest \in Nat /\ task[u].rest > 0 /\ size \in Big
               /\ \E x \in Task : /\ Becomes(u, x) /\ x.i = task[u].i /\ x.k = task[u].k
                                  /\ x.chunks = IF cut > TooShort THEN Append(task[u].chunks, size) ELSE task[u].chunks
                                  /\ x.rest = task[u].rest - cut /\ x.splitter = task[u].splitter
                                  /\ x.missing = task[u].missing /\ (x.page <=> task[u].page)
               /\ UNCHANGED <<request, pc, file_handlers, text_splitter, chunk_size, declarative, plugin_on,
                              finished, removed, alone, changed, missed>>
<1> DEFINE size == chunk_size[task[u].splitter]
           cut == IF task[u].rest < size THEN task[u].rest ELSE size
           n == task[u].rest - cut
           cs == IF cut > TooShort THEN Append(task[u].chunks, size) ELSE task[u].chunks
           x == [task[u] EXCEPT !.rest = n, !.chunks = cs]
<1>1. /\ pc[u] = "split" /\ task[u].rest > 0
      /\ task' = [task EXCEPT ![u].rest = n,
                              ![u].chunks = IF cut > TooShort THEN Append(@, size) ELSE @]
      /\ UNCHANGED <<request, pc, file_handlers, text_splitter, chunk_size, declarative, plugin_on,
                     finished, removed, alone, changed, missed>>
  BY DEF CutChunk, hole, history
<1>2. task[u] \in Task /\ task \in [Uploads -> Task] /\ task[u].splitter \in Splitters
  BY <1>1 DEF StageInv, TypeOK, UploadOK
<1>3. size \in Big /\ task[u].rest \in Nat /\ task[u].chunks \in Seq(Big)
  BY <1>2 DEF StageInv, TypeOK, Task
<1>4. n \in Nat /\ cs \in Seq(Big)
  BY <1>3 DEF Big
<1>5. task' = [task EXCEPT ![u] = x]
  BY <1>1, <1>2
<1>6. n = task[u].rest - cut /\ cs = IF cut > TooShort THEN Append(task[u].chunks, size) ELSE task[u].chunks
  OBVIOUS
<1> HIDE DEF n, cs
<1>7. /\ x \in Task /\ x.i = task[u].i /\ x.k = task[u].k
      /\ x.chunks = cs /\ x.rest = n /\ x.splitter = task[u].splitter
      /\ x.missing = task[u].missing /\ (x.page <=> task[u].page)
  BY <1>2, <1>4 DEF Task
<1> HIDE DEF x
<1>8. Becomes(u, x)
  BY <1>5, <1>7, TaskFacts
<1> QED
  BY <1>1, <1>3, <1>6, <1>7, <1>8

\* The text is split.
LEMMA SplitDoneFacts ==
    ASSUME StageInv, NEW u \in Uploads, SplitDone(u)
    PROVE  /\ pc[u] = "split" /\ task[u].rest = 0 /\ Goes(u, "store")
           /\ \E x \in Task : /\ Becomes(u, x) /\ x.i = task[u].i /\ x.k = task[u].k
                              /\ x.chunks = task[u].chunks /\ (x.own <=> alone[u])
                              /\ x.missing = task[u].missing /\ (x.page <=> task[u].page)
           /\ UNCHANGED <<request, file_handlers, text_splitter, chunk_size, declarative, plugin_on,
                          finished, removed, alone, changed, missed>>
<1> DEFINE x == [task[u] EXCEPT !.own = alone[u], !.splitter = NoSplitter]
<1>1. "store" \in Stages /\ u \in Threads
  BY ThreadFacts DEF Stages, Working
<1>2. /\ pc[u] = "split" /\ task[u].rest = 0
      /\ task' = [task EXCEPT ![u].own = alone[u], ![u].splitter = NoSplitter]
      /\ UNCHANGED <<request, file_handlers, text_splitter, chunk_size, declarative, plugin_on,
                     finished, removed, alone, changed, missed>>
  BY DEF SplitDone, hole, history
<1>3. task[u] \in Task /\ task \in [Uploads -> Task] /\ alone[u] \in BOOLEAN
  BY <1>1 DEF StageInv, TypeOK
<1>4. /\ x \in Task /\ x.i = task[u].i /\ x.k = task[u].k
      /\ x.chunks = task[u].chunks /\ (x.own <=> alone[u])
      /\ x.missing = task[u].missing /\ (x.page <=> task[u].page)
  BY <1>3 DEF Task
<1>5. task' = [task EXCEPT ![u] = x]
  BY <1>2, <1>3
<1> HIDE DEF x
<1>6. Becomes(u, x)
  BY <1>4, <1>5, TaskFacts
<1>7. Goes(u, "store")
  BY <1>1, AtFacts DEF SplitDone, At
<1> QED
  BY <1>2, <1>4, <1>6, <1>7

\* A chunk is stored, or left out.
LEMMA ChunkFacts ==
    ASSUME StageInv, NEW u \in Uploads, StoreChunk(u) \/ SkipChunk(u)
    PROVE  /\ pc[u] = "store" /\ task[u].k \in 1 .. Len(task[u].chunks)
           /\ \E x \in Task : /\ Becomes(u, x) /\ x.i = task[u].i /\ x.k = task[u].k + 1
                              /\ x.chunks = task[u].chunks /\ (x.own <=> task[u].own)
                              /\ (x.page <=> task[u].page)
                              /\ \/ declarative' = declarative \union {Point(u)} /\ x.missing = task[u].missing
                                 \/ declarative' = declarative /\ x.missing = task[u].missing \union {task[u].k}
           /\ UNCHANGED <<request, pc, file_handlers, text_splitter, chunk_size, plugin_on,
                          finished, removed, alone, changed, missed>>
<1>1. /\ pc[u] = "store" /\ task[u].k <= Len(task[u].chunks)
      /\ UNCHANGED <<request, pc, file_handlers, text_splitter, chunk_size, plugin_on, finished, removed, alone, changed, missed>>
  BY DEF StoreChunk, SkipChunk, hole, history
<1>2. task[u] \in Task /\ task \in [Uploads -> Task]
  BY DEF StageInv, TypeOK
<1>3. task[u].k \in Nat \ {0} /\ task[u].k + 1 \in Nat \ {0} /\ task[u].chunks \in Seq(Big)
  BY <1>2 DEF Task
<1>4. task[u].k \in 1 .. Len(task[u].chunks)
  BY <1>1, <1>3
<1>5. CASE StoreChunk(u)
  <2> DEFINE x == [task[u] EXCEPT !.k = task[u].k + 1]
  <2>1. declarative' = declarative \union {Point(u)} /\ task' = [task EXCEPT ![u].k = @ + 1]
    BY <1>5 DEF StoreChunk
  <2>2. task' = [task EXCEPT ![u] = x]
    BY <2>1, <1>2
  <2>3. /\ x \in Task /\ x.i = task[u].i /\ x.k = task[u].k + 1
        /\ x.chunks = task[u].chunks /\ (x.own <=> task[u].own)
        /\ (x.page <=> task[u].page) /\ x.missing = task[u].missing
    BY <1>2, <1>3 DEF Task
  <2> HIDE DEF x
  <2>4. Becomes(u, x)
    BY <2>2, <2>3, TaskFacts
  <2> QED
    BY <1>1, <1>4, <2>1, <2>3, <2>4
<1>6. CASE SkipChunk(u)
  <2> DEFINE x == [task[u] EXCEPT !.k = task[u].k + 1, !.missing = task[u].missing \union {task[u].k}]
  <2>1. declarative' = declarative /\ task' = [task EXCEPT ![u].k = @ + 1, ![u].missing = @ \union {task[u].k}]
    BY <1>6 DEF SkipChunk
  <2>2. task' = [task EXCEPT ![u] = x]
    BY <2>1, <1>2
  <2>3. /\ x \in Task /\ x.i = task[u].i /\ x.k = task[u].k + 1
        /\ x.chunks = task[u].chunks /\ (x.own <=> task[u].own)
        /\ (x.page <=> task[u].page) /\ x.missing = task[u].missing \union {task[u].k}
    BY <1>2, <1>3 DEF Task
  <2> HIDE DEF x
  <2>4. Becomes(u, x)
    BY <2>2, <2>3, TaskFacts
  <2> QED
    BY <1>1, <1>4, <2>1, <2>3, <2>4
<1> QED
  BY <1>5, <1>6

\* The record of a file that is reported as read.
Report(u) ==
    [u |-> u, i |-> task[u].i, n |-> Len(task[u].chunks), own |-> task[u].own,
     page |-> task[u].page, missing |-> task[u].missing]

\* A file is finished, and the next one of the request begins.
LEMMA FinishFileFacts ==
    ASSUME StageInv, NEW u \in Uploads, FinishFile(u)
    PROVE  /\ pc[u] = "store" /\ task[u].k > Len(task[u].chunks)
           /\ finished' = finished \union {Report(u)}
           /\ \/ /\ task[u].i < Len(request[u].files) /\ Goes(u, "reset_handlers")
                 /\ \E x \in Task : /\ Becomes(u, x) /\ x.i = task[u].i + 1 /\ x.k = 1
                                    /\ x.chunks = << >> /\ x.missing = {}
              \/ Goes(u, "idle") /\ Becomes(u, NoTask)
           /\ UNCHANGED <<request, file_handlers, text_splitter, chunk_size, declarative, plugin_on,
                          removed, alone, changed, missed>>
<1>1. /\ pc[u] = "store" /\ task[u].k > Len(task[u].chunks)
      /\ finished' = finished \union {Report(u)} /\ NextTask(u)
      /\ UNCHANGED <<request, file_handlers, text_splitter, chunk_size, declarative, plugin_on, removed, alone, changed, missed>>
  BY DEF FinishFile, hole, Report
<1>2. task[u] \in Task /\ task[u].i + 1 \in Nat \ {0} /\ u \in Threads
  BY ThreadFacts DEF StageInv, TypeOK, Task
<1>3. "reset_handlers" \in Stages /\ "idle" \in Stages
  BY DEF Stages, Working, Ended
<1>4. CASE task[u].i < Len(request[u].files)
  <2> DEFINE x == [NoTask EXCEPT !.i = task[u].i + 1]
  <2>1. task' = [task EXCEPT ![u] = x] /\ At(u, "reset_handlers")
    BY <1>1, <1>4 DEF NextTask
  <2>2. x \in Task /\ x.i = task[u].i + 1 /\ x.k = 1 /\ x.chunks = << >> /\ x.missing = {}
    BY <1>2, NoTaskFacts DEF Task
  <2> HIDE DEF x
  <2>3. Becomes(u, x)
    BY <2>1, <2>2, TaskFacts
  <2>4. Goes(u, "reset_handlers")
    BY <1>2, <1>3, <2>1, AtFacts DEF At
  <2> QED
    BY <1>1, <1>4, <2>2, <2>3, <2>4
<1>5. CASE ~(task[u].i < Len(request[u].files))
  <2>1. task' = [task EXCEPT ![u] = NoTask] /\ At(u, "idle")
    BY <1>1, <1>5 DEF NextTask
  <2>2. Becomes(u, NoTask)
    BY <2>1, NoTaskFacts, TaskFacts
  <2>3. Goes(u, "idle")
    BY <1>2, <1>3, <2>1, AtFacts DEF At
  <2> QED
    BY <1>1, <2>2, <2>3
<1> QED
  BY <1>4, <1>5

\* A task fails.
LEMMA FailFacts ==
    ASSUME StageInv, NEW u \in Uploads, Fail(u)
    PROVE  /\ pc[u] \notin Ended /\ Goes(u, "failed") /\ Becomes(u, NoTask)
           /\ UNCHANGED <<request, file_handlers, text_splitter, chunk_size, declarative, plugin_on,
                          finished, removed, alone, changed, missed>>
<1>1. /\ pc[u] \notin Ended /\ At(u, "failed") /\ task' = [task EXCEPT ![u] = NoTask]
      /\ UNCHANGED <<request, file_handlers, text_splitter, chunk_size, declarative, plugin_on,
                     finished, removed, alone, changed, missed>>
  BY DEF Fail, hole, history
<1>2. "failed" \in Stages /\ u \in Threads
  BY ThreadFacts DEF Stages, Ended
<1>3. Goes(u, "failed")
  BY <1>1, <1>2, AtFacts DEF At
<1>4. Becomes(u, NoTask)
  BY <1>1, NoTaskFacts, TaskFacts
<1> QED
  BY <1>1, <1>3, <1>4

\* Points of an export replace points of exports.
LEMMA ingest_memoryFacts ==
    ASSUME StageInv, NEW u \in Uploads, ingest_memory(u)
    PROVE  /\ pc[u] = "memory" /\ (Goes(u, "idle") \/ Goes(u, "failed"))
           /\ \A p \in declarative' : p \in declarative \/ (p.id[1] = 0 /\ ~p.own)
           /\ \A p \in declarative : p \in declarative' \/ p.id[1] = 0
           /\ UNCHANGED <<request, file_handlers, text_splitter, chunk_size, task, plugin_on,
                          finished, removed, alone, changed, missed>>
<1> DEFINE m == File(u)
           fit == {v.id : v \in {w \in Vectors[m] : w.fits}}
           upsert(ids) == {p \in declarative : \A id \in ids : p.id # <<0, 0, id>>}
                          \union {MemoryPoint(id) : id \in ids}
<1>1. /\ pc[u] = "memory" /\ (At(u, "idle") \/ At(u, "failed"))
      /\ UNCHANGED <<request, file_handlers, text_splitter, chunk_size, task, plugin_on,
                     finished, removed, alone, changed, missed>>
  BY DEF ingest_memory, hole, history
<1>2. declarative' = declarative \/ \E ids : declarative' = upsert(ids)
  BY DEF ingest_memory
<1>3. "failed" \in Stages /\ "idle" \in Stages /\ u \in Threads
  BY ThreadFacts DEF Stages, Ended
<1>4. Goes(u, "idle") \/ Goes(u, "failed")
  BY <1>1, <1>3, AtFacts DEF At
<1>5. /\ \A p \in declarative' : p \in declarative \/ (p.id[1] = 0 /\ ~p.own)
      /\ \A p \in declarative : p \in declarative' \/ p.id[1] = 0
  <2>1. CASE declarative' = declarative
    BY <2>1
  <2>2. ASSUME NEW ids, declarative' = upsert(ids)
        PROVE  /\ \A p \in declarative' : p \in declarative \/ (p.id[1] = 0 /\ ~p.own)
               /\ \A p \in declarative : p \in declarative' \/ p.id[1] = 0
    <3>1. \A id : MemoryPoint(id).id[1] = 0 /\ ~MemoryPoint(id).own
      BY DEF MemoryPoint
    <3>2. \A id : <<0, 0, id>>[1] = 0
      OBVIOUS
    <3> QED
      BY <2>2, <3>1, <3>2
  <2> QED
    BY <1>2, <2>1, <2>2
<1> QED
  BY <1>1, <1>4, <1>5

-----------------------------------------------------------------------------
(* What the requests change *)

\* Upload w becomes r.
Asks(w, r) ==
    /\ request' \in [Uploads -> Request] /\ request'[w] = r
    /\ \A v \in Uploads \ {w} : request'[v] = request[v]

\* One request changes.
LEMMA AskFacts ==
    ASSUME StageInv, NEW w \in Uploads, NEW r \in Request, request' = [request EXCEPT ![w] = r]
    PROVE  Asks(w, r)
  BY DEF StageInv, TypeOK, Asks

\* Files are uploaded.
LEMMA upload_filesFacts ==
    ASSUME StageInv, NEW b \in Batches, upload_files(b.files, b.size)
    PROVE  /\ pc[Loop] = "idle" /\ Goes(Loop, "reset_handlers")
           /\ \E w \in Uploads : /\ request[w].status = "none"
                                 /\ \E r \in Request : /\ Asks(w, r) /\ r.kind = "file" /\ r.status = "checked"
                                                       /\ r.files \in Seq(Files) /\ Len(r.files) > 0
           /\ UNCHANGED <<file_handlers, text_splitter, chunk_size, task, declarative, plugin_on,
                          finished, removed, alone, changed, missed>>
<1>1. PICK w \in Uploads :
         /\ request[w].status = "none"
         /\ request' = [request EXCEPT ![w] = [kind |-> "file", files |-> b.files,
                                                size |-> b.size, status |-> "checked", sure |-> TRUE]]
  BY DEF upload_files
<1> DEFINE r == [kind |-> "file", files |-> b.files, size |-> b.size, status |-> "checked", sure |-> TRUE]
<1>2. b.files \in Seq(Files) /\ Len(b.files) > 0 /\ b.size \in Big \union {0} /\ b.files \in Seq(Files \union Urls \union Memories)
  BY SizeFacts
<1>3. r \in Request /\ r.kind = "file" /\ r.status = "checked" /\ r.files = b.files
  BY <1>2 DEF Request
<1>4. request' = [request EXCEPT ![w] = r]
  BY <1>1
<1> HIDE DEF r
<1>5. Asks(w, r)
  BY <1>3, <1>4, AskFacts
<1>6. /\ pc[Loop] = "idle" /\ At(Loop, "reset_handlers")
      /\ UNCHANGED <<file_handlers, text_splitter, chunk_size, task, declarative, plugin_on,
                     finished, removed, alone, changed, missed>>
  BY DEF upload_files, hole, history
<1>7. Goes(Loop, "reset_handlers")
  <2>1. "reset_handlers" \in Stages /\ Loop \in Threads
    BY ThreadFacts DEF Stages, Working
  <2> QED
    BY <2>1, <1>6, AtFacts DEF At
<1> QED
  BY <1>1, <1>2, <1>3, <1>5, <1>6, <1>7

\* The upload is accepted, refused for the type of a file, or fails.
LEMMA CheckTypesFacts ==
    ASSUME StageInv, NEW u \in Uploads, CheckTypes(u)
    PROVE  /\ request[u].status = "checked" /\ pc[Loop] = "get_handlers"
           /\ \E r \in Request :
                 /\ Asks(u, r) /\ r.kind = request[u].kind /\ r.files = request[u].files
                 /\ (r.sure => alone[Loop] /\ Loop \notin missed)
                 /\ r.status \in {"accepted", "refused", "error"}
                 /\ r.status = "accepted" => \A i \in DOMAIN r.files : Type[r.files[i]] \in file_handlers
                 /\ r.status = "refused" => \E i \in DOMAIN r.files : Type[r.files[i]] \notin file_handlers
                 /\ pc' \in [Threads -> Stages] /\ pc'[Loop] = "idle"
                 /\ pc'[u] = IF r.status = "accepted" THEN "reset_handlers" ELSE "idle"
                 /\ \A v \in Uploads \ {u} : pc'[v] = pc[v]
           /\ missed' = missed \ {Loop}
           /\ UNCHANGED <<file_handlers, text_splitter, chunk_size, task, declarative, plugin_on,
                          finished, removed, alone, changed>>
<1> DEFINE b == alone[Loop] /\ Loop \notin missed
           fits == \A i \in DOMAIN request[u].files : Type[request[u].files[i]] \in file_handlers
<1>1. /\ request[u].status = "checked" /\ pc[Loop] = "get_handlers" /\ missed' = missed \ {Loop}
      /\ UNCHANGED <<file_handlers, text_splitter, chunk_size, task, declarative, plugin_on,
                     finished, removed, alone, changed>>
  BY DEF CheckTypes, hole
<1>2. \E st \in {"accepted", "refused", "error"} :
         Reply(u, st) /\ (st = "accepted" => fits) /\ (st = "refused" => ~fits)
  BY DEF CheckTypes
<1>3. PICK st \in {"accepted", "refused", "error"} :
         Reply(u, st) /\ (st = "accepted" => fits) /\ (st = "refused" => ~fits)
  BY <1>2
<1> DEFINE r == [request[u] EXCEPT !.status = st, !.sure = b]
           q == IF st = "accepted" THEN "reset_handlers" ELSE "idle"
<1>4. request[u] \in Request /\ request \in [Uploads -> Request] /\ b \in BOOLEAN /\ pc \in [Threads -> Stages]
  BY ThreadFacts DEF StageInv, TypeOK, Stages
<1>5. request' = [request EXCEPT ![u].status = st, ![u].sure = b]
  BY <1>3 DEF Reply
<1>14. b => alone[Loop] /\ Loop \notin missed
  OBVIOUS
<1> HIDE DEF b
<1>6. /\ r \in Request /\ r.kind = request[u].kind /\ r.files = request[u].files
      /\ r.sure = b /\ r.status = st
  BY <1>4 DEF Request
<1>7. request' = [request EXCEPT ![u] = r]
  BY <1>4, <1>5
<1> HIDE DEF r
<1>8. Asks(u, r)
  BY <1>6, <1>7, AskFacts
<1>9. pc' = [pc EXCEPT ![Loop] = "idle", ![u] = q]
  BY <1>3 DEF Reply
<1>10. "idle" \in Stages /\ "reset_handlers" \in Stages /\ Loop \in Threads /\ u \in Threads /\ u # Loop /\ Uploads \subseteq Threads
  BY ThreadFacts DEF Stages, Working, Ended
<1>11. q \in Stages
  BY <1>10
<1>12. q = IF st = "accepted" THEN "reset_handlers" ELSE "idle"
  OBVIOUS
<1> HIDE DEF q
<1>13. /\ pc' \in [Threads -> Stages] /\ pc'[Loop] = "idle" /\ pc'[u] = q
       /\ \A v \in Uploads \ {u} : pc'[v] = pc[v]
  BY <1>4, <1>9, <1>10, <1>11, ThreadFacts
<1> QED
  BY <1>1, <1>3, <1>6, <1>8, <1>12, <1>13, <1>14

\* A request of upload w that is answered at once with r.
Answers(w, r) ==
    /\ pc[Loop] = "idle" /\ request[w].status = "none" /\ Asks(w, r)
    /\ r.kind # "file" /\ (r.kind # "memory" => r.files \in Seq(Files \union Urls) /\ Len(r.files) = 1)
    /\ \/ r.status = "accepted" /\ r.kind = "url" /\ Goes(w, "fetch")
       \/ r.status = "accepted" /\ r.kind = "memory" /\ Goes(w, "memory")
       \/ r.status \in {"refused", "error"} /\ Goes(w, "idle")
    /\ UNCHANGED <<file_handlers, text_splitter, chunk_size, task, declarative, plugin_on,
                   finished, removed, alone, changed, missed>>

\* A page or an export is uploaded.
LEMMA AnswerFacts ==
    ASSUME StageInv, NEW kind \in {"url", "memory"}, NEW f \in Files \union Urls \union Memories,
           kind = "url" => f \in Urls,
           NEW size \in Big \union {0}, NEW st \in {"accepted", "refused", "error"},
           NEW next, next = IF st # "accepted" THEN "idle" ELSE IF kind = "url" THEN "fetch" ELSE "memory",
           Answer(kind, f, size, st, next)
    PROVE  \E w \in Uploads : \E r \in Request : Answers(w, r)
<1> DEFINE r == [kind |-> kind, files |-> <<f>>, size |-> size, status |-> st, sure |-> TRUE]
<1>1. PICK w \in Uploads : request[w].status = "none" /\ request' = [request EXCEPT ![w] = r]
                           /\ pc' = [pc EXCEPT ![w] = next]
  BY DEF Answer
<1>2. r \in Request /\ r.kind = kind /\ r.files = <<f>> /\ r.status = st
  BY DEF Request
<1> HIDE DEF r
<1>3. Asks(w, r)
  BY <1>1, <1>2, AskFacts
<1>4. next \in Stages /\ w \in Threads
  BY ThreadFacts DEF Stages, Working, Ended
<1>5. Goes(w, next)
  BY <1>1, <1>4, AtFacts DEF At
<1>6. /\ pc[Loop] = "idle"
      /\ UNCHANGED <<file_handlers, text_splitter, chunk_size, task, declarative, plugin_on,
                     finished, removed, alone, changed, missed>>
  BY DEF Answer, hole, history
<1>7. kind # "memory" => <<f>> \in Seq(Files \union Urls) /\ Len(<<f>>) = 1
  OBVIOUS
<1>8. Answers(w, r)
  BY <1>1, <1>2, <1>3, <1>5, <1>6, <1>7 DEF Answers
<1> QED
  BY <1>2, <1>8

\* upload_url answers.
LEMMA upload_urlFacts ==
    ASSUME StageInv, NEW url \in Urls, NEW size \in Sizes, upload_url(url, size)
    PROVE  \E w \in Uploads : \E r \in Request : Answers(w, r)
<1>1. size \in Big \union {0}
  BY SizeFacts
<1>2. Answer("url", url, size, "accepted", "fetch") \/ Answer("url", url, size, "refused", "idle")
  BY DEF upload_url
<1> QED
  BY <1>1, <1>2, AnswerFacts

\* upload_memory answers.
LEMMA upload_memoryFacts ==
    ASSUME StageInv, NEW f \in Files \union Memories, upload_memory(f)
    PROVE  \E w \in Uploads : \E r \in Request : Answers(w, r)
<1>1. \/ Answer("memory", f, 0, "accepted", "memory") \/ Answer("memory", f, 0, "error", "idle")
      \/ Answer("memory", f, 0, "refused", "idle")
  BY DEF upload_memory
<1> QED
  BY <1>1, AnswerFacts

\* The plugin is toggled between requests.
LEMMA TogglePluginFacts ==
    ASSUME TogglePlugin
    PROVE  /\ pc[Loop] = "idle" /\ changed' = {u \in Uploads : request[u].status # "none"}
           /\ UNCHANGED <<request, pc, file_handlers, text_splitter, chunk_size, task, declarative,
                          finished, removed, alone, missed>>
  BY DEF TogglePlugin, hole

\* Points are deleted, and remembered.
LEMMA DeleteFacts ==
    ASSUME NEW source, delete_memory_points_by_metadata(source)
    PROVE  /\ declarative' \subseteq declarative
           /\ removed \subseteq removed' /\ \A p \in declarative : p \in declarative' \/ p.id \in removed'
           /\ UNCHANGED <<request, pc, file_handlers, text_splitter, chunk_size, task, plugin_on,
                          finished, alone, changed, missed>>
  BY DEF delete_memory_points_by_metadata, hole

-----------------------------------------------------------------------------
(* Types and stages *)

\* The step of a thread that reads files.
LEMMA WorkStage ==
    ASSUME StageInv, NEW u \in Uploads, NEW p, Goes(u, p), pc[u] \notin Ended, request' = request,
           NEW x, Becomes(u, x), alone' \in [Threads -> BOOLEAN], chunk_size' \in [Splitters -> Big],
           text_splitter' \in Splitters \union {NoSplitter},
           text_splitter \in Splitters => text_splitter' \in Splitters,
           p \in Working => pc[u] \in Working /\ x.i \in 1 .. Len(request[u].files),
           p \in {"hook_splitter", "get_splitter"} => text_splitter' \in Splitters,
           p = "split" => x.splitter \in Splitters
    PROVE  StageInv'
<1>1. pc' \in [Threads -> Stages] /\ pc'[u] = p /\ \A o \in Threads \ {u} : pc'[o] = pc[o]
  BY DEF Goes
<1>2. task' \in [Uploads -> Task] /\ task'[u] = x /\ \A v \in Uploads \ {u} : task'[v] = task[v]
  BY DEF Becomes
<1>3. pc'[Loop] = pc[Loop] /\ \A v \in Uploads \ {u} : pc'[v] = pc[v]
  BY <1>1, ThreadFacts
<1>4. TypeOK'
  BY <1>1, <1>2, <1>3 DEF StageInv, TypeOK, Stages
<1>5. request[u].status \notin {"none", "checked"}
  BY DEF StageInv, UploadOK, Ended
<1>6. UploadOK(u)'
  BY <1>1, <1>2, <1>5 DEF StageInv, UploadOK
<1>7. ASSUME NEW v \in Uploads \ {u} PROVE UploadOK(v)'
  BY <1>2, <1>3 DEF StageInv, UploadOK
<1> QED
  BY <1>4, <1>6, <1>7 DEF StageInv

\* The step of a thread that leaves its task.
LEMMA WorkStageSame ==
    ASSUME StageInv, NEW u \in Uploads, NEW p, Goes(u, p), pc[u] \notin Ended, UNCHANGED <<request, task>>,
           alone' \in [Threads -> BOOLEAN], chunk_size' \in [Splitters -> Big],
           text_splitter' \in Splitters \union {NoSplitter},
           text_splitter \in Splitters => text_splitter' \in Splitters,
           p \in Working => pc[u] \in Working,
           p \in {"hook_splitter", "get_splitter"} => text_splitter' \in Splitters,
           p # "split"
    PROVE  StageInv'
<1>1. Becomes(u, task[u])
  BY DEF StageInv, TypeOK, Becomes
<1>2. p \in Working => task[u].i \in 1 .. Len(request[u].files)
  BY DEF StageInv, UploadOK
<1> QED
  BY <1>1, <1>2, WorkStage

\* The step of the event loop.
LEMMA LoopStage ==
    ASSUME StageInv, NEW p \in LoopStages, Goes(Loop, p), UNCHANGED <<request, task, text_splitter, chunk_size>>,
           alone' \in [Threads -> BOOLEAN]
    PROVE  StageInv'
<1>1. pc' \in [Threads -> Stages] /\ pc'[Loop] = p /\ \A v \in Uploads : pc'[v] = pc[v]
  BY ThreadFacts DEF Goes
<1>2. TypeOK'
  BY <1>1 DEF StageInv, TypeOK, Stages
<1>3. ASSUME NEW v \in Uploads PROVE UploadOK(v)'
  BY <1>1 DEF StageInv, UploadOK
<1> QED
  BY <1>2, <1>3 DEF StageInv

\* The variables that most steps leave are of their types.
LEMMA StageTypes ==
    ASSUME StageInv
    PROVE  /\ alone \in [Threads -> BOOLEAN] /\ chunk_size \in [Splitters -> Big]
           /\ text_splitter \in Splitters \union {NoSplitter}
  BY DEF StageInv, TypeOK

\* A thread that stays where it is.
LEMMA Stays ==
    ASSUME StageInv, NEW u \in Uploads, pc' = pc
    PROVE  Goes(u, pc[u])
  BY ThreadFacts DEF StageInv, TypeOK, Goes, Stages

\* Every step of a working thread.
LEMMA WorkStages ==
    ASSUME StageInv, NEW u \in Uploads, Work(u)
    PROVE  StageInv'
<1> USE StageTypes
<1>1. u \in Threads
  BY ThreadFacts
<1>2. pc[u] \in Working => task[u].i \in 1 .. Len(request[u].files)
  BY DEF StageInv, UploadOK
<1>3. CASE Fetch(u)
  <2>1. PICK x \in Task : Becomes(u, x) /\ x.i = task[u].i
    BY <1>3, FetchFacts
  <2> QED
    BY <1>2, <1>3, <2>1, FetchFacts, WorkStage DEF Working, Ended
<1>4. CASE ResetHandlers(u)
  BY <1>1, <1>4, ResetHandlersFacts, WorkStageSame DEF Working, Ended
<1>5. CASE HookHandlers(u)
  BY <1>1, <1>5, HookHandlersFacts, WorkStageSame DEF Working, Ended
<1>6. CASE Parse(u)
  <2>1. PICK x \in Task : Becomes(u, x) /\ x.i = task[u].i
    BY <1>6, ParseFacts
  <2>2. PICK p \in {"reset_splitter", "no_parser"} : Goes(u, p)
    BY <1>6, ParseFacts
  <2>3. pc[u] = "get_handlers" /\ UNCHANGED <<request, text_splitter, chunk_size, alone>>
    BY <1>6, ParseFacts
  <2> QED
    BY <1>2, <2>1, <2>2, <2>3, WorkStage DEF Working, Ended
<1>7. CASE ResetSplitter(u)
  BY <1>7, ResetSplitterFacts, WorkStageSame DEF Working, Ended
<1>8. CASE HookSplitter(u)
  BY <1>8, HookSplitterFacts, WorkStageSame DEF Working, Ended
<1>9. CASE GetSplitter(u)
  <2>1. PICK x \in Task : Becomes(u, x) /\ x.i = task[u].i /\ x.splitter = text_splitter
    BY <1>9, GetSplitterFacts
  <2>2. text_splitter \in Splitters
    BY <1>9, GetSplitterFacts DEF StageInv, UploadOK
  <2> QED
    BY <1>2, <1>9, <2>1, <2>2, GetSplitterFacts, WorkStage DEF Working, Ended
<1>10. CASE CutChunk(u)
  <2>1. PICK x \in Task : Becomes(u, x) /\ x.i = task[u].i /\ x.splitter = task[u].splitter
    BY <1>10, CutChunkFacts
  <2>2. pc[u] = "split" /\ pc' = pc /\ UNCHANGED <<request, text_splitter, chunk_size, alone>>
    BY <1>10, CutChunkFacts
  <2>3. task[u].splitter \in Splitters /\ Goes(u, "split")
    BY <2>2, Stays DEF StageInv, UploadOK
  <2> QED
    BY <1>2, <2>1, <2>2, <2>3, WorkStage DEF Working, Ended
<1>11. CASE SplitDone(u)
  <2>1. PICK x \in Task : Becomes(u, x) /\ x.i = task[u].i
    BY <1>11, SplitDoneFacts
  <2> QED
    BY <1>2, <1>11, <2>1, SplitDoneFacts, WorkStage DEF Working, Ended
<1>12. CASE StoreChunk(u) \/ SkipChunk(u)
  <2>1. PICK x \in Task : Becomes(u, x) /\ x.i = task[u].i
    BY <1>12, ChunkFacts
  <2>2. pc[u] = "store" /\ pc' = pc /\ UNCHANGED <<request, text_splitter, chunk_size, alone>>
    BY <1>12, ChunkFacts
  <2>3. Goes(u, "store")
    BY <2>2, Stays
  <2> QED
    BY <1>2, <2>1, <2>2, <2>3, WorkStage DEF Working, Ended
<1>13. CASE FinishFile(u)
  <2>1. pc[u] = "store" /\ UNCHANGED <<request, text_splitter, chunk_size, alone>>
    BY <1>13, FinishFileFacts
  <2>2. CASE Goes(u, "idle") /\ Becomes(u, NoTask)
    BY <2>1, <2>2, WorkStage DEF Working, Ended
  <2>3. CASE task[u].i < Len(request[u].files) /\ Goes(u, "reset_handlers") /\ \E x \in Task : Becomes(u, x) /\ x.i = task[u].i + 1
    <3>1. PICK x \in Task : Becomes(u, x) /\ x.i = task[u].i + 1
      BY <2>3
    <3>2. request[u].files \in Seq(Files \union Urls \union Memories) /\ task[u].i \in Nat \ {0}
      BY DEF StageInv, TypeOK, Request, Task
    <3>3. x.i \in 1 .. Len(request[u].files)
      BY <2>3, <3>1, <3>2
    <3> QED
      BY <2>1, <2>3, <3>1, <3>3, WorkStage DEF Working, Ended
  <2> QED
    BY <1>13, <2>2, <2>3, FinishFileFacts
<1>14. CASE Fail(u)
  BY <1>14, FailFacts, WorkStage DEF Working, Ended
<1>15. CASE ingest_memory(u)
  <2>1. pc[u] = "memory" /\ UNCHANGED <<request, task, text_splitter, chunk_size, alone>>
    BY <1>15, ingest_memoryFacts
  <2>2. PICK p \in {"idle", "failed"} : Goes(u, p)
    BY <1>15, ingest_memoryFacts
  <2> QED
    BY <2>1, <2>2, WorkStageSame DEF Working, Ended
<1> QED
  BY <1>3, <1>4, <1>5, <1>6, <1>7, <1>8, <1>9, <1>10, <1>11, <1>12, <1>13, <1>14, <1>15 DEF Work

\* An upload is asked for, and the event loop begins to check it.
LEMMA upload_filesStage ==
    ASSUME StageInv, NEW b \in Batches, upload_files(b.files, b.size)
    PROVE  StageInv'
<1>1. PICK w \in Uploads : /\ request[w].status = "none"
                           /\ \E r \in Request : /\ Asks(w, r) /\ r.kind = "file" /\ r.status = "checked"
                                                 /\ r.files \in Seq(Files) /\ Len(r.files) > 0
  BY upload_filesFacts
<1>2. PICK r \in Request : /\ Asks(w, r) /\ r.kind = "file" /\ r.status = "checked"
                           /\ r.files \in Seq(Files) /\ Len(r.files) > 0
  BY <1>1
<1>3. Goes(Loop, "reset_handlers") /\ UNCHANGED <<text_splitter, chunk_size, task, alone>>
  BY upload_filesFacts
<1>4. /\ pc' \in [Threads -> Stages] /\ pc'[Loop] = "reset_handlers" /\ \A v \in Uploads : pc'[v] = pc[v]
      /\ request' \in [Uploads -> Request] /\ request'[w] = r /\ \A v \in Uploads \ {w} : request'[v] = request[v]
  BY <1>2, <1>3, ThreadFacts DEF Goes, Asks
<1>5. TypeOK'
  BY <1>3, <1>4 DEF StageInv, TypeOK, Stages, LoopStages
<1>6. UploadOK(w)'
  <2>1. pc[w] = "idle" /\ task[w] = NoTask /\ r.files \in Seq(Files \union Urls)
    BY <1>1, <1>2 DEF StageInv, UploadOK
  <2> QED
    BY <1>2, <1>3, <1>4, <2>1 DEF UploadOK, Working
<1>7. ASSUME NEW v \in Uploads \ {w} PROVE UploadOK(v)'
  BY <1>3, <1>4 DEF StageInv, UploadOK
<1> QED
  BY <1>5, <1>6, <1>7 DEF StageInv

\* The reply to an upload.
LEMMA CheckTypesStage ==
    ASSUME StageInv, NEW u \in Uploads, CheckTypes(u)
    PROVE  StageInv'
<1>1. PICK r \in Request :
         /\ Asks(u, r) /\ r.kind = request[u].kind /\ r.files = request[u].files
         /\ r.status \in {"accepted", "refused", "error"}
         /\ pc' \in [Threads -> Stages] /\ pc'[Loop] = "idle"
         /\ pc'[u] = IF r.status = "accepted" THEN "reset_handlers" ELSE "idle"
         /\ \A v \in Uploads \ {u} : pc'[v] = pc[v]
  BY CheckTypesFacts
<1>2. request[u].status = "checked" /\ UNCHANGED <<text_splitter, chunk_size, task, alone>>
  BY CheckTypesFacts
<1>3. request' \in [Uploads -> Request] /\ request'[u] = r /\ \A v \in Uploads \ {u} : request'[v] = request[v]
  BY <1>1 DEF Asks
<1>4. TypeOK'
  BY <1>1, <1>2, <1>3 DEF StageInv, TypeOK, Stages, LoopStages
<1>5. UploadOK(u)'
  <2>1. /\ task[u] = NoTask /\ request[u].kind = "file" /\ Len(request[u].files) > 0
        /\ request[u].files \in Seq(Files \union Urls)
    BY <1>2 DEF StageInv, UploadOK
  <2>2. NoTask.i \in 1 .. Len(request[u].files)
    BY <2>1, NoTaskFacts
  <2> QED
    BY <1>1, <1>2, <1>3, <2>1, <2>2 DEF UploadOK, Working
<1>6. ASSUME NEW v \in Uploads \ {u} PROVE UploadOK(v)'
  BY <1>1, <1>2, <1>3 DEF StageInv, UploadOK
<1> QED
  BY <1>4, <1>5, <1>6 DEF StageInv

\* A request that is answered at once.
LEMMA AnswersStage ==
    ASSUME StageInv, NEW w \in Uploads, NEW r \in Request, Answers(w, r)
    PROVE  StageInv'
<1>1. /\ request[w].status = "none" /\ r.status \in {"accepted", "refused", "error"} /\ r.kind # "file"
      /\ request' \in [Uploads -> Request] /\ request'[w] = r /\ \A v \in Uploads \ {w} : request'[v] = request[v]
      /\ UNCHANGED <<text_splitter, chunk_size, task, alone>>
  BY DEF Answers, Asks
<1>2. PICK p \in {"fetch", "memory", "idle"} : Goes(w, p) /\ (p = "fetch" => r.status = "accepted" /\ r.kind = "url")
  BY DEF Answers
<1>3. /\ pc' \in [Threads -> Stages] /\ pc'[w] = p /\ pc'[Loop] = pc[Loop] /\ \A v \in Uploads \ {w} : pc'[v] = pc[v]
  BY <1>2, ThreadFacts DEF Goes
<1>4. TypeOK'
  BY <1>1, <1>3 DEF StageInv, TypeOK, Stages
<1>5. UploadOK(w)'
  <2>1. task[w] = NoTask /\ (r.kind # "memory" => r.files \in Seq(Files \union Urls) /\ Len(r.files) = 1)
    BY <1>1 DEF StageInv, UploadOK, Answers
  <2>2. Len(r.files) = 1 => NoTask.i \in 1 .. Len(r.files)
    BY NoTaskFacts
  <2> QED
    BY <1>1, <1>2, <1>3, <2>1, <2>2 DEF UploadOK, Working
<1>6. ASSUME NEW v \in Uploads \ {w} PROVE UploadOK(v)'
  BY <1>1, <1>3 DEF StageInv, UploadOK
<1> QED
  BY <1>4, <1>5, <1>6 DEF StageInv

\* A step that leaves requests, stages, tasks and splitters.
LEMMA QuietStage ==
    ASSUME StageInv, UNCHANGED <<request, pc, text_splitter, chunk_size, task, alone>>
    PROVE  StageInv'
  BY DEF StageInv, TypeOK, UploadOK

\* The invariant of types and stages.
LEMMA StageInvariant == Spec => []StageInv
<1>1. Init => StageInv
  <2>1. SUFFICES ASSUME Init PROVE StageInv
    OBVIOUS
  <2>2. NoRequest \in Request /\ NoRequest.status = "none" /\ NoRequest.files = << >>
    BY DEF NoRequest, Request
  <2>3. TypeOK
    BY <2>1, <2>2, NoTaskFacts, SizeFacts, ThreadFacts DEF Init, TypeOK, Ended, LoopStages
  <2>4. ASSUME NEW u \in Uploads PROVE UploadOK(u)
    <3>1. request[u] = NoRequest /\ pc[u] = "idle" /\ task[u] = NoTask
      BY <2>1, ThreadFacts DEF Init
    <3> QED
      BY <3>1, <2>2 DEF UploadOK, Working
  <2> QED
    BY <2>3, <2>4 DEF StageInv
<1>2. StageInv /\ [Next]_vars => StageInv'
  <2>1. SUFFICES ASSUME StageInv, [Next]_vars PROVE StageInv'
    OBVIOUS
  <2>2. CASE UNCHANGED vars
    BY <2>1, <2>2, QuietStage DEF vars, hole, history
  <2>3. ASSUME NEW u \in Uploads, Work(u) PROVE StageInv'
    BY <2>1, <2>3, WorkStages
  <2>4. CASE ResetHandlers(Loop)
    BY <2>1, <2>4, ThreadFacts, ResetHandlersFacts, LoopStage DEF LoopStages
  <2>5. CASE HookHandlers(Loop)
    BY <2>1, <2>5, ThreadFacts, HookHandlersFacts, StageTypes, LoopStage DEF LoopStages
  <2>6. ASSUME NEW u \in Uploads, CheckTypes(u) PROVE StageInv'
    BY <2>1, <2>6, CheckTypesStage
  <2>7. ASSUME NEW b \in Batches, upload_files(b.files, b.size) PROVE StageInv'
    BY <2>1, <2>7, upload_filesStage
  <2>8. ASSUME NEW url \in Urls, NEW size \in Sizes, upload_url(url, size) PROVE StageInv'
    BY <2>1, <2>8, upload_urlFacts, AnswersStage
  <2>9. ASSUME NEW f \in Files \union Memories, upload_memory(f) PROVE StageInv'
    BY <2>1, <2>9, upload_memoryFacts, AnswersStage
  <2>10. CASE TogglePlugin
    BY <2>1, <2>10, TogglePluginFacts, QuietStage
  <2>11. ASSUME NEW source \in Files \union Urls, delete_memory_points_by_metadata(source) PROVE StageInv'
    BY <2>1, <2>11, DeleteFacts, QuietStage
  <2> QED
    BY <2>1, <2>2, <2>3, <2>4, <2>5, <2>6, <2>7, <2>8, <2>9, <2>10, <2>11 DEF Next, Handle, Ask
<1> QED
  BY <1>1, <1>2, PTL DEF Spec

-----------------------------------------------------------------------------
(* The order of the files of a request *)

\* The number of the file at hand stays, starts over, or moves past a file that
\* is reported.
Advances(v) ==
    \/ task'[v].i = task[v].i
    \/ task'[v].i = 1
    \/ task'[v].i = task[v].i + 1 /\ \E f \in finished' : f.u = v /\ f.i = task[v].i

\* What is stored belongs to the file at hand of an accepted request.
InOrder(p) ==
    \/ p \in declarative
    \/ p.id[1] \notin Uploads
    \/ \E u \in Uploads : p.id[1] = u /\ p.id[2] = task[u].i /\ request'[u].status = "accepted"

\* Steps that go forward file by file keep the order.
LEMMA OrderStep ==
    ASSUME StageInv, OrderInv, finished \subseteq finished',
           \A f \in finished' : f \in finished \/ (f.u \in Uploads /\ request'[f.u].status = "accepted"),
           \A v \in Uploads : request'[v].status = request[v].status \/ request[v].status \in {"none", "checked"},
           \A v \in Uploads : Advances(v), \A p \in declarative' : InOrder(p)
    PROVE  OrderInv'
<1>1. \A f \in finished' : f.u \in Uploads /\ request'[f.u].status = "accepted"
  BY DEF OrderInv
<1>2. ASSUME NEW v \in Uploads, NEW j \in 1 .. task'[v].i - 1 PROVE \E f \in finished' : f.u = v /\ f.i = j
  <2>1. task[v].i \in Nat \ {0}
    BY DEF StageInv, TypeOK, Task
  <2>2. j \in 1 .. task[v].i - 1 => \E f \in finished' : f.u = v /\ f.i = j
    BY DEF OrderInv, Done
  <2>3. CASE task'[v].i = task[v].i
    BY <1>2, <2>2, <2>3
  <2>4. CASE task'[v].i = 1
    BY <1>2, <2>4
  <2>5. CASE task'[v].i = task[v].i + 1 /\ \E f \in finished' : f.u = v /\ f.i = task[v].i
    <3>1. j \in 1 .. task[v].i - 1 \/ j = task[v].i
      BY <1>2, <2>1, <2>5
    <3> QED
      BY <2>2, <2>5, <3>1
  <2> QED
    BY <2>3, <2>4, <2>5 DEF Advances
<1>3. ASSUME NEW p \in declarative', NEW u \in Uploads, p.id[1] = u
      PROVE  /\ request'[u].status = "accepted"
             /\ \A j \in 1 .. p.id[2] - 1 : \E f \in finished' : f.u = u /\ f.i = j
  <2>1. CASE p \in declarative
    <3>1. /\ request[u].status = "accepted"
          /\ \A j \in 1 .. p.id[2] - 1 : \E f \in finished : f.u = u /\ f.i = j
      BY <1>3, <2>1 DEF OrderInv, BatchInOrder
    <3> QED
      BY <3>1
  <2>2. CASE p.id[2] = task[u].i /\ request'[u].status = "accepted"
    BY <2>2 DEF OrderInv, Done
  <2> QED
    BY <1>3, <2>1, <2>2 DEF InOrder
<1>4. BatchInOrder'
  BY <1>3 DEF BatchInOrder
<1>5. \A u \in Uploads : Done(u, task[u].i)'
  BY <1>2 DEF Done
<1> QED
  BY <1>1, <1>4, <1>5 DEF OrderInv

\* One task changes, and its number advances.
LEMMA TaskAdvances ==
    ASSUME NEW u \in Uploads, NEW x, Becomes(u, x),
           \/ x.i = task[u].i
           \/ x.i = 1
           \/ x.i = task[u].i + 1 /\ \E f \in finished' : f.u = u /\ f.i = task[u].i
    PROVE  \A v \in Uploads : Advances(v)
<1>1. task'[u] = x /\ \A v \in Uploads \ {u} : task'[v] = task[v]
  BY DEF Becomes
<1>2. Advances(u)
  BY <1>1 DEF Advances
<1>3. \A v \in Uploads \ {u} : Advances(v)
  BY <1>1 DEF Advances
<1> QED
  BY <1>2, <1>3

\* A working thread keeps the order.
LEMMA WorkOrder ==
    ASSUME StageInv, OrderInv, NEW u \in Uploads, Work(u)
    PROVE  OrderInv'
<1>1. u \in Threads
  BY ThreadFacts
<1>2. CASE Fetch(u) \/ Parse(u) \/ GetSplitter(u) \/ CutChunk(u) \/ SplitDone(u)
  <2>1. PICK x \in Task : Becomes(u, x) /\ x.i = task[u].i
    BY <1>2, FetchFacts, ParseFacts, GetSplitterFacts, CutChunkFacts, SplitDoneFacts
  <2>2. UNCHANGED <<request, finished, declarative>>
    BY <1>2, FetchFacts, ParseFacts, GetSplitterFacts, CutChunkFacts, SplitDoneFacts
  <2>3. \A v \in Uploads : Advances(v)
    BY <2>1, TaskAdvances
  <2> QED
    BY <2>2, <2>3, OrderStep DEF InOrder
<1>3. CASE ResetHandlers(u) \/ HookHandlers(u) \/ ResetSplitter(u) \/ HookSplitter(u)
  <2>1. UNCHANGED <<request, finished, declarative, task>>
    BY <1>1, <1>3, ResetHandlersFacts, HookHandlersFacts, ResetSplitterFacts, HookSplitterFacts
  <2> QED
    BY <2>1, OrderStep DEF InOrder, Advances
<1>4. CASE StoreChunk(u) \/ SkipChunk(u)
  <2>1. PICK x \in Task : /\ Becomes(u, x) /\ x.i = task[u].i
                          /\ declarative' = declarative \union {Point(u)} \/ declarative' = declarative
    BY <1>4, ChunkFacts
  <2>2. UNCHANGED <<request, finished>> /\ request[u].status = "accepted"
    BY <1>4, ChunkFacts DEF StageInv, UploadOK, Working
  <2>3. \A v \in Uploads : Advances(v)
    BY <2>1, TaskAdvances
  <2>4. Point(u).id[1] = u /\ Point(u).id[2] = task[u].i
    BY DEF Point
  <2>5. \A p \in declarative' : InOrder(p)
    BY <2>1, <2>2, <2>4 DEF InOrder
  <2> QED
    BY <2>2, <2>3, <2>5, OrderStep
<1>5. CASE FinishFile(u)
  <2>1. /\ finished' = finished \union {Report(u)} /\ UNCHANGED <<request, declarative>>
        /\ request[u].status = "accepted"
    BY <1>5, FinishFileFacts DEF StageInv, UploadOK, Working
  <2>2. Report(u).u = u /\ Report(u).i = task[u].i
    BY DEF Report
  <2>3. PICK x \in Task : Becomes(u, x) /\ (x.i = 1 \/ x.i = task[u].i + 1)
    BY <1>5, FinishFileFacts, NoTaskFacts
  <2>4. \A v \in Uploads : Advances(v)
    BY <2>1, <2>2, <2>3, TaskAdvances
  <2> QED
    BY <2>1, <2>2, <2>4, OrderStep DEF InOrder
<1>6. CASE Fail(u)
  <2>1. UNCHANGED <<request, finished, declarative>> /\ Becomes(u, NoTask)
    BY <1>6, FailFacts
  <2>2. \A v \in Uploads : Advances(v)
    BY <2>1, NoTaskFacts, TaskAdvances
  <2> QED
    BY <2>1, <2>2, OrderStep DEF InOrder
<1>7. CASE ingest_memory(u)
  <2>1. UNCHANGED <<request, finished, task>> /\ \A p \in declarative' : p \in declarative \/ p.id[1] = 0
    BY <1>7, ingest_memoryFacts
  <2>2. 0 \notin Uploads
    BY DEF Uploads
  <2> QED
    BY <2>1, <2>2, OrderStep DEF InOrder, Advances
<1> QED
  BY <1>2, <1>3, <1>4, <1>5, <1>6, <1>7 DEF Work

\* Requests do not change what was read before.
LEMMA AskOrder ==
    ASSUME StageInv, OrderInv, UNCHANGED <<finished, task>>, declarative' \subseteq declarative,
           \A v \in Uploads : request'[v].status = request[v].status \/ request[v].status \in {"none", "checked"}
    PROVE  OrderInv'
  BY OrderStep DEF InOrder, Advances

\* The files of requests are read in order.
LEMMA OrderInvariant == Spec => []OrderInv
<1>1. Init => OrderInv
  <2>1. SUFFICES ASSUME Init PROVE OrderInv
    OBVIOUS
  <2>2. finished = {} /\ declarative = {} /\ \A u \in Uploads : task[u].i = 1
    BY <2>1, NoTaskFacts DEF Init
  <2> QED
    BY <2>2 DEF OrderInv, Done, BatchInOrder
<1>2. StageInv /\ OrderInv /\ [Next]_vars => OrderInv'
  <2>1. SUFFICES ASSUME StageInv, OrderInv, [Next]_vars PROVE OrderInv'
    OBVIOUS
  <2>2. CASE UNCHANGED vars
    <3>1. UNCHANGED <<request, finished, declarative, task>>
      BY <2>2 DEF vars, history
    <3> QED
      BY <2>1, <3>1, AskOrder
  <2>3. ASSUME NEW u \in Uploads, Work(u) PROVE OrderInv'
    BY <2>1, <2>3, WorkOrder
  <2>4. CASE ResetHandlers(Loop) \/ HookHandlers(Loop)
    <3>1. UNCHANGED <<request, finished, declarative, task>>
      BY <2>1, <2>4, ThreadFacts, ResetHandlersFacts, HookHandlersFacts
    <3> QED
      BY <2>1, <3>1, AskOrder
  <2>5. ASSUME NEW u \in Uploads, CheckTypes(u) PROVE OrderInv'
    <3>1. request[u].status = "checked" /\ UNCHANGED <<finished, declarative, task>>
      BY <2>1, <2>5, CheckTypesFacts
    <3>2. \A v \in Uploads \ {u} : request'[v] = request[v]
      BY <2>1, <2>5, CheckTypesFacts DEF Asks
    <3> QED
      BY <2>1, <3>1, <3>2, AskOrder
  <2>6. ASSUME NEW b \in Batches, upload_files(b.files, b.size) PROVE OrderInv'
    <3>1. PICK w \in Uploads : request[w].status = "none" /\ \E r \in Request : Asks(w, r)
      BY <2>1, <2>6, upload_filesFacts
    <3>2. UNCHANGED <<finished, declarative, task>>
      BY <2>1, <2>6, upload_filesFacts
    <3> QED
      BY <2>1, <3>1, <3>2, AskOrder DEF Asks
  <2>7. ASSUME NEW w \in Uploads, NEW r \in Request, Answers(w, r) PROVE OrderInv'
    <3>1. /\ request[w].status = "none" /\ UNCHANGED <<finished, declarative, task>>
          /\ \A v \in Uploads \ {w} : request'[v] = request[v]
      BY <2>7 DEF Answers, Asks
    <3> QED
      BY <2>1, <3>1, AskOrder
  <2>8. ASSUME NEW url \in Urls, NEW size \in Sizes, upload_url(url, size) PROVE OrderInv'
    BY <2>1, <2>7, <2>8, upload_urlFacts
  <2>9. ASSUME NEW f \in Files \union Memories, upload_memory(f) PROVE OrderInv'
    BY <2>1, <2>7, <2>9, upload_memoryFacts
  <2>10. CASE TogglePlugin
    BY <2>1, <2>10, TogglePluginFacts, AskOrder
  <2>11. ASSUME NEW source \in Files \union Urls, delete_memory_points_by_metadata(source) PROVE OrderInv'
    BY <2>1, <2>11, DeleteFacts, AskOrder
  <2> QED
    BY <2>1, <2>2, <2>3, <2>4, <2>5, <2>6, <2>8, <2>9, <2>10, <2>11 DEF Next, Handle, Ask
<1> QED
  BY <1>1, <1>2, StageInvariant, PTL DEF Spec

-----------------------------------------------------------------------------
(* Chunks and their sizes *)

\* Points of uploads stay in memory, or are remembered as deleted.
KeepsStored == \A u \in Uploads : \A i, n : <<u, i, n>> \in Stored => <<u, i, n>> \in Stored'

\* A step of upload u is not seen by a thread that splits alone.
Undisturbed(u) ==
    \A v \in Uploads \ {u} : SplitsAlone(v)' =>
        SplitsAlone(v) /\ pc'[u] \notin Splitting /\ UNCHANGED <<chunk_size, text_splitter>>

\* New points are of the size that was asked for.
OfSize(p) ==
    \/ p \in declarative
    \/ ~p.own
    \/ \E u \in Uploads : p.id[1] = u /\ p.size = Limit(request'[u].size)

\* New reports are of complete files.
Complete(f) ==
    /\ \A n \in (1 .. f.n) \ f.missing : <<f.u, f.i, n>> \in Stored'
    /\ f.page /\ f.own => f.n = Kept(Length[request'[f.u].files[f.i]], Limit(request'[f.u].size))

\* What a step has to show.
LEMMA SplitStep ==
    ASSUME OrderInv, SplitInv, KeepsStored,
           \A v \in Uploads : request[v].status = "accepted" => request'[v] = request[v],
           \A v \in Uploads : SplitOK(v)' /\ StoredOK(v)',
           \A p \in declarative' : OfSize(p), \A f \in finished' : f \in finished \/ Complete(f)
    PROVE  SplitInv'
<1>1. ASSUME NEW u \in Uploads, NEW p \in declarative', p.own, p.id[1] = u
      PROVE  p.size = Limit(request'[u].size)
  <2>1. CASE p \in declarative
    <3>1. request[u].status = "accepted"
      BY <1>1, <2>1 DEF OrderInv, BatchInOrder
    <3>2. p.size = Limit(request[u].size)
      BY <1>1, <2>1 DEF SplitInv, SplitAsAsked
    <3> QED
      BY <3>1, <3>2
  <2>2. CASE p \notin declarative
    BY <1>1, <2>2 DEF OfSize
  <2> QED
    BY <2>1, <2>2
<1>2. ASSUME NEW f \in finished' PROVE Complete(f)
  <2>1. CASE f \in finished
    <3>1. f.u \in Uploads /\ request'[f.u] = request[f.u]
      BY <2>1 DEF OrderInv
    <3>2. /\ \A n \in (1 .. f.n) \ f.missing : <<f.u, f.i, n>> \in Stored
          /\ f.page /\ f.own => f.n = Kept(Length[request[f.u].files[f.i]], Limit(request[f.u].size))
      BY <2>1 DEF SplitInv, FinishedIsComplete, Stored
    <3> QED
      BY <3>1, <3>2 DEF Complete, KeepsStored
  <2> QED
    BY <2>1
<1>3. SplitAsAsked'
  BY <1>1 DEF SplitAsAsked
<1>4. FinishedIsComplete'
  BY <1>2 DEF FinishedIsComplete, Complete, Stored
<1> QED
  BY <1>3, <1>4 DEF SplitInv

\* A thread that does not move keeps its chunks.
LEMMA SplitSame ==
    ASSUME NEW v \in Uploads, SplitOK(v), StoredOK(v), task'[v] = task[v], pc'[v] = pc[v],
           pc[v] \in Working => request'[v] = request[v], KeepsStored,
           SplitsAlone(v)' => /\ SplitsAlone(v) /\ UNCHANGED <<chunk_size, text_splitter>>
                              /\ \A w \in Uploads \ {v} : pc'[w] \notin Splitting
    PROVE  SplitOK(v)' /\ StoredOK(v)'
<1>1. pc[v] \in Working => File(v)' = File(v) /\ SizeOf(v)' = SizeOf(v) /\ AllChunks(v)' = AllChunks(v)
  BY DEF File, SizeOf, AllChunks
<1>2. SplitOK(v)'
  BY <1>1 DEF SplitOK, Working
<1>3. StoredOK(v)'
  BY DEF StoredOK, KeepsStored
<1> QED
  BY <1>2, <1>3

\* The step of a thread that reads files.
LEMMA WorkSplitStep ==
    ASSUME StageInv, OrderInv, SplitInv, NEW u \in Uploads, NEW p, Goes(u, p), request' = request,
           \A v \in Uploads \ {u} : task'[v] = task[v],
           KeepsStored, Undisturbed(u), SplitOK(u)', StoredOK(u)',
           \A q \in declarative' : OfSize(q), \A f \in finished' : f \in finished \/ Complete(f)
    PROVE  SplitInv'
<1>1. ASSUME NEW v \in Uploads \ {u} PROVE SplitOK(v)' /\ StoredOK(v)'
  <2>1. /\ task'[v] = task[v] /\ request'[v] = request[v] /\ SplitOK(v) /\ StoredOK(v)
        /\ \A w \in Uploads \ {u} : pc'[w] = pc[w]
    BY ThreadFacts DEF Goes, SplitInv
  <2>2. SplitsAlone(v)' => /\ SplitsAlone(v) /\ UNCHANGED <<chunk_size, text_splitter>>
                           /\ \A w \in Uploads \ {v} : pc'[w] \notin Splitting
    BY <2>1 DEF Undisturbed, SplitOK
  <2> QED
    BY <2>1, <2>2, SplitSame
<1>2. \A v \in Uploads : SplitOK(v)' /\ StoredOK(v)'
  BY <1>1
<1> QED
  BY <1>2, SplitStep

\* Steps that leave the splitters and enter no split disturb nobody.
LEMMA NotSplitting ==
    ASSUME NEW u \in Uploads, NEW p, Goes(u, p), p \notin Splitting, UNCHANGED <<chunk_size, text_splitter>>,
           \A o \in Threads \ {u} : alone'[o] => alone[o]
    PROVE  Undisturbed(u)
  BY ThreadFacts DEF Undisturbed, SplitsAlone, Goes

\* A thread that is splitting disturbs nobody who splits alone.
LEMMA AlreadySplitting ==
    ASSUME SplitInv, NEW u \in Uploads, NEW p, Goes(u, p), pc[u] \in Splitting, alone' = alone
    PROVE  Undisturbed(u)
<1>1. ASSUME NEW v \in Uploads \ {u} PROVE ~SplitsAlone(v)'
  <2>1. pc'[v] = pc[v]
    BY ThreadFacts DEF Goes
  <2>2. ~SplitsAlone(v)
    BY DEF SplitInv, SplitOK
  <2> QED
    BY <2>1, <2>2 DEF SplitsAlone
<1> QED
  BY <1>1 DEF Undisturbed

\* Nothing is stored or reported.
LEMMA NothingStored ==
    ASSUME UNCHANGED <<declarative, removed, finished>>
    PROVE  /\ KeepsStored /\ Stored' = Stored /\ \A q \in declarative' : OfSize(q)
           /\ \A f \in finished' : f \in finished \/ Complete(f)
  BY DEF KeepsStored, Stored, OfSize

\* Before the text is parsed there is no chunk.
LEMMA UnsplitOK ==
    ASSUME NEW u \in Uploads, pc'[u] \in {"reset_handlers", "hook_handlers", "get_handlers"},
           task'[u].chunks = << >>, task'[u].k = 1
    PROVE  SplitOK(u)' /\ StoredOK(u)'
<1>1. SplitOK(u)'
  BY DEF SplitOK, SplitsAlone, Splitting
<1>2. StoredOK(u)'
  BY DEF StoredOK
<1> QED
  BY <1>1, <1>2

\* After a task there is none either.
LEMMA OverOK ==
    ASSUME NEW u \in Uploads, pc'[u] \in Ended \union {"memory"}
    PROVE  SplitOK(u)' /\ StoredOK(u)'
  BY DEF SplitOK, StoredOK, SplitsAlone, Splitting, Ended, Working

\* A thread up to the parser.
LEMMA BeforeSplit ==
    ASSUME StageInv, OrderInv, SplitInv, NEW u \in Uploads,
           Fetch(u) \/ ResetHandlers(u) \/ HookHandlers(u) \/ Parse(u)
    PROVE  SplitInv'
<1>1. u \in Threads /\ StoredOK(u) /\ SplitOK(u) /\ task \in [Uploads -> Task]
  BY ThreadFacts DEF SplitInv, StageInv, TypeOK
<1>2. CASE Fetch(u)
  <2>1. PICK x \in Task : Becomes(u, x) /\ x.k = task[u].k /\ x.chunks = task[u].chunks
    BY <1>2, FetchFacts
  <2>2. /\ pc[u] = "fetch" /\ Goes(u, "reset_handlers")
        /\ UNCHANGED <<request, text_splitter, chunk_size, declarative, finished, removed, alone>>
    BY <1>2, FetchFacts
  <2>3. task[u].chunks = << >> /\ task[u].k = 1
    BY <1>1, <2>2 DEF SplitOK, StoredOK, Working
  <2>4. SplitOK(u)' /\ StoredOK(u)'
    BY <2>1, <2>2, <2>3, UnsplitOK DEF Becomes, Goes
  <2>5. Undisturbed(u)
    BY <2>2, NotSplitting DEF Splitting
  <2> QED
    BY <2>1, <2>2, <2>4, <2>5, NothingStored, WorkSplitStep DEF Becomes
<1>3. CASE ResetHandlers(u) \/ HookHandlers(u)
  <2>1. PICK p \in {"hook_handlers", "get_handlers"} : Goes(u, p)
    BY <1>1, <1>3, ResetHandlersFacts, HookHandlersFacts
  <2>2. /\ pc[u] \in {"reset_handlers", "hook_handlers"}
        /\ \A o \in Threads \ {u} : alone'[o] => alone[o]
        /\ UNCHANGED <<request, task, text_splitter, chunk_size, declarative, finished, removed>>
    BY <1>1, <1>3, ResetHandlersFacts, HookHandlersFacts
  <2>3. task[u].chunks = << >> /\ task[u].k = 1
    BY <1>1, <2>2 DEF SplitOK, StoredOK, Working
  <2>4. SplitOK(u)' /\ StoredOK(u)'
    BY <2>1, <2>2, <2>3, UnsplitOK DEF Goes
  <2>5. Undisturbed(u)
    BY <2>1, <2>2, NotSplitting DEF Splitting
  <2> QED
    BY <2>1, <2>2, <2>4, <2>5, NothingStored, WorkSplitStep
<1>4. CASE Parse(u)
  <2>1. PICK x \in Task : /\ Becomes(u, x) /\ x.i = task[u].i /\ x.k = task[u].k /\ x.chunks = task[u].chunks
                          /\ x.page => x.rest = Length[File(u)]
    BY <1>4, ParseFacts
  <2>2. PICK p \in {"reset_splitter", "no_parser"} : Goes(u, p)
    BY <1>4, ParseFacts
  <2>3. /\ pc[u] = "get_handlers"
        /\ UNCHANGED <<request, text_splitter, chunk_size, declarative, finished, removed, alone>>
    BY <1>4, ParseFacts
  <2>4. task[u].chunks = << >> /\ task[u].k = 1
    BY <1>1, <2>3 DEF SplitOK, StoredOK, Working
  <2>5. task'[u] = x /\ pc'[u] = p /\ File(u)' = File(u)
    BY <2>1, <2>2, <2>3 DEF Becomes, Goes, File
  <2>6. SplitOK(u)' /\ StoredOK(u)'
    <3>1. CASE p = "reset_splitter"
      <4>1. SplitOK(u)'
        BY <2>1, <2>4, <2>5, <3>1 DEF SplitOK, SplitsAlone, Splitting
      <4>2. StoredOK(u)'
        BY <2>1, <2>4, <2>5, <3>1 DEF StoredOK
      <4> QED
        BY <4>1, <4>2
    <3>2. CASE p = "no_parser"
      BY <2>5, <3>2, OverOK DEF Ended
    <3> QED
      BY <3>1, <3>2
  <2>7. Undisturbed(u)
    BY <2>2, <2>3, NotSplitting DEF Splitting
  <2> QED
    BY <2>1, <2>2, <2>3, <2>6, <2>7, NothingStored, WorkSplitStep DEF Becomes
<1> QED
  BY <1>2, <1>3, <1>4

\* A thread that makes its splitter and cuts the text.
LEMMA DuringSplit ==
    ASSUME StageInv, OrderInv, SplitInv, NEW u \in Uploads,
           ResetSplitter(u) \/ HookSplitter(u) \/ GetSplitter(u) \/ CutChunk(u) \/ SplitDone(u)
    PROVE  SplitInv'
<1>1. /\ u \in Threads /\ StoredOK(u) /\ SplitOK(u) /\ Uploads \subseteq Threads
      /\ task \in [Uploads -> Task] /\ task[u] \in Task /\ alone \in [Threads -> BOOLEAN]
  BY ThreadFacts DEF SplitInv, StageInv, TypeOK
<1>2. SizeOf(u) \in Big /\ request[u].size \in Big \union {0}
  BY SizeFacts DEF StageInv, TypeOK, Request, SizeOf
<1>3. CASE ResetSplitter(u)
  <2>1. /\ pc[u] = "reset_splitter" /\ Goes(u, "hook_splitter") /\ chunk_size'[text_splitter'] = DefaultSize
        /\ alone'[u] <=> \A o \in Threads \ {u} : pc[o] \notin Splitting
        /\ \A o \in Threads \ {u} : alone'[o] <=> (alone[o] /\ pc[o] \notin Splitting)
        /\ UNCHANGED <<request, task, declarative, finished, removed>>
    BY <1>3, ResetSplitterFacts
  <2>2. pc'[u] = "hook_splitter" /\ \A v \in Threads \ {u} : pc'[v] = pc[v]
    BY <2>1 DEF Goes
  <2>3. File(u)' = File(u)
    BY <2>1 DEF File
  <2>4. SplitOK(u)'
    BY <1>1, <2>1, <2>2, <2>3 DEF SplitOK, SplitsAlone, Working
  <2>5. StoredOK(u)'
    BY <1>1, <2>1, <2>2 DEF StoredOK, Working, Stored
  <2>6. Undisturbed(u)
    BY <1>1, <2>1, <2>2 DEF Undisturbed, SplitsAlone
  <2> QED
    BY <2>1, <2>4, <2>5, <2>6, NothingStored, WorkSplitStep
<1>4. CASE HookSplitter(u)
  <2>1. /\ pc[u] = "hook_splitter" /\ Goes(u, "get_splitter") /\ chunk_size'[text_splitter'] = chunk_size[text_splitter]
        /\ UNCHANGED <<request, task, declarative, finished, removed, alone>>
    BY <1>4, HookSplitterFacts
  <2>2. pc'[u] = "get_splitter" /\ \A v \in Threads \ {u} : pc'[v] = pc[v]
    BY <2>1 DEF Goes
  <2>3. File(u)' = File(u)
    BY <2>1 DEF File
  <2>4. SplitOK(u)'
    BY <1>1, <2>1, <2>2, <2>3 DEF SplitOK, SplitsAlone, Working, Splitting
  <2>5. StoredOK(u)'
    BY <1>1, <2>1, <2>2 DEF StoredOK, Working, Stored
  <2>6. Undisturbed(u)
    BY <2>1, AlreadySplitting DEF Splitting
  <2> QED
    BY <2>1, <2>4, <2>5, <2>6, NothingStored, WorkSplitStep
<1>5. CASE GetSplitter(u)
  <2>1. PICK x \in Task : /\ Becomes(u, x) /\ x.i = task[u].i /\ x.k = task[u].k
                          /\ x.chunks = task[u].chunks /\ x.rest = task[u].rest /\ x.splitter = text_splitter
                          /\ x.missing = task[u].missing /\ (x.page <=> task[u].page)
    BY <1>5, GetSplitterFacts
  <2>2. /\ pc[u] = "get_splitter" /\ Goes(u, "split")
        /\ chunk_size'[text_splitter] = IF request[u].size = 0 THEN chunk_size[text_splitter] ELSE request[u].size
        /\ UNCHANGED <<request, text_splitter, declarative, finished, removed, alone>>
    BY <1>5, GetSplitterFacts
  <2>3. pc'[u] = "split" /\ task'[u] = x /\ \A v \in Threads \ {u} : pc'[v] = pc[v]
    BY <2>1, <2>2 DEF Goes, Becomes
  <2>4. File(u)' = File(u) /\ SizeOf(u)' = SizeOf(u) /\ AllChunks(u)' = AllChunks(u)
    BY <2>1, <2>2, <2>3 DEF File, SizeOf, AllChunks
  <2>5. /\ task[u].chunks = << >> /\ task[u].k = 1 /\ (task[u].page => task[u].rest = Length[File(u)])
        /\ SplitsAlone(u) => /\ chunk_size[text_splitter] = DefaultSize
                             /\ \A v \in Uploads \ {u} : pc[v] \notin Splitting
    BY <1>1, <2>2 DEF SplitOK, StoredOK, Working
  <2>6. SplitsAlone(u)' => SplitsAlone(u)
    BY <2>2 DEF SplitsAlone, Splitting
  <2>7. SplitsAlone(u) => chunk_size'[text_splitter] = SizeOf(u)
    BY <2>2, <2>5 DEF SizeOf, Limit
  <2>8. task[u].page => Len(x.chunks) + Kept(x.rest, SizeOf(u)) = AllChunks(u)
    <3>1. SUFFICES ASSUME task[u].page PROVE Len(x.chunks) + Kept(x.rest, SizeOf(u)) = AllChunks(u)
      OBVIOUS
    <3>2. x.rest = Length[File(u)] /\ Len(x.chunks) = 0 /\ x.rest \in Nat
      BY <2>1, <2>5, <3>1 DEF Task
    <3>3. Kept(x.rest, SizeOf(u)) \in Nat
      BY <1>2, <3>2, KeptNat
    <3> QED
      BY <3>2, <3>3 DEF AllChunks
  <2>9. SplitOK(u)'
    BY <1>1, <2>1, <2>2, <2>3, <2>4, <2>5, <2>6, <2>7, <2>8 DEF SplitOK, Working
  <2>10. StoredOK(u)'
    BY <2>1, <2>3, <2>5 DEF StoredOK
  <2>11. Undisturbed(u)
    BY <2>2, AlreadySplitting DEF Splitting
  <2> QED
    BY <2>1, <2>2, <2>9, <2>10, <2>11, NothingStored, WorkSplitStep DEF Becomes
<1>6. CASE CutChunk(u)
  <2> DEFINE size == chunk_size[task[u].splitter]
             cut == IF task[u].rest < size THEN task[u].rest ELSE size
  <2>1. PICK x \in Task : /\ Becomes(u, x) /\ x.i = task[u].i /\ x.k = task[u].k
                          /\ x.chunks = IF cut > TooShort THEN Append(task[u].chunks, size) ELSE task[u].chunks
                          /\ x.rest = task[u].rest - cut /\ x.splitter = task[u].splitter
                          /\ x.missing = task[u].missing /\ (x.page <=> task[u].page)
    BY <1>6, CutChunkFacts
  <2>2. /\ pc[u] = "split" /\ task[u].rest \in Nat /\ task[u].rest > 0 /\ size \in Big
        /\ UNCHANGED <<request, pc, text_splitter, chunk_size, declarative, finished, removed, alone>>
    BY <1>6, CutChunkFacts
  <2>3. Goes(u, "split") /\ task'[u] = x
    BY <2>1, <2>2, Stays DEF Becomes
  <2>4. File(u)' = File(u) /\ SizeOf(u)' = SizeOf(u) /\ AllChunks(u)' = AllChunks(u)
    BY <2>1, <2>2, <2>3 DEF File, SizeOf, AllChunks
  <2>5. ASSUME SplitsAlone(u)
        PROVE  /\ \A n \in DOMAIN x.chunks : x.chunks[n] = SizeOf(u)
               /\ x.page => Len(x.chunks) + Kept(x.rest, SizeOf(u)) = AllChunks(u)
    <3>1. /\ size = SizeOf(u) /\ \A n \in DOMAIN task[u].chunks : task[u].chunks[n] = SizeOf(u)
          /\ task[u].page => Len(task[u].chunks) + Kept(task[u].rest, SizeOf(u)) = AllChunks(u)
      BY <1>1, <2>2, <2>5 DEF SplitOK
    <3>2. task[u].chunks \in Seq(Big) /\ Len(task[u].chunks) \in Nat
      BY <1>1 DEF Task
    <3>3. /\ Kept(task[u].rest, size) \in Nat /\ Kept(task[u].rest - cut, size) \in Nat
          /\ Kept(task[u].rest, size) = Kept(task[u].rest - cut, size) + IF cut > TooShort THEN 1 ELSE 0
      BY <2>2, KeptStep
    <3>4. CASE cut > TooShort
      <4>1. x.chunks = Append(task[u].chunks, size)
        BY <2>1, <3>4
      <4>2. Len(x.chunks) = Len(task[u].chunks) + 1
        BY <2>2, <3>2, <4>1
      <4>3. \A n \in DOMAIN x.chunks : n \in DOMAIN task[u].chunks \/ n = Len(task[u].chunks) + 1
        BY <2>2, <3>2, <4>1
      <4>4. \A n \in DOMAIN x.chunks : x.chunks[n] = SizeOf(u)
        BY <2>2, <3>1, <3>2, <4>1, <4>3
      <4>5. Kept(x.rest, SizeOf(u)) + 1 = Kept(task[u].rest, SizeOf(u)) /\ Kept(x.rest, SizeOf(u)) \in Nat
        BY <2>1, <3>1, <3>3, <3>4
      <4>6. Len(x.chunks) + Kept(x.rest, SizeOf(u)) = Len(task[u].chunks) + Kept(task[u].rest, SizeOf(u))
        <5> HIDE DEF size, cut
        <5> QED
          BY <3>2, <4>2, <4>5
      <4> QED
        BY <2>1, <3>1, <4>4, <4>6
    <3>5. CASE ~(cut > TooShort)
      <4>1. x.chunks = task[u].chunks
        BY <2>1, <3>5
      <4>2. Kept(x.rest, SizeOf(u)) = Kept(task[u].rest, SizeOf(u))
        BY <2>1, <3>1, <3>3, <3>5
      <4> QED
        BY <2>1, <3>1, <4>1, <4>2
    <3> QED
      BY <3>4, <3>5
  <2>6. SplitsAlone(u)' => SplitsAlone(u)
    BY <2>2 DEF SplitsAlone
  <2> HIDE DEF size, cut
  <2>7. SplitOK(u)'
    BY <1>1, <2>1, <2>2, <2>3, <2>4, <2>5, <2>6 DEF SplitOK, Working
  <2>8. StoredOK(u)'
    BY <1>1, <2>1, <2>2, <2>3 DEF StoredOK, Working, Stored
  <2>9. Undisturbed(u)
    BY <2>2, <2>3, AlreadySplitting DEF Splitting
  <2> QED
    BY <2>1, <2>2, <2>3, <2>7, <2>8, <2>9, NothingStored, WorkSplitStep DEF Becomes
<1>7. CASE SplitDone(u)
  <2>1. PICK x \in Task : /\ Becomes(u, x) /\ x.i = task[u].i /\ x.k = task[u].k /\ x.chunks = task[u].chunks
                          /\ (x.own <=> alone[u]) /\ x.missing = task[u].missing /\ (x.page <=> task[u].page)
    BY <1>7, SplitDoneFacts
  <2>2. /\ pc[u] = "split" /\ task[u].rest = 0 /\ Goes(u, "store")
        /\ UNCHANGED <<request, text_splitter, chunk_size, declarative, finished, removed, alone>>
    BY <1>7, SplitDoneFacts
  <2>3. pc'[u] = "store" /\ task'[u] = x
    BY <2>1, <2>2 DEF Becomes, Goes
  <2>4. File(u)' = File(u) /\ SizeOf(u)' = SizeOf(u) /\ AllChunks(u)' = AllChunks(u)
    BY <2>1, <2>2, <2>3 DEF File, SizeOf, AllChunks
  <2>5. ASSUME x.own
        PROVE  /\ \A n \in DOMAIN x.chunks : x.chunks[n] = SizeOf(u)
               /\ x.page => Len(x.chunks) = AllChunks(u)
    <3>1. SplitsAlone(u)
      BY <2>1, <2>2, <2>5 DEF SplitsAlone, Splitting
    <3>2. /\ \A n \in DOMAIN task[u].chunks : task[u].chunks[n] = SizeOf(u)
          /\ task[u].page => Len(task[u].chunks) + Kept(0, SizeOf(u)) = AllChunks(u)
      BY <1>1, <2>2, <3>1 DEF SplitOK
    <3>3. Kept(0, SizeOf(u)) = 0 /\ Len(task[u].chunks) \in Nat
      BY <1>1, <1>2, KeptNothing DEF Task
    <3> QED
      BY <2>1, <3>2, <3>3
  <2>6. SplitOK(u)'
    BY <2>1, <2>3, <2>4, <2>5 DEF SplitOK, SplitsAlone, Splitting
  <2>7. StoredOK(u)'
    BY <1>1, <2>1, <2>2, <2>3 DEF StoredOK, Working
  <2>8. Undisturbed(u)
    BY <2>2, AlreadySplitting DEF Splitting
  <2> QED
    BY <2>1, <2>2, <2>6, <2>7, <2>8, NothingStored, WorkSplitStep DEF Becomes
<1> QED
  BY <1>3, <1>4, <1>5, <1>6, <1>7

\* A thread that stores its chunks, or ends.
LEMMA AfterSplit ==
    ASSUME StageInv, OrderInv, SplitInv, NEW u \in Uploads,
           StoreChunk(u) \/ SkipChunk(u) \/ FinishFile(u) \/ ingest_memory(u) \/ Fail(u)
    PROVE  SplitInv'
<1>1. u \in Threads /\ StoredOK(u) /\ SplitOK(u) /\ task[u] \in Task
  BY ThreadFacts DEF SplitInv, StageInv, TypeOK
<1>2. Point(u).id = <<u, task[u].i, task[u].k>> /\ (Point(u).own <=> task[u].own)
  BY <1>1 DEF Point, Task
<1>3. CASE StoreChunk(u) \/ SkipChunk(u)
  <2>1. PICK x \in Task : /\ Becomes(u, x) /\ x.i = task[u].i /\ x.k = task[u].k + 1
                          /\ x.chunks = task[u].chunks /\ (x.own <=> task[u].own) /\ (x.page <=> task[u].page)
                          /\ \/ declarative' = declarative \union {Point(u)} /\ x.missing = task[u].missing
                             \/ declarative' = declarative /\ x.missing = task[u].missing \union {task[u].k}
    BY <1>3, ChunkFacts
  <2>2. /\ pc[u] = "store" /\ task[u].k \in 1 .. Len(task[u].chunks)
        /\ UNCHANGED <<request, pc, text_splitter, chunk_size, finished, removed, alone>>
    BY <1>3, ChunkFacts
  <2>3. Goes(u, "store") /\ task'[u] = x
    BY <2>1, <2>2, Stays DEF Becomes
  <2>4. File(u)' = File(u) /\ SizeOf(u)' = SizeOf(u) /\ AllChunks(u)' = AllChunks(u)
    BY <2>1, <2>2, <2>3 DEF File, SizeOf, AllChunks
  <2>5. /\ Stored \subseteq Stored' /\ task[u].missing \subseteq x.missing
        /\ task[u].k \notin x.missing => Point(u).id \in Stored'
    BY <2>1, <2>2 DEF Stored
  <2>6. KeepsStored
    BY <2>5 DEF KeepsStored
  <2>7. SplitOK(u)'
    BY <1>1, <2>1, <2>2, <2>3, <2>4 DEF SplitOK, SplitsAlone, Splitting
  <2>8. StoredOK(u)'
    <3>1. SUFFICES ASSUME NEW n \in (1 .. x.k - 1) \ x.missing PROVE <<u, x.i, n>> \in Stored'
      BY <2>2, <2>3 DEF StoredOK
    <3>2. task[u].k \in Nat /\ (n \in 1 .. task[u].k - 1 \/ n = task[u].k)
      BY <1>1, <2>1, <3>1 DEF Task
    <3>3. n \in 1 .. task[u].k - 1 => <<u, task[u].i, n>> \in Stored
      BY <1>1, <2>2, <2>5, <3>1 DEF StoredOK, Working
    <3> QED
      BY <1>2, <2>1, <2>5, <3>1, <3>2, <3>3
  <2>9. OfSize(Point(u))
    <3>1. SUFFICES ASSUME task[u].own PROVE OfSize(Point(u))
      BY <1>2 DEF OfSize
    <3>2. task[u].chunks[task[u].k] = SizeOf(u)
      <4>1. task[u].k \in DOMAIN task[u].chunks
        BY <1>1, <2>2 DEF Task
      <4> QED
        BY <1>1, <2>2, <3>1, <4>1 DEF SplitOK
    <3>3. Point(u).size = Limit(request'[u].size) /\ Point(u).id[1] = u
      BY <1>2, <2>2, <3>2 DEF Point, SizeOf
    <3> QED
      BY <3>3 DEF OfSize
  <2>10. \A q \in declarative' : OfSize(q)
    <3>1. \A q \in declarative : OfSize(q)
      BY DEF OfSize
    <3> QED
      BY <2>1, <2>9, <3>1
  <2>11. Undisturbed(u)
    BY <2>2, <2>3, NotSplitting DEF Splitting
  <2> QED
    BY <2>1, <2>2, <2>3, <2>6, <2>7, <2>8, <2>10, <2>11, WorkSplitStep DEF Becomes
<1>4. CASE FinishFile(u)
  <2>1. /\ pc[u] = "store" /\ task[u].k > Len(task[u].chunks) /\ finished' = finished \union {Report(u)}
        /\ UNCHANGED <<request, text_splitter, chunk_size, declarative, removed, alone>>
    BY <1>4, FinishFileFacts
  <2>2. PICK p \in {"reset_handlers", "idle"} : /\ Goes(u, p)
                                                /\ \E x \in Task : /\ Becomes(u, x)
                                                                   /\ p = "reset_handlers" => x.k = 1 /\ x.chunks = << >>
    BY <1>4, FinishFileFacts, NoTaskFacts
  <2>3. PICK x \in Task : Becomes(u, x) /\ (p = "reset_handlers" => x.k = 1 /\ x.chunks = << >>)
    BY <2>2
  <2>4. task'[u] = x /\ pc'[u] = p
    BY <2>2, <2>3 DEF Becomes, Goes
  <2>5. SplitOK(u)' /\ StoredOK(u)'
    <3>1. CASE p = "reset_handlers"
      BY <2>3, <2>4, <3>1, UnsplitOK
    <3>2. CASE p = "idle"
      BY <2>4, <3>2, OverOK DEF Ended
    <3> QED
      BY <3>1, <3>2
  <2>6. Stored' = Stored /\ KeepsStored /\ \A q \in declarative' : OfSize(q)
    BY <2>1 DEF KeepsStored, Stored, OfSize
  <2>7. Complete(Report(u))
    <3>1. /\ Report(u).u = u /\ Report(u).i = task[u].i
          /\ Report(u).n = Len(task[u].chunks) /\ Report(u).missing = task[u].missing
          /\ Report(u).own = task[u].own /\ Report(u).page = task[u].page
      BY DEF Report
    <3>2. task[u].page /\ task[u].own => Len(task[u].chunks) = AllChunks(u)
      BY <1>1, <2>1 DEF SplitOK
    <3>3. ASSUME NEW n \in (1 .. Len(task[u].chunks)) \ task[u].missing PROVE <<u, task[u].i, n>> \in Stored'
      <4>1. n \in (1 .. task[u].k - 1) \ task[u].missing
        BY <1>1, <2>1, <3>3 DEF Task
      <4> QED
        BY <1>1, <2>1, <2>6, <4>1 DEF StoredOK, Working
    <3> QED
      BY <2>1, <3>1, <3>2, <3>3 DEF Complete, AllChunks, SizeOf, File
  <2>8. Undisturbed(u)
    BY <2>1, <2>2, NotSplitting DEF Splitting
  <2> QED
    BY <2>1, <2>2, <2>3, <2>5, <2>6, <2>7, <2>8, WorkSplitStep DEF Becomes
<1>5. CASE Fail(u)
  <2>1. /\ Goes(u, "failed") /\ Becomes(u, NoTask)
        /\ UNCHANGED <<request, text_splitter, chunk_size, declarative, finished, removed, alone>>
    BY <1>5, FailFacts
  <2>2. SplitOK(u)' /\ StoredOK(u)'
    BY <2>1, OverOK DEF Goes, Ended
  <2>3. Undisturbed(u)
    BY <2>1, NotSplitting DEF Splitting
  <2> QED
    BY <2>1, <2>2, <2>3, NothingStored, WorkSplitStep DEF Becomes
<1>6. CASE ingest_memory(u)
  <2>1. /\ \A p \in declarative' : p \in declarative \/ (p.id[1] = 0 /\ ~p.own)
        /\ \A p \in declarative : p \in declarative' \/ p.id[1] = 0
        /\ UNCHANGED <<request, text_splitter, chunk_size, task, finished, removed, alone>>
    BY <1>6, ingest_memoryFacts
  <2>2. PICK p \in {"idle", "failed"} : Goes(u, p)
    BY <1>6, ingest_memoryFacts
  <2>3. SplitOK(u)' /\ StoredOK(u)'
    BY <2>2, OverOK DEF Goes, Ended
  <2>4. KeepsStored
    <3>1. SUFFICES ASSUME NEW v \in Uploads, NEW i, NEW n, <<v, i, n>> \in Stored PROVE <<v, i, n>> \in Stored'
      BY DEF KeepsStored
    <3>2. v # 0
      BY DEF Uploads
    <3>3. CASE <<v, i, n>> \in removed
      BY <2>1, <3>3 DEF Stored
    <3>4. CASE <<v, i, n>> \notin removed
      <4>1. PICK q \in declarative : q.id = <<v, i, n>>
        BY <3>1, <3>4 DEF Stored
      <4> QED
        BY <2>1, <3>2, <4>1 DEF Stored
    <3> QED
      BY <3>3, <3>4
  <2>5. Undisturbed(u)
    BY <2>1, <2>2, NotSplitting DEF Splitting
  <2>6. \A q \in declarative' : OfSize(q)
    BY <2>1 DEF OfSize
  <2> QED
    BY <2>1, <2>2, <2>3, <2>4, <2>5, <2>6, WorkSplitStep
<1> QED
  BY <1>3, <1>4, <1>5, <1>6

\* A request is made or answered: no file of it was read before.
LEMMA AskSplit ==
    ASSUME StageInv, OrderInv, SplitInv, NEW w \in Uploads, request[w].status \in {"none", "checked"},
           \A v \in Uploads \ {w} : request'[v] = request[v] /\ pc'[v] = pc[v],
           pc'[w] \in {"idle", "fetch", "memory", "reset_handlers"},
           UNCHANGED <<task, text_splitter, chunk_size, declarative, finished, removed, alone>>
    PROVE  SplitInv'
<1>1. task[w] = NoTask /\ pc[w] = "idle"
  BY DEF StageInv, UploadOK
<1>2. SplitOK(w)' /\ StoredOK(w)'
  <2>1. SplitOK(w)'
    BY <1>1, NoTaskFacts DEF SplitOK, SplitsAlone, Splitting
  <2>2. StoredOK(w)'
    BY <1>1, NoTaskFacts DEF StoredOK
  <2> QED
    BY <2>1, <2>2
<1>3. ASSUME NEW v \in Uploads \ {w} PROVE SplitOK(v)' /\ StoredOK(v)'
  <2>1. SplitsAlone(v)' => /\ SplitsAlone(v) /\ UNCHANGED <<chunk_size, text_splitter>>
                           /\ \A o \in Uploads \ {v} : pc'[o] \notin Splitting
    BY DEF SplitInv, SplitOK, SplitsAlone, Splitting
  <2> QED
    BY <2>1, NothingStored, SplitSame DEF SplitInv
<1>4. \A v \in Uploads : SplitOK(v)' /\ StoredOK(v)'
  BY <1>2, <1>3
<1> QED
  BY <1>4, NothingStored, SplitStep

\* A step that leaves the threads that read files; points may be deleted.
LEMMA QuietSplit ==
    ASSUME StageInv, OrderInv, SplitInv, \A v \in Uploads : pc'[v] = pc[v] /\ (alone'[v] => alone[v]),
           UNCHANGED <<request, task, text_splitter, chunk_size, finished>>,
           declarative' \subseteq declarative, removed \subseteq removed',
           \A p \in declarative : p \in declarative' \/ p.id \in removed'
    PROVE  SplitInv'
<1>1. KeepsStored /\ \A q \in declarative' : OfSize(q)
  BY DEF KeepsStored, Stored, OfSize
<1>2. ASSUME NEW v \in Uploads PROVE SplitOK(v)' /\ StoredOK(v)'
  <2>1. SplitsAlone(v)' => /\ SplitsAlone(v) /\ UNCHANGED <<chunk_size, text_splitter>>
                           /\ \A o \in Uploads \ {v} : pc'[o] \notin Splitting
    BY DEF SplitInv, SplitOK, SplitsAlone
  <2> QED
    BY <1>1, <2>1, SplitSame DEF SplitInv
<1> QED
  BY <1>1, <1>2, SplitStep

\* Files are cut as their requests ask, and are reported when they are complete.
LEMMA SplitInvariant == Spec => []SplitInv
<1>1. Init => SplitInv
  <2>1. SUFFICES ASSUME Init PROVE SplitInv
    OBVIOUS
  <2>2. finished = {} /\ declarative = {} /\ \A u \in Uploads : pc[u] = "idle"
    BY <2>1, ThreadFacts DEF Init
  <2>3. \A u \in Uploads : SplitOK(u) /\ StoredOK(u)
    BY <2>2 DEF SplitOK, StoredOK, SplitsAlone, Splitting, Working
  <2> QED
    BY <2>2, <2>3 DEF SplitInv, SplitAsAsked, FinishedIsComplete
<1>2. StageInv /\ OrderInv /\ SplitInv /\ [Next]_vars => SplitInv'
  <2>1. SUFFICES ASSUME StageInv, OrderInv, SplitInv, [Next]_vars PROVE SplitInv'
    OBVIOUS
  <2>2. CASE UNCHANGED vars
    <3>1. UNCHANGED <<request, pc, task, text_splitter, chunk_size, declarative, finished, removed, alone>>
      BY <2>2 DEF vars, hole, history
    <3> QED
      BY <2>1, <3>1, QuietSplit
  <2>3. ASSUME NEW u \in Uploads, Work(u) PROVE SplitInv'
    BY <2>1, <2>3, BeforeSplit, DuringSplit, AfterSplit DEF Work
  <2>4. CASE ResetHandlers(Loop) \/ HookHandlers(Loop)
    <3>1. /\ UNCHANGED <<request, task, text_splitter, chunk_size, declarative, finished, removed>>
          /\ \A v \in Uploads : pc'[v] = pc[v] /\ (alone'[v] => alone[v])
      BY <2>1, <2>4, ThreadFacts, ResetHandlersFacts, HookHandlersFacts DEF Goes
    <3> QED
      BY <2>1, <3>1, QuietSplit
  <2>5. ASSUME NEW u \in Uploads, CheckTypes(u) PROVE SplitInv'
    <3>1. /\ request[u].status = "checked" /\ pc'[u] \in {"reset_handlers", "idle"}
          /\ UNCHANGED <<text_splitter, chunk_size, task, declarative, finished, removed, alone>>
          /\ \A v \in Uploads \ {u} : pc'[v] = pc[v]
      BY <2>1, <2>5, CheckTypesFacts
    <3>2. \A v \in Uploads \ {u} : request'[v] = request[v]
      BY <2>1, <2>5, CheckTypesFacts DEF Asks
    <3> QED
      BY <2>1, <3>1, <3>2, AskSplit
  <2>6. ASSUME NEW b \in Batches, upload_files(b.files, b.size) PROVE SplitInv'
    <3>1. PICK w \in Uploads : request[w].status = "none" /\ \E r \in Request : Asks(w, r)
      BY <2>1, <2>6, upload_filesFacts
    <3>2. /\ \A v \in Uploads : pc'[v] = pc[v]
          /\ UNCHANGED <<text_splitter, chunk_size, task, declarative, finished, removed, alone>>
      BY <2>1, <2>6, upload_filesFacts, ThreadFacts DEF Goes
    <3>3. pc'[w] = "idle" /\ \A v \in Uploads \ {w} : request'[v] = request[v]
      BY <2>1, <3>1, <3>2 DEF Asks, StageInv, UploadOK
    <3> QED
      BY <2>1, <3>1, <3>2, <3>3, AskSplit
  <2>7. ASSUME NEW w \in Uploads, NEW r \in Request, Answers(w, r) PROVE SplitInv'
    <3>1. /\ request[w].status = "none"
          /\ UNCHANGED <<text_splitter, chunk_size, task, declarative, finished, removed, alone>>
          /\ \A v \in Uploads \ {w} : request'[v] = request[v]
      BY <2>7 DEF Answers, Asks
    <3>2. PICK p \in {"fetch", "memory", "idle"} : Goes(w, p)
      BY <2>7 DEF Answers
    <3>3. pc'[w] = p /\ \A v \in Uploads \ {w} : pc'[v] = pc[v]
      BY <3>2, ThreadFacts DEF Goes
    <3> QED
      BY <2>1, <3>1, <3>3, AskSplit
  <2>8. ASSUME NEW url \in Urls, NEW size \in Sizes, upload_url(url, size) PROVE SplitInv'
    BY <2>1, <2>7, <2>8, upload_urlFacts
  <2>9. ASSUME NEW f \in Files \union Memories, upload_memory(f) PROVE SplitInv'
    BY <2>1, <2>7, <2>9, upload_memoryFacts
  <2>10. CASE TogglePlugin
    BY <2>1, <2>10, TogglePluginFacts, QuietSplit
  <2>11. ASSUME NEW source \in Files \union Urls, delete_memory_points_by_metadata(source) PROVE SplitInv'
    BY <2>1, <2>11, DeleteFacts, QuietSplit
  <2> QED
    BY <2>1, <2>2, <2>3, <2>4, <2>5, <2>6, <2>8, <2>9, <2>10, <2>11 DEF Next, Handle, Ask
<1> QED
  BY <1>1, <1>2, StageInvariant, OrderInvariant, PTL DEF Spec

-----------------------------------------------------------------------------
(* Parsers *)

\* What AcceptedIsParsed says of one upload: of the default types ...
DefaultOK(u) ==
    /\ pc[u] = "no_parser" => Type[File(u)] \notin DefaultTypes
    /\ request[u].kind = "file" /\ request[u].status = "refused"
       => \E i \in DOMAIN request[u].files : Type[request[u].files[i]] \notin DefaultTypes

\* ... and of the plugin's.
PluginOK(u) ==
    /\ request[u].status = "accepted" /\ pc[u] = "no_parser" /\ task[u].sure
       => request[u].kind = "url"
    /\ request[u].kind = "file" /\ request[u].status = "refused" /\ request[u].sure
       => \E i \in DOMAIN request[u].files : Type[request[u].files[i]] \notin Parsers

ParsedOK(u) == DefaultOK(u) /\ (u \notin changed => PluginOK(u))

\* AcceptedIsParsed, upload by upload ...
LEMMA ParsedFacts ==
    AcceptedIsParsed <=> \A u \in Uploads : ParsedOK(u)
  BY DEF AcceptedIsParsed, ParsedOK, DefaultOK, PluginOK, Parsers

\* ... and after a step.
LEMMA ParsedNext ==
    AcceptedIsParsed' <=> \A u \in Uploads : ParsedOK(u)'
  BY DEF AcceptedIsParsed, ParsedOK, DefaultOK, PluginOK, Parsers

\* Threads that reload the parsers, when nobody begins to.
LEMMA ReloadSame ==
    ASSUME HandlersInv, UNCHANGED <<file_handlers, plugin_on, changed>>,
           \A t \in Threads : pc'[t] \in ReloadingHandlers =>
               pc'[t] = pc[t] /\ (alone'[t] => alone[t]) /\ (t \in missed => t \in missed')
    PROVE  /\ \A t \in Threads : HandlersOK(t)'
           /\ (pc[Loop] \in ReloadingHandlers => file_handlers \subseteq Parsers)'
           /\ (DefaultTypes \subseteq file_handlers)'
           /\ Parsers' = Parsers
<1>1. Parsers' = Parsers
  BY DEF Parsers
<1>2. ASSUME NEW t \in Threads PROVE HandlersOK(t)'
  <2>1. SUFFICES ASSUME ReloadsAlone(t)' PROVE HandlersOK(t)'
    BY DEF HandlersOK
  <2>2. ReloadsAlone(t) /\ pc'[t] = pc[t] /\ (t \notin missed' => t \notin missed)
    BY <2>1 DEF ReloadsAlone
  <2>3. /\ \A o \in Threads \ {t} : pc'[o] \notin ReloadingHandlers
        /\ pc[t] = "hook_handlers" => file_handlers = DefaultTypes
        /\ pc[t] = "get_handlers" /\ t \notin changed /\ t \notin missed => file_handlers = Parsers
    BY <2>2 DEF HandlersInv, HandlersOK
  <2> QED
    BY <1>1, <2>2, <2>3 DEF HandlersOK
<1>3. (pc[Loop] \in ReloadingHandlers => file_handlers \subseteq Parsers)'
  BY <1>1, ThreadFacts DEF HandlersInv
<1>4. (DefaultTypes \subseteq file_handlers)'
  BY DEF HandlersInv
<1> QED
  BY <1>1, <1>2, <1>3, <1>4

\* An upload whose request and outcome stay.
LEMMA ParsedSame ==
    ASSUME HandlersInv, NEW v \in Uploads, UNCHANGED <<plugin_on, changed>>, request'[v] = request[v],
           pc'[v] = "no_parser" => pc[v] = "no_parser" /\ task'[v] = task[v]
    PROVE  AcceptedOK(v)' /\ ParsedOK(v)'
<1>1. Parsers' = Parsers /\ AcceptedOK(v) /\ ParsedOK(v)
  BY ParsedFacts DEF HandlersInv, Parsers
<1>2. AcceptedOK(v)'
  BY <1>1 DEF AcceptedOK
<1>3. File(v)' = File(v) \/ pc'[v] # "no_parser"
  BY DEF File
<1>4. DefaultOK(v)'
  BY <1>1, <1>3 DEF ParsedOK, DefaultOK
<1>5. v \notin changed' => PluginOK(v)'
  BY <1>1 DEF ParsedOK, PluginOK
<1> QED
  BY <1>2, <1>4, <1>5 DEF ParsedOK

\* Steps that neither reload the parsers nor use them.
LEMMA QuietHandlers ==
    ASSUME HandlersInv, UNCHANGED <<request, file_handlers, plugin_on, changed, missed>>,
           \A t \in Threads : pc'[t] \in ReloadingHandlers => pc'[t] = pc[t] /\ (alone'[t] => alone[t]),
           \A v \in Uploads : pc'[v] = "no_parser" => pc[v] = "no_parser" /\ task'[v] = task[v]
    PROVE  HandlersInv'
<1>1. \A v \in Uploads : AcceptedOK(v)' /\ ParsedOK(v)'
  BY ParsedSame
<1>2. /\ \A t \in Threads : HandlersOK(t)'
      /\ (pc[Loop] \in ReloadingHandlers => file_handlers \subseteq Parsers)'
      /\ (DefaultTypes \subseteq file_handlers)'
  BY ReloadSame
<1>3. changed' \subseteq Uploads
  BY DEF HandlersInv
<1> QED
  BY <1>1, <1>2, <1>3, ParsedNext DEF HandlersInv

\* The same, for a thread that reads files.
LEMMA WorkQuiet ==
    ASSUME HandlersInv, NEW u \in Uploads, NEW p, Goes(u, p), p \notin ReloadingHandlers \union {"no_parser"},
           UNCHANGED <<request, file_handlers, plugin_on, changed, missed>>,
           \A v \in Uploads \ {u} : task'[v] = task[v], \A o \in Threads \ {u} : alone'[o] => alone[o]
    PROVE  HandlersInv'
<1>1. pc'[u] = p /\ \A o \in Threads \ {u} : pc'[o] = pc[o]
  BY DEF Goes
<1> QED
  BY <1>1, ThreadFacts, QuietHandlers

\* A thread reloads the parsers: whoever was reloading them is no longer alone.
LEMMA ReloadHandlers ==
    ASSUME StageInv, HandlersInv, NEW t \in Threads, ResetHandlers(t) \/ HookHandlers(t)
    PROVE  HandlersInv'
<1>1. PICK p \in {"hook_handlers", "get_handlers"} : Goes(t, p)
  BY ResetHandlersFacts, HookHandlersFacts
<1>2. pc'[t] = p /\ \A o \in Threads \ {t} : pc'[o] = pc[o]
  BY <1>1 DEF Goes
<1>3. UNCHANGED <<request, task, plugin_on, changed>> /\ Parsers' = Parsers
  BY ResetHandlersFacts, HookHandlersFacts DEF Parsers
<1>4. \A v \in Uploads : AcceptedOK(v)' /\ ParsedOK(v)'
  <2>1. \A v \in Uploads : pc'[v] = "no_parser" => pc[v] = "no_parser"
    BY <1>2, ThreadFacts
  <2> QED
    BY <1>3, <2>1, ParsedSame
<1>5. ASSUME NEW o \in Threads \ {t} PROVE ~ReloadsAlone(o)'
  <2>1. CASE ResetHandlers(t)
    BY <1>2, <2>1, ResetHandlersFacts DEF ReloadsAlone
  <2>2. CASE HookHandlers(t)
    <3>1. pc[t] \in ReloadingHandlers /\ alone' = alone
      BY <2>2, HookHandlersFacts DEF ReloadingHandlers
    <3>2. ~ReloadsAlone(o)
      BY <3>1 DEF HandlersInv, HandlersOK
    <3> QED
      BY <1>2, <3>1, <3>2 DEF ReloadsAlone
  <2> QED
    BY <2>1, <2>2
<1>6. HandlersOK(t)'
  <2>1. CASE ResetHandlers(t)
    BY <1>2, <2>1, ResetHandlersFacts DEF HandlersOK, ReloadsAlone, Goes
  <2>2. CASE HookHandlers(t)
    <3>1. /\ pc[t] = "hook_handlers" /\ pc'[t] = "get_handlers" /\ alone' = alone
          /\ \/ file_handlers' = file_handlers \union (IF plugin_on THEN PluginTypes ELSE {})
             \/ t \in missed'
      BY <2>2, HookHandlersFacts DEF Goes
    <3>2. ReloadsAlone(t)' => ReloadsAlone(t)
      BY <3>1 DEF ReloadsAlone, ReloadingHandlers
    <3>3. ReloadsAlone(t) => /\ \A o \in Threads \ {t} : pc[o] \notin ReloadingHandlers
                             /\ file_handlers = DefaultTypes
      BY <3>1 DEF HandlersInv, HandlersOK
    <3>4. file_handlers = DefaultTypes => file_handlers' = Parsers \/ t \in missed'
      BY <3>1 DEF Parsers
    <3> QED
      BY <1>2, <1>3, <3>1, <3>2, <3>3, <3>4 DEF HandlersOK
  <2> QED
    BY <2>1, <2>2
<1>7. (pc[Loop] \in ReloadingHandlers => file_handlers \subseteq Parsers)'
  <2>1. CASE ResetHandlers(t)
    BY <1>3, <2>1, ResetHandlersFacts DEF Parsers
  <2>2. CASE HookHandlers(t)
    <3>1. /\ pc[t] = "hook_handlers"
          /\ \/ file_handlers' = file_handlers \union (IF plugin_on THEN PluginTypes ELSE {})
             \/ file_handlers' = file_handlers
      BY <2>2, HookHandlersFacts
    <3>2. pc'[Loop] \in ReloadingHandlers => pc[Loop] \in ReloadingHandlers
      BY <1>2, <3>1, ThreadFacts DEF ReloadingHandlers
    <3> QED
      BY <1>3, <3>1, <3>2 DEF HandlersInv, Parsers
  <2> QED
    BY <2>1, <2>2
<1>8. \A o \in Threads : HandlersOK(o)'
  BY <1>5, <1>6 DEF HandlersOK
<1>9. changed' \subseteq Uploads
  BY <1>3 DEF HandlersInv
<1>10. (DefaultTypes \subseteq file_handlers)'
  BY ResetHandlersFacts, HookHandlersFacts DEF HandlersInv
<1> QED
  BY <1>4, <1>7, <1>8, <1>9, <1>10, ParsedNext DEF HandlersInv

\* A parser is looked up in what the thread has loaded.
LEMMA ParseHandlers ==
    ASSUME StageInv, HandlersInv, NEW u \in Uploads, Parse(u)
    PROVE  HandlersInv'
<1>1. PICK x \in Task : Becomes(u, x) /\ (x.page <=> task[u].page) /\ x.i = task[u].i
                         /\ (x.sure => alone[u] /\ u \notin missed)
  BY ParseFacts
<1>2. PICK p \in {"reset_splitter", "no_parser"} :
          Goes(u, p) /\ (p = "no_parser" => task[u].page /\ Type[File(u)] \notin file_handlers)
  BY ParseFacts
<1>3. /\ pc[u] = "get_handlers" /\ missed' = missed \ {u}
      /\ UNCHANGED <<request, file_handlers, plugin_on, changed, alone>>
  BY ParseFacts
<1>4. /\ task'[u] = x /\ pc'[u] = p /\ \A v \in Uploads \ {u} : task'[v] = task[v]
      /\ \A o \in Threads \ {u} : pc'[o] = pc[o]
  BY <1>1, <1>2 DEF Becomes, Goes
<1>5. /\ \A t \in Threads : HandlersOK(t)'
      /\ (pc[Loop] \in ReloadingHandlers => file_handlers \subseteq Parsers)' /\ Parsers' = Parsers
      /\ (DefaultTypes \subseteq file_handlers)'
  <2>1. \A t \in Threads : pc'[t] \in ReloadingHandlers => pc'[t] = pc[t] /\ t # u
    BY <1>4 DEF ReloadingHandlers
  <2> QED
    BY <1>3, <2>1, ReloadSame
<1>6. ASSUME NEW v \in Uploads \ {u} PROVE AcceptedOK(v)' /\ ParsedOK(v)'
  BY <1>3, <1>4, ThreadFacts, ParsedSame
<1>7. /\ request[u].status = "accepted" /\ request[u].kind \in {"file", "url"}
      /\ task[u].i \in DOMAIN request[u].files
  <2>1. pc[u] \in Working
    BY <1>3 DEF Working
  <2>2. request[u] \in Request
    BY DEF StageInv, TypeOK
  <2> QED
    BY <2>1, <2>2 DEF StageInv, UploadOK, Request
<1>8. AcceptedOK(u)'
  BY <1>3, <1>5 DEF AcceptedOK, HandlersInv
<1>9. ASSUME u \notin changed, p = "no_parser", x.sure, request[u].kind = "file" PROVE FALSE
  <2>1. file_handlers = Parsers
    BY <1>1, <1>3, <1>9, ThreadFacts DEF HandlersInv, HandlersOK, ReloadsAlone, ReloadingHandlers
  <2>2. Type[File(u)] \in Parsers
    BY <1>7, <1>9 DEF HandlersInv, AcceptedOK, File
  <2> QED
    BY <1>2, <1>9, <2>1, <2>2
<1>10. ParsedOK(u)'
  <2>1. u \notin changed' => PluginOK(u)'
    BY <1>1, <1>3, <1>4, <1>7, <1>9 DEF PluginOK
  <2>2. File(u)' = File(u)
    BY <1>1, <1>3, <1>4 DEF File
  <2>3. DefaultOK(u)'
    BY <1>2, <1>3, <1>4, <1>7, <2>2 DEF DefaultOK, HandlersInv
  <2> QED
    BY <2>1, <2>3 DEF ParsedOK
<1>11. changed' \subseteq Uploads
  BY <1>3 DEF HandlersInv
<1> QED
  BY <1>5, <1>6, <1>8, <1>10, <1>11, ParsedNext DEF HandlersInv

\* The types of the files are looked up in what the event loop has loaded.
LEMMA CheckHandlers ==
    ASSUME StageInv, HandlersInv, NEW u \in Uploads, CheckTypes(u)
    PROVE  HandlersInv'
<1>1. PICK r \in Request :
         /\ Asks(u, r) /\ r.kind = request[u].kind /\ r.files = request[u].files /\ (r.sure => alone[Loop] /\ Loop \notin missed)
         /\ r.status = "accepted" => \A i \in DOMAIN r.files : Type[r.files[i]] \in file_handlers
         /\ r.status = "refused" => \E i \in DOMAIN r.files : Type[r.files[i]] \notin file_handlers
         /\ pc'[Loop] = "idle" /\ pc'[u] \in {"reset_handlers", "idle"}
         /\ \A v \in Uploads \ {u} : pc'[v] = pc[v]
  BY CheckTypesFacts
<1>2. /\ request[u].status = "checked" /\ pc[Loop] = "get_handlers"
      /\ missed' = missed \ {Loop} /\ UNCHANGED <<file_handlers, task, plugin_on, changed, alone>>
  BY CheckTypesFacts
<1>3. request'[u] = r /\ \A v \in Uploads \ {u} : request'[v] = request[v]
  BY <1>1 DEF Asks
<1>4. /\ \A t \in Threads : HandlersOK(t)'
      /\ (pc[Loop] \in ReloadingHandlers => file_handlers \subseteq Parsers)' /\ Parsers' = Parsers
      /\ (DefaultTypes \subseteq file_handlers)'
  <2>1. \A t \in Threads : pc'[t] \in ReloadingHandlers => pc'[t] = pc[t] /\ t # Loop
    BY <1>1 DEF ReloadingHandlers, Threads
  <2> QED
    BY <1>2, <2>1, ReloadSame
<1>5. ASSUME NEW v \in Uploads \ {u} PROVE AcceptedOK(v)' /\ ParsedOK(v)'
  BY <1>1, <1>2, <1>3, ParsedSame
<1>6. file_handlers \subseteq Parsers /\ (alone[Loop] /\ Loop \notin missed => file_handlers = Parsers)
  <2>1. Loop \notin changed
    BY ThreadFacts DEF HandlersInv
  <2> QED
    BY <1>2, <2>1, ThreadFacts DEF HandlersInv, HandlersOK, ReloadsAlone, ReloadingHandlers
<1>7. AcceptedOK(u)'
  BY <1>1, <1>3, <1>4, <1>6 DEF AcceptedOK
<1>8. ParsedOK(u)'
  <2>1. PluginOK(u)'
    BY <1>1, <1>3, <1>4, <1>6 DEF PluginOK
  <2>2. DefaultOK(u)'
    BY <1>1, <1>3 DEF DefaultOK, HandlersInv
  <2> QED
    BY <2>1, <2>2 DEF ParsedOK
<1>9. changed' \subseteq Uploads
  BY <1>2 DEF HandlersInv
<1> QED
  BY <1>4, <1>5, <1>7, <1>8, <1>9, ParsedNext DEF HandlersInv

\* A request arrives; no file of it is accepted or refused yet.
LEMMA AskHandlers ==
    ASSUME HandlersInv, NEW w \in Uploads, request'[w].kind # "file" \/ request'[w].status = "checked",
           \A v \in Uploads \ {w} : request'[v] = request[v], pc'[w] # "no_parser",
           \A t \in Threads : pc'[t] \in ReloadingHandlers => pc'[t] = pc[t],
           \A v \in Uploads \ {w} : pc'[v] = pc[v],
           UNCHANGED <<file_handlers, task, plugin_on, changed, missed, alone>>
    PROVE  HandlersInv'
<1>1. /\ \A t \in Threads : HandlersOK(t)'
      /\ (pc[Loop] \in ReloadingHandlers => file_handlers \subseteq Parsers)'
      /\ (DefaultTypes \subseteq file_handlers)'
  BY ReloadSame
<1>2. ASSUME NEW v \in Uploads \ {w} PROVE AcceptedOK(v)' /\ ParsedOK(v)'
  BY ParsedSame
<1>3. AcceptedOK(w)' /\ ParsedOK(w)'
  BY DEF AcceptedOK, ParsedOK, DefaultOK, PluginOK
<1>4. changed' \subseteq Uploads
  BY DEF HandlersInv
<1> QED
  BY <1>1, <1>2, <1>3, <1>4, ParsedNext DEF HandlersInv

\* The plugin is toggled: all uploads up to now are exempt.
LEMMA ToggleHandlers ==
    ASSUME StageInv, HandlersInv, TogglePlugin
    PROVE  HandlersInv'
<1>1. /\ pc[Loop] = "idle" /\ changed' = {u \in Uploads : request[u].status # "none"}
      /\ UNCHANGED <<request, pc, file_handlers, task, alone, missed>>
  BY TogglePluginFacts
<1>2. ASSUME NEW t \in Threads PROVE HandlersOK(t)'
  <2>1. pc[t] = "get_handlers" => t \in changed'
    <3>1. SUFFICES ASSUME pc[t] = "get_handlers" PROVE t \in changed'
      OBVIOUS
    <3>2. t \in Uploads
      BY <1>1, <3>1 DEF Threads
    <3>3. request[t].status = "accepted"
      BY <3>1, <3>2 DEF StageInv, UploadOK, Working
    <3> QED
      BY <1>1, <3>2, <3>3
  <2> QED
    BY <1>1, <2>1 DEF HandlersInv, HandlersOK, ReloadsAlone
<1>3. ASSUME NEW u \in Uploads, u \notin changed' PROVE AcceptedOK(u)' /\ PluginOK(u)'
  BY <1>1, <1>3 DEF AcceptedOK, PluginOK
<1>7. ASSUME NEW u \in Uploads PROVE ParsedOK(u)'
  <2>1. DefaultOK(u)
    BY ParsedFacts DEF HandlersInv, ParsedOK
  <2>2. DefaultOK(u)'
    BY <1>1, <2>1 DEF DefaultOK, File
  <2> QED
    BY <1>3, <2>2 DEF ParsedOK
<1>4. ASSUME NEW u \in Uploads PROVE AcceptedOK(u)'
  BY <1>3 DEF AcceptedOK
<1>5. (pc[Loop] \in ReloadingHandlers => file_handlers \subseteq Parsers)'
  BY <1>1 DEF ReloadingHandlers
<1>6. changed' \subseteq Uploads /\ (DefaultTypes \subseteq file_handlers)'
  BY <1>1 DEF HandlersInv
<1> QED
  BY <1>2, <1>4, <1>5, <1>6, <1>7, ParsedNext DEF HandlersInv

\* Every step of a working thread.
LEMMA WorkHandlers ==
    ASSUME StageInv, HandlersInv, NEW u \in Uploads, Work(u)
    PROVE  HandlersInv'
<1>1. u \in Threads
  BY ThreadFacts
<1>2. CASE ResetHandlers(u) \/ HookHandlers(u)
  BY <1>1, <1>2, ReloadHandlers
<1>3. CASE Parse(u)
  BY <1>3, ParseHandlers
<1>4. CASE Fetch(u)
  BY <1>4, FetchFacts, WorkQuiet DEF Becomes, ReloadingHandlers
<1>5. CASE ResetSplitter(u)
  BY <1>5, ResetSplitterFacts, WorkQuiet DEF ReloadingHandlers
<1>6. CASE HookSplitter(u)
  BY <1>6, HookSplitterFacts, WorkQuiet DEF ReloadingHandlers
<1>7. CASE GetSplitter(u)
  BY <1>7, GetSplitterFacts, WorkQuiet DEF Becomes, ReloadingHandlers
<1>8. CASE CutChunk(u)
  <2>1. /\ pc[u] = "split" /\ UNCHANGED <<request, pc, file_handlers, plugin_on, alone, changed, missed>>
        /\ \E x \in Task : Becomes(u, x)
    BY <1>8, CutChunkFacts
  <2> QED
    BY <2>1, Stays, WorkQuiet DEF Becomes, ReloadingHandlers
<1>9. CASE SplitDone(u)
  BY <1>9, SplitDoneFacts, WorkQuiet DEF Becomes, ReloadingHandlers
<1>10. CASE StoreChunk(u) \/ SkipChunk(u)
  <2>1. /\ pc[u] = "store" /\ UNCHANGED <<request, pc, file_handlers, plugin_on, alone, changed, missed>>
        /\ \E x \in Task : Becomes(u, x)
    BY <1>10, ChunkFacts
  <2> QED
    BY <2>1, Stays, WorkQuiet DEF Becomes, ReloadingHandlers
<1>11. CASE FinishFile(u)
  <2>1. UNCHANGED <<request, file_handlers, plugin_on, alone, changed, missed>> /\ \E x \in Task : Becomes(u, x)
    BY <1>11, FinishFileFacts, NoTaskFacts
  <2>2. PICK p \in {"reset_handlers", "idle"} : Goes(u, p)
    BY <1>11, FinishFileFacts
  <2> QED
    BY <2>1, <2>2, WorkQuiet DEF Becomes, ReloadingHandlers
<1>12. CASE Fail(u)
  BY <1>12, FailFacts, WorkQuiet DEF Becomes, ReloadingHandlers
<1>13. CASE ingest_memory(u)
  <2>1. UNCHANGED <<request, task, file_handlers, plugin_on, alone, changed, missed>>
    BY <1>13, ingest_memoryFacts
  <2>2. PICK p \in {"idle", "failed"} : Goes(u, p)
    BY <1>13, ingest_memoryFacts
  <2> QED
    BY <2>1, <2>2, WorkQuiet DEF ReloadingHandlers
<1> QED
  BY <1>2, <1>3, <1>4, <1>5, <1>6, <1>7, <1>8, <1>9, <1>10, <1>11, <1>12, <1>13 DEF Work

\* The parsers a thread has loaded alone are those there are.
LEMMA HandlersInvariant == Spec => []HandlersInv
<1>1. Init => HandlersInv
  <2>1. SUFFICES ASSUME Init PROVE HandlersInv
    OBVIOUS
  <2>2. changed = {} /\ \A t \in Threads : pc[t] = "idle"
    BY <2>1 DEF Init
  <2>3. \A u \in Uploads : request[u].status = "none"
    BY <2>1 DEF Init, NoRequest
  <2>4. \A u \in Uploads : AcceptedOK(u) /\ ParsedOK(u)
    BY <2>2, <2>3, ThreadFacts DEF AcceptedOK, ParsedOK, DefaultOK, PluginOK
  <2>6. DefaultTypes \subseteq file_handlers
    BY <2>1 DEF Init
  <2>5. \A t \in Threads : HandlersOK(t)
    BY <2>2 DEF HandlersOK, ReloadsAlone, ReloadingHandlers
  <2> QED
    BY <2>2, <2>4, <2>5, <2>6, ThreadFacts, ParsedFacts DEF HandlersInv, ReloadingHandlers
<1>2. StageInv /\ HandlersInv /\ [Next]_vars => HandlersInv'
  <2>1. SUFFICES ASSUME StageInv, HandlersInv, [Next]_vars PROVE HandlersInv'
    OBVIOUS
  <2>2. CASE UNCHANGED vars
    <3>1. UNCHANGED <<request, pc, file_handlers, task, plugin_on, alone, changed, missed>>
      BY <2>2 DEF vars, hole, history
    <3> QED
      BY <2>1, <3>1, QuietHandlers
  <2>3. ASSUME NEW u \in Uploads, Work(u) PROVE HandlersInv'
    BY <2>1, <2>3, WorkHandlers
  <2>4. CASE ResetHandlers(Loop) \/ HookHandlers(Loop)
    BY <2>1, <2>4, ThreadFacts, ReloadHandlers
  <2>5. ASSUME NEW u \in Uploads, CheckTypes(u) PROVE HandlersInv'
    BY <2>1, <2>5, CheckHandlers
  <2>6. ASSUME NEW b \in Batches, upload_files(b.files, b.size) PROVE HandlersInv'
    <3>1. PICK w \in Uploads : /\ request[w].status = "none"
                               /\ \E r \in Request : Asks(w, r) /\ r.status = "checked"
      BY <2>1, <2>6, upload_filesFacts
    <3>2. /\ pc'[Loop] = "reset_handlers" /\ \A v \in Uploads : pc'[v] = pc[v]
          /\ UNCHANGED <<file_handlers, task, plugin_on, alone, changed, missed>>
      BY <2>1, <2>6, upload_filesFacts, ThreadFacts DEF Goes
    <3>3. pc'[w] = "idle"
      BY <2>1, <3>1, <3>2 DEF StageInv, UploadOK
    <3>4. request'[w].status = "checked" /\ \A v \in Uploads \ {w} : request'[v] = request[v]
      BY <3>1 DEF Asks
    <3>5. \A t \in Threads : pc'[t] \in ReloadingHandlers => pc'[t] = pc[t]
      BY <3>2 DEF Threads, ReloadingHandlers
    <3> QED
      BY <2>1, <3>2, <3>3, <3>4, <3>5, AskHandlers
  <2>7. ASSUME NEW w \in Uploads, NEW r \in Request, Answers(w, r) PROVE HandlersInv'
    <3>1. /\ request'[w].kind # "file" /\ UNCHANGED <<file_handlers, task, plugin_on, alone, changed, missed>>
          /\ \A v \in Uploads \ {w} : request'[v] = request[v]
      BY <2>7 DEF Answers, Asks
    <3>2. PICK p \in {"fetch", "memory", "idle"} : Goes(w, p)
      BY <2>7 DEF Answers
    <3>3. pc'[w] = p /\ \A o \in Threads \ {w} : pc'[o] = pc[o]
      BY <3>2 DEF Goes
    <3>4. \A t \in Threads : pc'[t] \in ReloadingHandlers => pc'[t] = pc[t]
      BY <3>3 DEF ReloadingHandlers
    <3> QED
      BY <2>1, <3>1, <3>3, <3>4, ThreadFacts, AskHandlers
  <2>8. ASSUME NEW url \in Urls, NEW size \in Sizes, upload_url(url, size) PROVE HandlersInv'
    BY <2>1, <2>7, <2>8, upload_urlFacts
  <2>9. ASSUME NEW f \in Files \union Memories, upload_memory(f) PROVE HandlersInv'
    BY <2>1, <2>7, <2>9, upload_memoryFacts
  <2>10. CASE TogglePlugin
    BY <2>1, <2>10, ToggleHandlers
  <2>11. ASSUME NEW source \in Files \union Urls, delete_memory_points_by_metadata(source) PROVE HandlersInv'
    BY <2>1, <2>11, DeleteFacts, QuietHandlers
  <2> QED
    BY <2>1, <2>2, <2>3, <2>4, <2>5, <2>6, <2>8, <2>9, <2>10, <2>11 DEF Next, Handle, Ask
<1> QED
  BY <1>1, <1>2, StageInvariant, PTL DEF Spec

-----------------------------------------------------------------------------
(* The properties *)

\* The files of a request are read in order: a point of a file is in memory only
\* if the request was accepted and the files before it were reported as read
\* (BackgroundTasks runs the tasks of a request one after the other).
THEOREM BatchInOrderHolds == Spec => []BatchInOrder
<1>1. OrderInv => BatchInOrder
  BY DEF OrderInv
<1> QED
  BY <1>1, OrderInvariant, PTL

\* A file is cut at the size of its own request unless another upload is split at
\* the same time, although the size is set on a splitter that all uploads share
\* (__split_text).
THEOREM SplitAsAskedHolds == Spec => []SplitAsAsked
<1>1. SplitInv => SplitAsAsked
  BY DEF SplitInv
<1> QED
  BY <1>1, SplitInvariant, PTL

\* A file that is reported as read has all of its chunks in memory, apart from
\* those that a hook emptied or Qdrant did not complete and those that were deleted
\* since (store_documents).
THEOREM FinishedIsCompleteHolds == Spec => []FinishedIsComplete
<1>1. SplitInv => FinishedIsComplete
  BY DEF SplitInv
<1> QED
  BY <1>1, SplitInvariant, PTL

\* A file of a default type always has a parser.  One of any type that was accepted
\* has a parser when it is read, and one that was refused for its type has none,
\* unless the plugin was toggled or another thread reloaded the parsers meanwhile, or
\* the plugin's hook was left out (the property file_handlers).
THEOREM AcceptedIsParsedHolds == Spec => []AcceptedIsParsed
<1>1. HandlersInv => AcceptedIsParsed
  BY DEF HandlersInv
<1> QED
  BY <1>1, HandlersInvariant, PTL
=============================================================================
