------------------------------- MODULE Ingest -------------------------------
(***************************************************************************)
(* The rabbit hole: files, batches, web pages and exported memories are       *)
(* accepted by handlers on the event loop and read by background tasks, one   *)
(* after the other within a request, each request in a thread of the pool.    *)
(* All of them share one RabbitHole, which keeps its parsers and its text     *)
(* splitter in attributes that every access assigns anew.  The routes that    *)
(* delete points run on the event loop meanwhile.                              *)
(*                                                                           *)
(* A text is its length, a chunk is the size its splitter had when the chunk  *)
(* was cut.  chunk_overlap is set the way chunk_size is and is left out, and  *)
(* so are the user's metadata, which are copied into every chunk.  Everything *)
(* in a task that calls a parser, a hook, the embedder, Qdrant or the         *)
(* websocket may raise.                                                       *)
(***************************************************************************)
EXTENDS Naturals, Sequences, FiniteSets

CONSTANTS
    Files,          \* documents
    Urls,           \* web pages
    Memories,       \* exported memories
    Type,           \* Type[f]: MIME type of a file or of a page
    Length,         \* Length[f]: length of its text
    Vectors,        \* Vectors[m]: [id, fits] of the vectors of an export; one that
                    \* fits has the size of the collection
    SameEmbedder,   \* the memories that the current embedder class exported
    DefaultTypes,   \* types with a parser
    PluginTypes,    \* types that a plugin adds a parser for
    DefaultSize,    \* chunk size of the default splitter
    Sizes,          \* chunk sizes of web pages; 0 stands for none, too
    TooShort,       \* chunks up to this length are dropped
    Loop,           \* the event loop
    MaxUploads,     \* bound on uploads
    Batches,        \* [files, size]: uploads of one or more files
    MaxDeletes,     \* bound on deletions
    MaxToggles      \* bound on plugin toggles

ASSUME IngestAssumption ==
    /\ \A f \in Files \union Urls : Length[f] \in Nat /\ f \in DOMAIN Type
    /\ \A m \in Memories : Vectors[m] \subseteq [id : Nat, fits : BOOLEAN]
    /\ SameEmbedder \subseteq Memories
    /\ \A b \in Batches : b.files \in Seq(Files) /\ Len(b.files) > 0
    /\ TooShort \in Nat /\ DefaultSize \in Nat \ {0}
    /\ \A s \in Sizes \union {b.size : b \in Batches} : s \in Nat
    /\ {MaxUploads, MaxDeletes, MaxToggles} \subseteq Nat
    /\ Loop \notin Nat

VARIABLES
    request,        \* what was asked for, by upload
    pc,             \* where the event loop and each background thread are
    file_handlers,  \* rabbit_hole.__file_handlers: the types with a parser
    text_splitter,  \* rabbit_hole.__text_splitter: a reference
    chunk_size,     \* chunk_size[s]: the attribute of splitter s
    task,           \* locals of the background threads
    declarative,    \* points of the declarative collection
    plugin_on,      \* the plugin with a parser is active
    deletes,        \* counts deletions
    toggles,        \* counts plugin toggles
    finished,       \* history: files that were reported as read
    removed,        \* history: points that were deleted
    alone,          \* history: no other thread is in the reload this thread is in
    changed,        \* history: uploads accepted before the plugin was toggled
    missed          \* history: threads in a reload that has left the plugin's hook out

hole == <<file_handlers, text_splitter, chunk_size>>
bounds == <<deletes, toggles>>
history == <<finished, removed, alone, changed, missed>>

vars == <<request, pc, hole, task, declarative, plugin_on, bounds, history>>

Uploads == 1 .. MaxUploads

Threads == Uploads \union {Loop}

\* References to splitter objects; an object that nothing refers to is gone.
Splitters == 1 .. 2 * MaxUploads + 1

NoSplitter == 0

NoTask == [i |-> 1, splitter |-> NoSplitter, rest |-> 0,
           chunks |-> << >>, k |-> 1, sure |-> TRUE, own |-> TRUE, page |-> TRUE,
           missing |-> {}]

NoRequest == [kind |-> "file", files |-> << >>, size |-> 0, status |-> "none", sure |-> TRUE]

File(u) == request[u].files[task[u].i]

\* Nothing to do, or an exception that ended the task.
Ended == {"idle", "failed", "no_parser"}

At(t, p) == pc' = [pc EXCEPT ![t] = p]

\* Reloading the handlers, and from the reload of the splitter to the split.
ReloadingHandlers == {"hook_handlers", "get_handlers"}
Splitting == {"hook_splitter", "get_splitter", "split"}

\* History: thread t enters one of these.
Enter(t, section) ==
    LET others == {o \in Threads \ {t} : pc[o] \in section}
    IN  alone' = [o \in Threads |-> IF o = t THEN others = {}
                                    ELSE alone[o] /\ o \notin others]

-----------------------------------------------------------------------------
(* The property file_handlers, as the event loop and the tasks read it *)

\* The attribute is assigned the default parsers ...
ResetHandlers(t) ==
    /\ pc[t] = "reset_handlers"
    /\ file_handlers' = DefaultTypes
    /\ Enter(t, ReloadingHandlers)
    /\ At(t, "hook_handlers")
    /\ UNCHANGED <<request, text_splitter, chunk_size, task, declarative, plugin_on, bounds,
                   finished, removed, changed, missed>>

\* Mutant of HookHandlers: the hooks are not run.
HookNothing(t) ==
    /\ pc[t] = "hook_handlers"
    /\ At(t, "get_handlers")
    /\ UNCHANGED <<request, hole, task, declarative, plugin_on, bounds, history>>

\* ... then what the hooks make of the attribute.  The plugin's hook is left out if it raises,
\* or if a sync, of another plugin's toggle, a wipe or a change of the models, is refilling
\* the hooks at that moment ...
HookHandlers(t) ==
    /\ pc[t] = "hook_handlers"
    /\ \/ /\ file_handlers' = file_handlers \union (IF plugin_on THEN PluginTypes ELSE {})
          /\ UNCHANGED missed
       \/ /\ plugin_on
          /\ missed' = missed \union {t}
          /\ UNCHANGED file_handlers
    /\ At(t, "get_handlers")
    /\ UNCHANGED <<request, text_splitter, chunk_size, task, declarative, plugin_on, bounds,
                   finished, removed, alone, changed>>

\* ... and is read again to be returned.  In a task, the parser for the type is
\* chosen from it and run on the text; without one it raises.
Parse(u) ==
    LET parsed == task[u].page => Type[File(u)] \in file_handlers
    IN  /\ pc[u] = "get_handlers"
        /\ task' = [task EXCEPT ![u].rest = IF task[u].page THEN Length[File(u)] ELSE DefaultSize,
                                ![u].sure = alone[u] /\ u \notin missed]
        /\ At(u, IF parsed THEN "reset_splitter" ELSE "no_parser")
        /\ missed' = missed \ {u}
        /\ UNCHANGED <<request, hole, declarative, plugin_on, bounds, finished, removed, alone, changed>>

-----------------------------------------------------------------------------
(* Requests on the event loop *)

\* A request arrives.  upload_file is a batch of one.
upload_files(files, size) ==
    /\ pc[Loop] = "idle"
    /\ \E u \in Uploads :
        /\ request[u].status = "none" /\ \A v \in 1 .. u - 1 : request[v].status # "none"
        /\ request' = [request EXCEPT ![u] = [kind |-> "file", files |-> files,
                                               size |-> size, status |-> "checked", sure |-> TRUE]]
    /\ At(Loop, "reset_handlers")
    /\ UNCHANGED <<hole, task, declarative, plugin_on, bounds, history>>

\* The reply, and with it the background tasks.
Reply(u, status) ==
    /\ request' = [request EXCEPT ![u].status = status, ![u].sure = alone[Loop] /\ Loop \notin missed]
    /\ pc' = [pc EXCEPT ![Loop] = "idle",
                        ![u] = IF status = "accepted" THEN "reset_handlers" ELSE "idle"]

\* Mutant of CheckTypes: the tasks that were added before the 400 are run.
CheckTypesLate(u) ==
    /\ request[u].status = "checked" /\ pc[Loop] = "get_handlers"
    /\ IF \A i \in DOMAIN request[u].files : Type[request[u].files[i]] \in file_handlers
       THEN Reply(u, "accepted")
       ELSE /\ request' = [request EXCEPT ![u].status = "refused", ![u].sure = alone[Loop] /\ Loop \notin missed]
            /\ pc' = [pc EXCEPT ![Loop] = "idle",
                                ![u] = IF Type[request[u].files[1]] \in file_handlers
                                       THEN "reset_handlers" ELSE "idle"]
    /\ missed' = missed \ {Loop}
    /\ UNCHANGED <<hole, task, declarative, plugin_on, bounds, finished, removed, alone, changed>>

\* The types of all files are checked: one that is not admitted refuses the
\* request, and the tasks that were added for the files before it are dropped
\* with the reply.  A metadata string that is no JSON, or a hook that raises, is
\* a server error.
CheckTypes(u) ==
    /\ request[u].status = "checked" /\ pc[Loop] = "get_handlers"
    /\ \/ Reply(u, IF \A i \in DOMAIN request[u].files :
                        Type[request[u].files[i]] \in file_handlers
                   THEN "accepted" ELSE "refused")
       \/ Reply(u, "error")
    /\ missed' = missed \ {Loop}
    /\ UNCHANGED <<hole, task, declarative, plugin_on, bounds, finished, removed, alone, changed>>

\* A request whose reply follows at once.
Answer(kind, f, size, status, next) ==
    /\ pc[Loop] = "idle"
    /\ \E u \in Uploads :
        /\ request[u].status = "none" /\ \A v \in 1 .. u - 1 : request[v].status # "none"
        /\ request' = [request EXCEPT ![u] = [kind |-> kind, files |-> <<f>>,
                                               size |-> size, status |-> status, sure |-> TRUE]]
        /\ pc' = [pc EXCEPT ![u] = next]
    /\ UNCHANGED <<hole, task, declarative, plugin_on, bounds, history>>

\* The page answers a HEAD request with 200, or it does not.
upload_url(url, size) ==
    \/ Answer("url", url, size, "accepted", "fetch")
    \/ Answer("url", url, size, "refused", "idle")

\* Only JSON files are accepted.  The upload object is copied as it is, which
\* raises if the file is so large that it is kept on disk.
upload_memory(f) ==
    \/ f \in Memories /\ Answer("memory", f, 0, "accepted", "memory")
    \/ f \in Memories /\ Answer("memory", f, 0, "error", "idle")
    \/ f \notin Memories /\ Answer("memory", f, 0, "refused", "idle")

\* The plugin is switched on or off.
TogglePlugin ==
    /\ pc[Loop] = "idle" /\ toggles < MaxToggles
    /\ plugin_on' = ~plugin_on
    /\ toggles' = toggles + 1
    /\ changed' = {u \in Uploads : request[u].status # "none"}
    /\ UNCHANGED <<request, pc, hole, task, declarative, deletes, finished, removed, alone, missed>>

-----------------------------------------------------------------------------
(* ingest_file and ingest_memory, in a background thread *)

\* httpx.get: unlike the HEAD request it does not follow redirects, and the
\* status is not looked at.  It may return another page than the one that was
\* asked for.
Fetch(u) ==
    /\ pc[u] = "fetch"
    /\ \E right \in BOOLEAN : task' = [task EXCEPT ![u].page = right]
    /\ At(u, "reset_handlers")
    /\ UNCHANGED <<request, hole, declarative, plugin_on, bounds, history>>

\* A splitter object that is not in use.
Fresh == CHOOSE s \in Splitters :
             s # text_splitter /\ \A v \in Uploads : s # task[v].splitter

\* Mutant of ResetSplitter: the splitter is made once.
ResetSplitterOnce(u) ==
    /\ pc[u] = "reset_splitter"
    /\ text_splitter' = IF text_splitter = NoSplitter THEN Fresh ELSE text_splitter
    /\ Enter(u, Splitting)
    /\ At(u, "hook_splitter")
    /\ UNCHANGED <<request, file_handlers, chunk_size, task, declarative, plugin_on, bounds,
                   finished, removed, changed, missed>>

\* The property text_splitter: the attribute is assigned a new default splitter,
\* then what the hooks return for it, a copy, and is read again to be returned.
ResetSplitter(u) ==
    /\ pc[u] = "reset_splitter"
    /\ text_splitter' = Fresh
    /\ chunk_size' = [chunk_size EXCEPT ![Fresh] = DefaultSize]
    /\ Enter(u, Splitting)
    /\ At(u, "hook_splitter")
    /\ UNCHANGED <<request, file_handlers, task, declarative, plugin_on, bounds,
                   finished, removed, changed, missed>>

HookSplitter(u) ==
    /\ pc[u] = "hook_splitter"
    /\ text_splitter' = Fresh
    /\ chunk_size' = [chunk_size EXCEPT ![Fresh] = chunk_size[text_splitter]]
    /\ At(u, "get_splitter")
    /\ UNCHANGED <<request, file_handlers, task, declarative, plugin_on, bounds, history>>

\* The size of the request, if it has one, is set on the splitter.
GetSplitter(u) ==
    /\ pc[u] = "get_splitter"
    /\ task' = [task EXCEPT ![u].splitter = text_splitter]
    /\ chunk_size' = IF request[u].size = 0 THEN chunk_size
                     ELSE [chunk_size EXCEPT ![text_splitter] = request[u].size]
    /\ At(u, "split")
    /\ UNCHANGED <<request, file_handlers, text_splitter, declarative, plugin_on, bounds, history>>

\* split_documents cuts the next chunk; a short one is dropped.
CutChunk(u) ==
    LET t == task[u]
        size == chunk_size[t.splitter]
        cut == IF t.rest < size THEN t.rest ELSE size
    IN  /\ pc[u] = "split" /\ t.rest > 0
        /\ task' = [task EXCEPT ![u].rest = t.rest - cut,
                                ![u].chunks = IF cut > TooShort THEN Append(@, size) ELSE @]
        /\ UNCHANGED <<request, pc, hole, declarative, plugin_on, bounds, history>>

SplitDone(u) ==
    /\ pc[u] = "split" /\ task[u].rest = 0
    /\ task' = [task EXCEPT ![u].own = alone[u], ![u].splitter = NoSplitter]
    /\ At(u, "store")
    /\ UNCHANGED <<request, hole, declarative, plugin_on, bounds, history>>

Point(u) ==
    [id |-> <<u, task[u].i, task[u].k>>, source |-> File(u), size |-> task[u].chunks[task[u].k],
     own |-> task[u].own]

\* Mutant of StoreChunk: a chunk that cannot be embedded is logged.
StoreChunkOrLog(u) ==
    /\ pc[u] = "store" /\ task[u].k <= Len(task[u].chunks)
    /\ declarative' = declarative \union {Point(u)} \/ UNCHANGED declarative
    /\ task' = [task EXCEPT ![u].k = @ + 1]
    /\ UNCHANGED <<request, pc, hole, plugin_on, bounds, history>>

\* store_documents embeds and stores the next chunk.
StoreChunk(u) ==
    /\ pc[u] = "store" /\ task[u].k <= Len(task[u].chunks)
    /\ declarative' = declarative \union {Point(u)}
    /\ task' = [task EXCEPT ![u].k = @ + 1]
    /\ UNCHANGED <<request, pc, hole, plugin_on, bounds, history>>

\* A hook has emptied the chunk and it is left out; or Qdrant does not answer "completed", and
\* add_point returns None, which nobody looks at.  (If Qdrant has taken the point all the
\* same, this is StoreChunk.)
SkipChunk(u) ==
    /\ pc[u] = "store" /\ task[u].k <= Len(task[u].chunks)
    /\ task' = [task EXCEPT ![u].k = @ + 1, ![u].missing = @ \union {task[u].k}]
    /\ UNCHANGED <<request, pc, hole, declarative, plugin_on, bounds, history>>

\* BackgroundTasks goes on with the next file of the request.
NextTask(u) ==
    IF task[u].i < Len(request[u].files)
    THEN /\ task' = [task EXCEPT ![u] = [NoTask EXCEPT !.i = task[u].i + 1]]
         /\ At(u, "reset_handlers")
    ELSE /\ task' = [task EXCEPT ![u] = NoTask]
         /\ At(u, "idle")

\* The client is told "Finished reading".
FinishFile(u) ==
    /\ pc[u] = "store" /\ task[u].k > Len(task[u].chunks)
    /\ finished' = finished \union {[u |-> u, i |-> task[u].i, n |-> Len(task[u].chunks),
                                     own |-> task[u].own, page |-> task[u].page,
                                     missing |-> task[u].missing]}
    /\ NextTask(u)
    /\ UNCHANGED <<request, hole, declarative, plugin_on, bounds, removed, alone, changed, missed>>

\* A step of the task raises: the other files of the request are not read.
Fail(u) ==
    /\ pc[u] \notin Ended
    /\ At(u, "failed")
    /\ task' = [task EXCEPT ![u] = NoTask]
    /\ UNCHANGED <<request, hole, declarative, plugin_on, bounds, history>>

MemoryPoint(id) == [id |-> <<0, 0, id>>, source |-> "export", size |-> DefaultSize, own |-> FALSE]

\* ingest_memory: the export must be of an embedder of the same class, and some
\* vector must have the right size.  Qdrant takes the points if all have it, and
\* raises at one that has not, when it may have taken others.
ingest_memory(u) ==
    LET m == File(u)
        fit == {v.id : v \in {w \in Vectors[m] : w.fits}}
        upsert(ids) == {p \in declarative : \A id \in ids : p.id # <<0, 0, id>>}
                       \union {MemoryPoint(id) : id \in ids}
    IN  /\ pc[u] = "memory"
        /\ \/ /\ m \notin SameEmbedder \/ fit = {}
              /\ At(u, "failed") /\ UNCHANGED declarative
           \/ /\ m \in SameEmbedder /\ fit # {} /\ \A v \in Vectors[m] : v.fits
              /\ At(u, "idle") /\ declarative' = upsert(fit)
           \/ /\ m \in SameEmbedder /\ fit # {} /\ \E v \in Vectors[m] : ~v.fits
              /\ At(u, "failed")
              /\ \E ids \in SUBSET fit : declarative' = upsert(ids)
        /\ UNCHANGED <<request, hole, task, plugin_on, bounds, history>>

-----------------------------------------------------------------------------
\* The points of a source are deleted, on the event loop.
delete_memory_points_by_metadata(source) ==
    LET gone == {p \in declarative : p.source = source}
    IN  /\ pc[Loop] = "idle" /\ gone # {} /\ deletes < MaxDeletes
        /\ declarative' = declarative \ gone
        /\ removed' = removed \union {p.id : p \in gone}
        /\ deletes' = deletes + 1
        /\ UNCHANGED <<request, pc, hole, task, plugin_on, toggles, finished, alone, changed, missed>>

-----------------------------------------------------------------------------
Init ==
    /\ request = [u \in Uploads |-> NoRequest]
    /\ pc = [t \in Threads |-> "idle"]
    /\ file_handlers = DefaultTypes
    /\ text_splitter = NoSplitter
    /\ chunk_size = [s \in Splitters |-> DefaultSize]
    /\ task = [u \in Uploads |-> NoTask]
    /\ declarative = {}
    /\ plugin_on = TRUE
    /\ deletes = 0 /\ toggles = 0
    /\ finished = {} /\ removed = {} /\ changed = {} /\ missed = {}
    /\ alone = [t \in Threads |-> TRUE]

\* The steps of the thread that reads the files of an upload.
Work(u) ==
    \/ Fetch(u) \/ ResetHandlers(u) \/ HookHandlers(u) \/ Parse(u)
    \/ ResetSplitter(u) \/ HookSplitter(u) \/ GetSplitter(u) \/ CutChunk(u) \/ SplitDone(u)
    \/ StoreChunk(u) \/ SkipChunk(u) \/ FinishFile(u)
    \/ ingest_memory(u) \/ Fail(u)

Handle ==
    \/ ResetHandlers(Loop) \/ HookHandlers(Loop)
    \/ \E u \in Uploads : CheckTypes(u)

Ask ==
    \/ \E b \in Batches : upload_files(b.files, b.size)
    \/ \E url \in Urls, size \in Sizes : upload_url(url, size)
    \/ \E f \in Files \union Memories : upload_memory(f)
    \/ TogglePlugin
    \/ \E source \in Files \union Urls : delete_memory_points_by_metadata(source)

Next == Ask \/ Handle \/ \E u \in Uploads : Work(u)

Spec == Init /\ [][Next]_vars

-----------------------------------------------------------------------------
(* Properties *)

Limit(size) == IF size = 0 THEN DefaultSize ELSE size

\* The chunks that a text of length n has, at size s.
Kept(n, s) == (IF s > TooShort THEN n \div s ELSE 0) + (IF n % s > TooShort THEN 1 ELSE 0)

\* A file is cut at the size of its own request, or at the default if it gave
\* none, whatever other requests asked for before: the size is set on a splitter
\* that all uploads share.  Only uploads that are split at the same time
\* can get each other's (__split_text, "override chunk_size and chunk_overlap
\* only if the request has those info").
SplitAsAsked ==
    \A u \in Uploads, p \in declarative :
        p.own /\ p.id[1] = u => p.size = Limit(request[u].size)

\* A file that was reported as read is in memory with every chunk it was cut into, apart
\* from those that a hook emptied or Qdrant did not complete, and those deleted since: a
\* failure half way is never reported as success (store_documents).  And it was cut into
\* all the chunks it has, if it is the page that was asked for and was split alone.
FinishedIsComplete ==
    \A f \in finished :
        /\ \A k \in (1 .. f.n) \ f.missing : <<f.u, f.i, k>> \in removed \union {p.id : p \in declarative}
        /\ f.page /\ f.own => f.n = Kept(Length[request[f.u].files[f.i]], Limit(request[f.u].size))

\* The files of a request are read in order: none after one that failed, none of
\* a request that was refused, and a file only when the one before it is done.
BatchInOrder ==
    \A p \in declarative, u \in Uploads :
        p.id[1] = u =>
            /\ request[u].status = "accepted"
            /\ \A j \in 1 .. p.id[2] - 1 : \E f \in finished : f.u = u /\ f.i = j

\* Whatever other threads, plugins and syncs do, a file of a default type has a parser and
\* is not refused.  A file of any type that was accepted has a parser when it is read, and
\* is refused for its type only when it has none, unless the plugin was toggled in between,
\* another thread was reloading the parsers, which drops those of the plugins for a moment,
\* or the plugin's hook was left out.
AcceptedIsParsed ==
    \A u \in Uploads :
        LET refused == request[u].kind = "file" /\ request[u].status = "refused"
        IN  /\ pc[u] = "no_parser" => Type[File(u)] \notin DefaultTypes
            /\ refused => \E i \in DOMAIN request[u].files : Type[request[u].files[i]] \notin DefaultTypes
            /\ u \notin changed =>
                 /\ request[u].status = "accepted" /\ pc[u] = "no_parser" /\ task[u].sure
                    => request[u].kind = "url"
                 /\ refused /\ request[u].sure
                    => \E i \in DOMAIN request[u].files :
                         Type[request[u].files[i]] \notin
                             DefaultTypes \union (IF plugin_on THEN PluginTypes ELSE {})
=============================================================================
