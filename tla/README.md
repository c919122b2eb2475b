# TLA+ models of k-core

k-core is the Cheshire Cat, a server for conversational agents, with a set of
ISO 26262 plugins that produce the work products of a functional safety
lifecycle. This directory holds TLA+ specifications of its core logic, TLC
configurations that check them on small instances, and TLAPS proofs, for every
instance, of the safety properties of all eleven of these models.

Paths below are relative to `src/core/cat/`.

## Inventory

| Component | State | Operations | What makes it hard |
|---|---|---|---|
| Artifact store, review workflow, phase tools (`plugins/AI_Agent-*_Assistant`) | one `.json` and one `.md` file per artifact version | generate, request review, request changes, approve, revise, for eight work products | no locks, two files per version, two files per revision, LLM call between read and write, crash between writes |
| HARA workflow (`plugins/AI_Agent-HARA_Assistant`) | nine keys of the user's working memory | five steps, each read, LLM, store; custom situations | results of earlier steps go stale; two chat turns share the memory |
| Risk tables (`ASIL_Calculator.py`, `operational_situation_tool.py`) | none | `calculate_asil`, `calculate_combined_exposure` | boundaries, unknown levels |
| Sessions (`looking_glass/stray_cat.py`, `auth/connection.py`, `routes/websocket`, `routes/memory/convo_history.py`) | working memory per user, cached or held by requests; table of websockets | connect, message, answer, save, delete history, disconnect | every request and socket loads and writes back the whole memory; one socket entry per user |
| Caches (`cache/`) | key to value, in memory or pickled | insert, get, evict | one shares objects, the other copies them and truncates a file before it writes it |
| Plugin manager (`mad_hatter/`) | plugin folders, database setting `active_plugins`, Plugin objects, `sys.modules`, cached hooks and tools, FastAPI routes | install, toggle, uninstall, start, and discover, also while the server runs (a wipe of the collections, a change of the models) | activation and deactivation fail half way; packages replace running plugins; discoveries forget objects whose routes and modules stay; two threads refill one list of hooks while chat turns use it |
| Bootstrap, models, procedures (`looking_glass/cheshire_cat.py`, `routes/llm.py`, `routes/embedder.py`) | current LLM and embedder, vector collections | change model, embed procedures | several steps, each may fail |
| Agents and forms (`agents/`, `experimental/form/`) | the active form in working memory | start, update, confirm, exit | a form lives across turns; submit may raise |
| Rabbit hole (`rabbit_hole.py`, `routes/upload.py`) | parsers and splitter, attributes of one object that each access assigns anew | upload of a file, a batch, a page, exported vectors | background tasks in threads share the attributes; a step may fail half way; types are checked long before they are used |
| Vector memory (`memory/`, `routes/memory`) | points of three collections | store, delete, wipe, recreate | vectors must be of the embedder in use |
| White rabbit (`looking_glass/white_rabbit.py`) | scheduled jobs | schedule, pause, resume, remove | jobs run in other threads, late or not at all; ids and times have different resolutions |
| Settings and users (`db/`, `routes/users.py`, `routes/settings.py`) | one JSON file, a cache of query results | create, update, delete, read | read-modify-write in threads without a lock; cached objects are changed in place; one file position |
| Authentication (`auth/`, `factory/custom_auth_handler.py`) | none | decide | decision tables |

The phase plugins call the artifact store and the review workflow directly
(they import them as `cat.plugins.iso26262_core`, which is taken to be
`AI_Agent-Core_Assistant`). Tools are called by the agent inside a conversation
turn; turns run in threadpool threads, one per HTTP request or websocket
message, so two turns of one user, or a turn and the plugin manager on the
event loop, interleave.

## Modules

`SafetyLifecycle` is the abstract specification of the artifact lifecycle: its
state `files` maps (artifact id, version) to metadata, and each tool is one
action. `get_latest_by_id`, `get_latest_by_wp`, `resolve_upstream`,
`build_metadata`, `make_upstream_refs` are operators named after the functions.
A document's text, dates and names of people are left out. Where the code takes
the first of several equal maxima in directory order, the model takes any.
`generate_hara_artifact` is modelled for the case that the HARA table is in
working memory.

`ReviewRace` splits the tools for one artifact into their file accesses:
reading the latest metadata, truncating a file, writing it, and reading again
after the LLM call. Threads interleave and the process may crash. Two tools that
have one file open at the same time both write from its beginning, so that the
longer text keeps its tail: the file may then hold a mixture (`Mixed`, one value
for all of them, which is no JSON; `clashed` records that it can be there). A
document is abstracted to the changes in it; a revision adds its change to the text
that was read, keeps that text when the LLM raises, or takes one that the caller
supplies (`RevisedTexts`). The module instantiates `SafetyLifecycle` with a history
variable (`settled`, the files when the last tool ended) and is checked to implement
it until two tools overlap or the process crashes (`raced`).

`HaraWorkflow` has the nine keys of working memory. A tool is a step that
checks and reads its inputs and a step that stores the answer of the LLM; the
two to four assignments that store an answer are one step. A result is
abstracted to the run that produced it and the runs its inputs came from. The
risk arithmetic it uses is in `RiskTables`, as operators. Two facts about them,
`AsilMonotone` and `CombinedIsRarest`, are evaluated by TLC for the instance
(`RiskFacts` in `MCHaraWorkflow`); the second is also proved for every database.

`Sessions` models one user. Working memories are objects of a small heap, so
that the in_memory cache (shared references) and the file_system cache (copies)
are the same specification with another initial value of `copies`. The
conversation turn is split where other threads may run: human message, answer,
save, send. `update_history` is three steps: the message is appended, the last
messages are sliced off (`tail`), and the slice is assigned, which loses what
another turn appended in between and undoes a deletion (`interfered`). A finer
grain, with `self.history` read before it is appended to, has no other outcomes:
whatever comes between the two also comes between the append and the slice. A turn can end in a fast reply, a recall error or an agent error,
which save, return and send different things. A save to the file_system cache
inside a turn is two steps, truncation and pickling; the save after an endpoint
is one, because it and all loads run on the event loop. The process may die and
start again with the files it left.

`MadHatter` models the plugin folders, the saved list, the Plugin objects, the
module cache of the interpreter, the cached hooks and the routes. A package may be
fine (`ok`), fail in pip (`flaky`), raise in its `activated` override (`raises`) or
in `deactivated`, too (`moody`), or have no Python file. Its file is a name; the
modules of `Lasting` names are those that `deactivate` does not find, because it
builds their names in another order of replacements than the import. `find_plugins`
runs at the start and while the server is up: it makes new Plugin objects for the
same folders, beside the modules and routes that are there, and may raise half way
(`lost`, `halfway`). The process may stop between requests, between the removal of
a folder and the extraction, or between extraction and activation, and starting it
may fail.

`HookRace` looks inside toggling, uninstalling and rediscovering, down to the
append to a hook list and its sort, against a chat turn in `execute_hook` whose
hooks may raise. Operations of the event loop follow each other; a thread of the pool
that changes the LLM or the embedder runs `find_plugins` beside them. Both may fill
one dictionary of hooks: lists made then are `tangled`. Hooks may have equal
priorities, which is the default; the sort is stable.

`CatForm` models the forms of one user: the state machine of `CatForm.next`,
`FormAgent`, and the part of `ProceduresAgent` that starts a form. A turn is
split at its LLM calls; what the LLM answers is a choice. A form's data is a
function from keys to values. The turns share one working memory object
(`Sessions` is about the cases where they do not).

`VectorMemory` models the three collections, the settings that select LLM and
embedder, the running embedder and the active procedures. The settings route (a
threadpool thread) and the event loop are two actors; every call of the embedder
or of Qdrant is a step that may fail, and so is making the embedder that comes with
the LLM, which is outside the `try` and raises. A vector is abstracted to the
embedder that made it. Different embedders may have the same size and the same name:
`check_embedding_size` cannot tell them apart then, and neither does the model
(`Alike`). A point remembers how it was stored: `direct`, `across` a change of the
embedder, or by an `import`, of which `ingest_memory` only compares the class of
the embedder and the length of the vectors.

`Ingest` models the rabbit hole: the upload routes on the event loop and one
background thread per upload. Each assignment of the shared attributes
`file_handlers` and `text_splitter`, and each read of them, is a step, and so is
each chunk that is cut or stored. The hook for the parsers may be left out: it
raises, which `execute_hook` swallows, or a sync is refilling the hooks. Qdrant may
answer without an exception that a point is not completed: the chunk is dropped
(`missed`) and the file read on. An empty chunk is skipped. A splitter is a reference, because a thread
sets the chunk size on the object that another may have got, too. A text is its
length; a stored chunk remembers the size it was cut at.

`WhiteRabbit` models every method of the class over the parts of APScheduler it
uses, which are marked external: the job store, the scheduler thread that hands
due jobs to the pool, the pool with its bound on instances, and misfires. Time
is counted in ticks, several to the second, because generated ids name whole
seconds.

`Settings` models users and settings at the grain of TinyDB (external): looking
in the query cache, moving the position of the file, reading it, filling the
cache, writing the file back and cutting it off at the position, which another
thread may have moved since. Results are objects that the cache hands out to
everyone, so that a change in place shows, as that of the routes for users and that
of `load_active_plugins_from_db`, which adds the core plugin to the cached list and
saves nothing. History variables `users` and `other` say what the completed changes
mean; a POST of a name that exists counts as saved, but it is the older document that
is read (`shadowed`).

`MC*` modules give the constants of the instances. `M_proofs` holds the theorems
about module `M`; `Services_proofs` holds those about `Sessions`, `WhiteRabbit`,
`HookRace` and `Settings`, which is why the names of these four modules are
disjoint (`RabbitSpec`, `HookSpec`, `SettingsSpec`).

## Runs

| Run | Checks | Bounds |
|---|---|---|
| `lifecycle` | `TypeOK`, `VersionChain`, `OneLiveVersion`, `TraceSound`, `TraceInherited`, `TraceComplete`, `HistoryFrozen` | nine artifacts covering all work products with two rival safety concepts, two projects, three files |
| `review_race` | `NoLostRevision`, `SupersededHasSuccessor`, `NoVersionGap`, `LiveWhenQuiet`, `ImplementsLifecycle` | two threads, three versions, four tool calls, one crash |
| `hara` | `StageBacked` | two items, two turns, five stored answers, one custom situation of three scenarios and an unknown id |
| `sessions` | `HistoryOrdered`, `LastTurnKept`, `WipeSticks`, `NoDeadConnection` | both caches, two sockets, one reusable request, two open at a time, two turns, history of three messages, one eviction or restart |
| `plugins` | `SavedActive`, `HooksOfActive`, `RoutesMatch`, `CodeFresh`, `BootEventually` | core plugin and two plugins with the same endpoint, two file names, four packages (one kind of failure each, or no file), three installations beside the core plugin, one stop |
| `hooks` | `SnapshotPipe`, `RaiseIsContained` | two plugins, the event loop and one thread of the pool, two operations beyond the first list, one turn |
| `forms` | `EndsOnce`, `SubmittedComplete`, `ConfirmedAsShown`, `OpenIsActive` | two turns, two forms, one field and one key that is none, two values |
| `vectors` | `OneVectorSpace`, `ProceduresSynced` | four embedders of two sizes and two names, two of them alike, one that comes with an LLM, one export, one procedure, three requests or restarts |
| `ingest` | `SplitAsAsked`, `FinishedIsComplete`, `BatchInOrder`, `AcceptedIsParsed` | two uploads out of a file with a size, a batch of two, a page and an export; one toggle, one deletion |
| `rabbit` | `NoJobLost`, `EachInstantOnce`, `RunsWhenAsked`, `JobsSettle` | two calls, one given id, two ticks to the second, one instance, five ticks |
| `rabbit_zone` | `RunsWhenAsked` is violated | one call on a host whose local time is ahead of UTC |
| `settings` | `UsersAsSaved`, `SettingAsSaved` | two threads, two names and one given id of users, two lists of plugins, three operations, behaviours up to the first crossing or failing write |

Three files are enough for a reference with a complete set of two upstream
products, for a revision of a referenced or a referring artifact, and for two
rivals of one reference. Two turns overflow a history of three messages. Three
installations are a plugin, its rival on the same path and a replacement
(`MaxInstalls` is four because it numbers versions, and the core plugin has the
first). Two operations are the two that overlap; one turn is followed, since turns
change nothing that others see, and it may begin at any time. Two
forms are one that is dropped and the one that replaces it. Three requests are a
change, its undoing or a second change, and a restart; documents are not counted.
Two uploads are the two that meet at the shared splitter, one of them with a size
of its own and a second file. Two scheduled jobs are enough to collide in an id
and in the pool. Three operations on the settings are a change, a second one,
and a third that reads what they left beside it. What comes after the first
crossing or failing write (`settings`), or after the end of the turn (`hooks`), is cut
off by a CONSTRAINT: the properties claim nothing of it.

The largest runs have 2 to 4.4 million distinct states (`sessions` 2.7, `hooks` 3.2,
`ingest` 3.0, `settings` 2.1, `vectors` 4.4) and take one to three minutes with two
workers.

The systems may stop at any time (nobody has to call another tool), so the
configurations do not check for deadlock.

Fairness: `MadHatter` has weak fairness of `Boot`: a server that is down is
started again, as the container's restart policy or its operator does.
`WhiteRabbit` has weak fairness of the clock, of the scheduler thread, which
APScheduler wakes for the next due job, and of the threads of its pool. Nobody
is assumed to make a request, and no other module needs fairness.

## What the runs show

* The chain of versions survives every sequence of tools. Under races and
  crashes a weaker chain survives: numbers have no gaps and a superseded version
  has a successor, because `revise` writes the new version first. Without a crash
  the files are whole again when the tools have ended, unless two of them had one
  file open at a time: then it may stay a mixture that no tool can read
  (`LiveWhenQuiet`, until `clashed`). Lost updates are possible: two revisions may
  take the same number and the later one wins, which is why `NoLostRevision` and the
  refinement are stated up to the first overlap. A revision whose LLM call fails is
  saved with the text it read, without the change that was asked for; what
  `NoLostRevision` says is that the changes made before it stay.
* The HARA stage is trustworthy about the last step, not about the steps before
  it. A HAZOP analysis that is repeated after the exposure assessment leaves the
  old exposures in memory, and `generate_hara_table` accepts them, although
  `explain_hara_workflow` then shows steps 1 to 4 as completed.
* A conversation is safe as long as all requests and sockets of a user work on
  one object. Otherwise (`forked`: any overlap on the file_system cache; on the
  in_memory cache, a socket opened before the first message or an eviction) the
  last one to close wins, and a deleted history comes back; and nothing may come
  between the append and the assignment of `update_history` (`interfered`), which
  loses a message or undoes a deletion even on one object. Without any premise there
  are no duplicates and no answers before their question. `WipeSticks` fails
  without its premise, although `tests/routes/test_session.py` expects it of a
  socket that closes. A turn that was saved to the file_system cache survives a
  restart, unless the process died, or pickling failed, while the file was
  truncated. From then on every load of the user's session raises, and only the
  end of a socket that still holds the conversation writes the file again.
* The saved list of plugins always is the running one, also after failures.
  Code is fresh unless a module stayed imported (`stuck`): its activation raised,
  `deactivate` missed its name, or the package that replaced its own has no such
  file. Routes match unless a package was installed over an active plugin
  (`overlaid`) or a rediscovery raised (`lost`), which forget endpoints whose routes
  stay. A rediscovery that raises before its sync also leaves the old hooks in use
  until the next sync (`halfway`). Each failed start deactivates the plugin that it
  failed at, so the server runs in the end, unless an active plugin lost its Python
  files or raises in its deactivation, too (`Blocking`).
* A turn that takes a list of hooks during a sync may find it missing, empty or
  unsorted; one that takes it outside of a sync is not disturbed by later ones.
  A list that was filled while two syncs overlapped may have a hook twice, or that of
  a plugin that is gone. A hook that raises is skipped, but while the plugin it
  belongs to is not in `self.plugins`, after it was uninstalled or while the plugins
  are rediscovered, the handler itself raises and the turn ends.
* A form that no two turns share ends once, with complete data that was shown
  before. Turns that overlap can submit it twice, reopen it or submit incomplete
  data, because each reads the state before an LLM call and writes it after. An
  error in a form lets the turn start another form in its place.
* Collections have the size and the name of the embedder across any successful
  changes and restarts, also restarts in the middle of a change, and so have the
  embedders of the points that were embedded and stored outside of one. A change that
  fails half way may leave collections of the new embedder under the old one, and the
  first configured embedder stays loaded after it failed (`adrift`). Documents stored
  during a change may end in the wrong space (`across`), and imported vectors may be
  of another model of the same class and size (`import`). Size and name are all that
  is claimed: `check_embedding_size` says that vectors of different embedders of one
  size do not belong together (`memory/vector_memory_collection.py:55`), but every
  embedder without `model` or `repo_id` has the name `default_embedder`
  (`looking_glass/cheshire_cat.py:298`), and a change from one to another of the same
  size, say between two servers, keeps the collections.
* After a complete sync the procedural memory is that of the active plugins. In
  between, `delete_memory_point` can delete a procedure, although the routes that
  create and edit points say that this memory is read-only; the next sync
  restores it.
* A file is cut at the size of its request unless another upload is between the
  reset of the splitter and the end of its split at the same time; then both may
  get one splitter, with either size. It is reported as read only when each of its chunks was
  stored, was emptied by a hook, or was not completed by Qdrant, of which nobody is
  told. A failure ends the files of its request that follow, without
  a word to the client. Of a page, what is stored may be the answer to a redirect
  or an error, since only the HEAD request follows redirects and checks the
  status. An export is stored in part if some of its vectors have the wrong size
  (`ingest_memory` asks for one that fits).
* Parsers of plugins are missing for a moment whenever another thread looks at
  the parsers, and for one look when their hook raises or a sync is under way: a file
  may then be refused, or accepted and not parsed. Files of the default types are
  always accepted and parsed.
* No scheduled job is lost, replaced or run twice for one instant; a one-shot job
  that is resumed too late is missed, not forgotten. On a host whose local time
  is not UTC one-shot jobs run late, by the offset (`rabbit_zone`): the run date
  is local time, read as UTC.
* Users and settings are what completed changes made of them until something crosses
  a change. Another change that overlaps it loses one of the two. A read beside it is
  harmless at most moments, when it hits the old cache or loads one of the two files.
  But it may cache what the write replaced, or move the position of the file: between
  the seek and the write, after which the file is no JSON and no request that needs the
  settings succeeds, or between the write and the closing `truncate()`, which then
  empties the file or leaves the tail of the longer old text. A POST of a setting that
  exists adds a document that no lookup finds. The core plugin is in the cached list of
  active plugins before it is in the saved one.
  When a write fails, the users it would have saved are visible until the cache is
  emptied. `update_user` does not look whether the new name is taken.

At this commit each of the seven files with phase tools has a decorator whose
example string is not valid Python (`concept_tools.py:258` and its likes), so the
interpreter refuses them. The models describe the tools as they are written, with
that string closed.

Further places where the code differs from its comments, seen while modelling
and reflected in the models: `install_plugin` toggles, and so deactivates, a
plugin that is already active (`mad_hatter/mad_hatter.py:71`); `core_plugin` can
be toggled off (`mad_hatter.py:191`); closing one of two websockets of a user
removes the entry of the other (`routes/websocket/websocket_manager.py:21`);
the comments of `CatForm.sanitize` and `validate` say that pydantic drops
unwanted keys and fills defaults, but its result is thrown away
(`experimental/form/cat_form.py:270`); `calculate_asil` returns a list of four levels; `generate_hara_artifact` calls a
`CatTool` object when there is no table (`concept_tools.py:103`);
`find_item_definition` prefers whatever definition is in working memory to that
of the item it was asked for.

## Proofs

Every invariant and action property of the passing runs is proved for all values
of the constants, and the refinement with them. The assumptions are those about
constants, in the modules that declare them; TLC evaluates each on the instances.

| Module | Theorems | Assumptions | Strengthening of the inductive invariant |
|---|---|---|---|
| `SafetyLifecycle_proofs` | all seven properties of `lifecycle` | `WpAssumption`, `MaxFilesAssumption` | `ApprovedIsLocked` |
| `ReviewRace_proofs` | `NoVersionGapHolds`, `SupersededHasSuccessorHolds`, `LiveWhenQuietHolds`, `NoLostRevisionHolds`, `ImplementsLifecycleHolds` | `RaceBounds`, `MarkerAssumption` | `StoreInv`, `TornHasWriter`, `SeqInv` |
| `HaraWorkflow_proofs` | `StageBackedHolds`, `CombinedIsRarestHolds` | `HaraAssumption`, `RiskAssumption` | `Alone`, `ReadsCurrent` |
| `MadHatter_proofs` | `SavedActiveHolds`, `HooksOfActiveHolds`, `RoutesMatchHolds`, `CodeFreshHolds` | `MadHatterAssumption` | `Down`, `ObjectInv`, `LoadedFresh` |
| `CatForm_proofs` | `EndsOnceHolds`, `SubmittedCompleteHolds`, `ConfirmedAsShownHolds`, `OpenIsActiveHolds` | `FormAssumption` | `History`, `OneTurn`, `OpenHoldsTurns` |
| `VectorMemory_proofs` | `OneVectorSpaceHolds`, `ProceduresSyncedHolds` | `EmbedderAssumption` | `StagesOK`, `OneAtWork`, `Spaces`, `OnTheWay` |
| `Ingest_proofs` | `SplitAsAskedHolds`, `FinishedIsCompleteHolds`, `BatchInOrderHolds`, `AcceptedIsParsedHolds` | `IngestAssumption` | `StageInv`, `OrderInv`, `SplitInv`, `HandlersInv` |
| `Services_proofs` (`Sessions`) | `HistoriesAreOrdered`, `TheLastTurnIsKept`, `DeletedTurnsStayAway`, `TheTableIsLive` | `SessionsAssumption` | `SessionInv` |
| `Services_proofs` (`WhiteRabbit`) | `NoCallIsLost`, `InstantsAreHandedOnce`, `RunsAreOffset`, `RunsStartWhenAsked` | `RabbitAssumption`; the last one also `UtcOffset = 0` | `RabbitInv` |
| `Services_proofs` (`HookRace`) | `PipesAreSnapshots`, `RaisesAreContained` | `HookAssumption` | `HookInv` |
| `Services_proofs` (`Settings`) | `UsersAreAsSaved`, `SettingsAreAsSaved` | `SettingsAssumption` | `SettingsInv` |

Every inductive invariant also conjoins the types of the variables (of the records
of threads in `Settings`, whose fields depend on where the thread is). TLC checked each on the
instance of its run before it was proved.

**SafetyLifecycle.** `TypeCorrect` is proved first. `IInv` conjoins the type
invariant with `VersionChain`, `OneLiveVersion`, `TraceSound`, `TraceInherited`
and `ApprovedIsLocked`. The last is the strengthening: a reference is made to a
file whose status is APPROVED, while `TraceSound` speaks of the approval mark
`locked`, which survives when the status moves on. `VersionChain` and
`OneLiveVersion` need each other: a revision extends the chain because the
version it supersedes is the latest. `NextShape` reduces the eight disjuncts of
`Next` to three kinds of step, a status change, a revision and a generation;
`StatusStepFacts`, `ReviseFacts` and `GenerateFacts` describe each by the fields
that change; then there is one lemma per conjunct with one case per kind.
`HistoryFrozenHolds` is an action property from the same invariant,
`TraceCompleteHolds` has its own induction on top of it.

**ReviewRace.** `StoreInv` needs no premise about races or crashes: what a tool
read of a version may be out of date, but that version exists since (`ReadVersion`),
a tool that rewrites the previous version has created both files of the new one
(`UpdatingOK`), and no file is ever deleted. `NoVersionGap` and
`SupersededHasSuccessor` follow from that order of accesses alone.
`LiveWhenQuiet` adds that without a crash, until two tools have one file open, a
file that is not whole has the one tool that will write it (`TornHasWriter`). `SeqInv` describes the time before the first
overlap: one tool at work, the files on disk are `settled` with the accesses that this tool
has made so far, and each settled document extends the one before it, or was
supplied whole. `NoLostRevision` and `ImplementsLifecycle` follow
from both; for the refinement, only the access that ends a tool changes `settled`,
and it is mapped to the tool of `SafetyLifecycle` with the same name.

**HaraWorkflow.** Until two turns overlap, one call at most waits for the LLM
(`Alone`), and what it has read is what working memory holds (`ReadsCurrent`), so
the result it stores is one step ahead of what the stage was backed by.

**MadHatter.** The properties need each other: the hooks in use are those
of active plugins because the cache was built from Plugin objects (`ObjectInv`: what
they know of their file, and that only active ones have code), what is imported is
that of the folder on disk but for the modules that stay (`LoadedFresh`), and a
process that is down caches nothing (`Down`). A rediscovery that fails before its sync
counts among those that lose endpoints. `RegisteredFacts` says of the registration of
endpoints that it keeps the paths that are taken and gives every other claimed
path to one claimant, for any number of plugins that share paths.

**CatForm.** All premises are about one form that no two turns shared. Its
`History` follows its state (a form that waits for confirmation holds complete
data, which it has shown), one turn at most is in it and at a place that fits its
state (`OneTurn`), and while it is open no turn is elsewhere
(`OpenHoldsTurns`), which is why `ProceduresAgent` starts no second form.

**VectorMemory.** A collection is `Pure` if its size and alias are those of one
embedder that made its points. That concerns the points stored `direct`; embedders that are
alike count as one, and nothing is assumed of sizes, names and classes. `Spaces` says
that the collections are pure and that those which `load_memory` has passed fit the
new embedder (`OneAtWork`: nobody else is at work then); the roll back of a failed
change and the restart are steps of it like any other. `OnTheWay` says of
`embed_procedures` that the triggers stored and those still to be stored are the
active ones.

**Ingest.** Four invariants, each relative to those before it. `StageInv`: only
accepted files are read, and a splitter is there when it is used, which needs that
there is always an unused reference (`FreshFacts`, a pigeonhole argument).
`OrderInv`: the files before the one at hand were reported. `SplitInv`: while a
thread is alone between the reset of the splitter and the end of the split,
the splitter has the size of its request, and the chunks cut and the text left
make up the chunks of the whole text (`KeptStep`, arithmetic of `div` and `mod`, for
sizes below the shortest chunk kept, too); once it stores them, those before the one
at hand are stored or among those it `missed`. `HandlersInv`: a file of a default type
has a parser at any moment, the parsers that a thread has loaded alone, with the hook
called, are those there are, and what was accepted had one.

**Sessions.** `SessionInv` holds for both caches. A message is at most once in a
history, and none is there that a running turn is still to write (`MessageInv`),
since turns have numbers of their own: this is what makes order a property that
survives cutting a history at its old end (`OrderInv`, with what a turn finds of
its own messages, `Said`). The slice that a turn is about to assign is a history like
the others (`TailInv`): it has no message twice and none still to come; and as long as
nothing interfered, it is the end of the history it will replace, so the
assignment changes nothing but its length. Until something forks there is one working memory in
use, and the cache has it or, with the file_system cache, gets it before anyone
else loads (`ShareInv`); so the last turn saved is known to everyone (`KeepInv`)
and a deleted turn is nowhere but, for a moment, in the file that the request is
about to write (`CleanInv`). Objects never run out (`ActorFacts`, a pigeonhole
argument).

**WhiteRabbit.** The records of store, pool and outcomes belong to accepted calls
and due instants (`RecordsInv`). That an instant is handed to the pool once needs
`LaterInv`: the next run of a job is later than all that were handed out, also
after it was paused and resumed. That no call is lost needs that a one-shot job in
the store had no run yet. `RunsAreOffset` bounds the error of a one-shot job by the
offset of local time, for every offset east of UTC; `RunsStartWhenAsked` is `RunsWhenAsked` of
a host whose local time is UTC, the premise without which `rabbit_zone` refutes it.

**HookRace.** A turn that took its list in peace has called a prefix of it, and the
list is an earlier one or not being filled (`TurnInv`), so it stays as it is and
sorted (`ListsInv`). Nothing is said of the generations in which two operations had a
hand (`overlapped`); `CrossInv` says which those are, and `LoneInv` what an operation
that is alone in the newest generation has filled so far: plugins that are known and
active, each once, which its sort only permutes. Priorities may be equal; that
the stable sort yields a sorted list of the same items is proved from their ranks, by
counting. `LogInv` says that the manager knows every plugin of the list (`ListKnown`,
from `KnownInv`) until it loses one (`touched`), and only a plugin it does not know
lets a hook end the turn.

**Settings.** Everything is claimed up to the first crossing or failing write:
`SettingsInv` records both for good and states `SettingsGood` of the time before.
`FileInv` relates the file to the history variables; a change has the effect that
was meant because its kind, insertion or update, fits the file it was decided on
(`ChangeIsMeant`, from `InsertFacts`, `UpdateFactsDb` and `RemoveFacts`, for any
number of documents of a name). The point is aliasing: the query cache hands out one
object to many threads, and a route changes it in place before it saves it.
`CacheInv` says that a cached object is as in the file, unless a thread that holds it
is changing it (`Current`), a write is not yet finished (`Cutting`: the cache, which it
empties at its end, is that of the file before), or the core plugin was added to it;
and that no object is users and another setting at once. `ThreadInv` says of each place a thread can be at that what it has found
and means to write is right unless it is marked stale, which is when saving or
caching it counts as a crossing; an object that was read and is not cached yet is its
own (`Private`, for which `NewResultFacts` counts the objects in use).

Only model-checked are:

* Liveness (`BootEventually` of `plugins`, `JobsSettle` of `rabbit`), which is out
  of reach of the prover.
* `AsilMonotone`, a statement about one fixed table, without parameters: evaluating
  it is complete.
* That every action can be taken: a theorem also holds of a specification that can
  do nothing.

## Not modelled

Prompts, parsing and rendering of text; the models behind the LLM and embedder
interfaces; logging and static files. Selecting a project, listing artifacts and
rendering templates only format what `SafetyLifecycle` keeps. Authentication is a
table of permissions without state. Of the modelled components: plugin settings
and the registry of plugins; recall, which changes nothing;
the routes that change a setting by its id; passwords and permissions of users;
expiry of cache items, which no caller uses; messages that a plugin adds to the
history with `send_chat_message(save=True)` (`looking_glass/stray_cat.py:202`); the
overlap of chunks and the metadata of uploads.

## Plan

1. Done: all modules above; every invariant, action property and refinement that a
   passing run checks is proved.
2. Left: the parts under "Not modelled" that keep state (the settings of plugins
   and the registry, settings changed by their id, the passwords and permissions of
   users).
