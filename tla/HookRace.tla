------------------------------ MODULE HookRace ------------------------------
(***************************************************************************)
(* The plugin manager toggles, uninstalls and rediscovers plugins, each     *)
(* with a sync (sync_hooks_tools_and_forms), against a chat turn that pipes *)
(* a message through one hook (execute_hook, in a threadpool thread).       *)
(*                                                                         *)
(* The event loop does one of these operations at a time; find_plugins also *)
(* runs in the threads that change the LLM or the embedder, beside them.    *)
(* Nothing is locked: all of them work on self.plugins, self.active_plugins *)
(* and self.hooks, whatever dictionaries these refer to by then.            *)
(*                                                                         *)
(* Each sync makes a new dictionary and new lists; gen numbers them, and    *)
(* dict the dictionaries of plugins.  list.sort empties the list while it   *)
(* calls the key function, which is Python code, so another thread may look *)
(* at it then.                                                             *)
(***************************************************************************)
EXTENDS Naturals, Sequences, FiniteSets, SequencesExt

CONSTANTS
    Plugins,      \* plugins that implement the hook
    CorePlugin,   \* the one that is always active after find_plugins
    Priority,     \* Priority[p] of p's implementation
    Syncers,      \* the event loop, and threads of the pool
    Loop,         \* the event loop
    Nothing,      \* no plugin to remove
    MaxSyncs      \* bound on syncs

ASSUME HookAssumption ==
    /\ IsFiniteSet(Plugins) /\ CorePlugin \in Plugins
    /\ Priority \in [Plugins -> Nat]
    /\ Loop \in Syncers
    /\ Nothing \notin Plugins
    /\ MaxSyncs \in Nat

VARIABLES
    installed,  \* plugins with a folder
    dict,       \* which dictionary self.plugins refers to
    plugins,    \* plugins[d]: the keys of dictionary d
    ready,      \* ready[d]: those whose object was activated, and has hooks
    active,     \* active_plugins
    saved,      \* the list in the database
    gen,        \* which dictionary self.hooks refers to
    hooks,      \* hooks[g]: the list under the hook's name in dictionary g
    hasKey,     \* hasKey[g]: the name is a key of dictionary g
    sync,       \* sync[s]: the operation that s is in
    overlapped, \* history: the values of gen that an operation made beside another,
                \* or during which one began beside another
    partial,    \* history: no sync began since find_plugins emptied self.plugins
    stage,      \* where the chat turn is
    using,      \* generation of the list the turn iterates over
    idx,        \* its position
    ran,        \* the hooks called so far
    clean,      \* history: no sync was running when the list was taken
    tangled,    \* history: the list was taken from an overlapped generation
    touched     \* history: since the turn began, self.plugins has lost a plugin

pluginVars == <<installed, dict, plugins, ready, active, saved>>
listVars == <<gen, hooks, hasKey>>
syncVars == <<pluginVars, listVars, sync, overlapped, partial>>
turnVars == <<stage, using, idx, ran, clean, tangled>>
hookVars == <<syncVars, turnVars, touched>>

\* hooks.sort(key=lambda x: x.priority, reverse=True), which keeps the order of equals.
ByPriority(s) ==
    LET order == CHOOSE f \in [DOMAIN s -> DOMAIN s] :
                     /\ IsInjective(f)
                     /\ \A i, j \in DOMAIN s : i < j =>
                            \/ Priority[s[f[i]]] > Priority[s[f[j]]]
                            \/ Priority[s[f[i]]] = Priority[s[f[j]]] /\ f[i] < f[j]
    IN  [i \in DOMAIN s |-> s[order[i]]]

\* Where a syncer is, the plugins it has not reached, the one it is at, the
\* dictionary it iterates over with its keys then, the plugin to uninstall after the
\* sync, and the list it sorts, which is empty, with its items; and, as history, if
\* another syncer was busy beside this operation.
Idle == [pc |-> "idle", left |-> {}, at |-> Nothing, dict |-> 0, keys |-> {},
         removing |-> Nothing, into |-> 0, unsorted |-> <<>>, crossed |-> FALSE]

To(s, r) == sync' = [sync EXCEPT ![s] = r]

\* The operation goes on from here.
On(s, r) == To(s, [r EXCEPT !.crossed = sync[s].crossed])

Busy(s) == sync[s].pc # "idle"

\* The core plugin's folder is listed before the others, so its key is the first one.
CoreFirst(ps, p) == CorePlugin \in ps => p = CorePlugin

Others(s) == {o \in Syncers \ {s} : Busy(o)}

-----------------------------------------------------------------------------
(* sync_hooks_tools_and_forms *)

\* Mutant of Reset: the old lists are emptied and filled again.
ResetInPlace(s, removing) ==
    /\ gen <= MaxSyncs
    /\ hooks' = [hooks EXCEPT ![gen] = <<>>]
    /\ hasKey' = [hasKey EXCEPT ![gen] = FALSE]
    /\ On(s, [Idle EXCEPT !.pc = "fill", !.left = plugins[dict], !.dict = dict,
                          !.keys = plugins[dict], !.removing = removing])
    /\ partial' = FALSE
    /\ UNCHANGED <<gen, overlapped>>

\* A sync begins with a new dictionary, and iterates over self.plugins.
Reset(s, removing) ==
    /\ gen <= MaxSyncs
    /\ gen' = gen + 1
    /\ On(s, [Idle EXCEPT !.pc = "fill", !.left = plugins[dict], !.dict = dict,
                          !.keys = plugins[dict], !.removing = removing])
    /\ overlapped' = IF sync[s].crossed THEN overlapped \union {gen + 1} ELSE overlapped
    /\ partial' = FALSE
    /\ UNCHANGED <<hooks, hasKey>>

\* A plugin that is not active, or whose object was not activated, has no hooks.
\* Else the first hook makes an empty list.
Fill(s, p) ==
    /\ sync[s].pc = "fill" /\ p \in sync[s].left /\ CoreFirst(sync[s].left, p)
    /\ plugins[sync[s].dict] = sync[s].keys
    /\ IF p \in active /\ p \in ready[sync[s].dict]
       THEN /\ hasKey' = [hasKey EXCEPT ![gen] = TRUE]
            /\ To(s, [sync[s] EXCEPT !.pc = "append", !.at = p, !.left = @ \ {p}])
       ELSE /\ To(s, [sync[s] EXCEPT !.left = @ \ {p}])
            /\ UNCHANGED hasKey
    /\ UNCHANGED <<pluginVars, gen, hooks, overlapped, partial, turnVars, touched>>

\* self.hooks[h.name].append(h); a KeyError if another sync has begun.
FillAppend(s) ==
    /\ sync[s].pc = "append"
    /\ IF hasKey[gen]
       THEN /\ hooks' = [hooks EXCEPT ![gen] = Append(@, sync[s].at)]
            /\ To(s, [sync[s] EXCEPT !.pc = "fill", !.at = Nothing])
       ELSE To(s, Idle) /\ UNCHANGED hooks
    /\ UNCHANGED <<pluginVars, gen, hasKey, overlapped, partial, turnVars, touched>>

\* Iterating over a dictionary raises a RuntimeError once it has changed.  (Others add
\* keys of other hooks to self.hooks.)
SyncRaises(s) ==
    /\ sync[s].pc = "fill"
    /\ \/ plugins[sync[s].dict] # sync[s].keys
       \/ sync[s].left = {} /\ \E o \in Others(s) : sync[o].pc \in {"fill", "append"}
    /\ To(s, Idle)
    /\ UNCHANGED <<pluginVars, listVars, overlapped, partial, turnVars, touched>>

\* After the sync, a plugin that is to be uninstalled is removed, unless the callback
\* that embeds the tools raises.
AfterSync(r) ==
    {Idle} \union {[Idle EXCEPT !.pc = "delete", !.removing = q, !.crossed = r.crossed] :
                        q \in {r.removing} \ {Nothing}}

\* (Without items, the key function is not called.)
SortBegins(s) ==
    /\ sync[s].pc = "fill" /\ sync[s].left = {}
    /\ plugins[sync[s].dict] = sync[s].keys
    /\ IF hooks[gen] = <<>>
       THEN (\E r \in AfterSync(sync[s]) : To(s, r)) /\ UNCHANGED hooks
       ELSE /\ hooks' = [hooks EXCEPT ![gen] = <<>>]
            /\ To(s, [sync[s] EXCEPT !.pc = "sort", !.into = gen, !.unsorted = hooks[gen]])
    /\ UNCHANGED <<pluginVars, gen, hasKey, overlapped, partial, turnVars, touched>>

\* The list gets its items, and what was appended meanwhile is lost, with a ValueError.
SortEnds(s) ==
    LET r == sync[s]
    IN  /\ r.pc = "sort"
        /\ hooks' = [hooks EXCEPT ![r.into] = ByPriority(r.unsorted)]
        /\ IF hooks[r.into] = <<>> THEN \E q \in AfterSync(r) : To(s, q) ELSE To(s, Idle)
        /\ UNCHANGED <<pluginVars, gen, hasKey, overlapped, partial, turnVars, touched>>

-----------------------------------------------------------------------------
(* toggle_plugin, uninstall_plugin, find_plugins *)

\* An operation begins with r, maybe beside others.
Starts(s, r) ==
    /\ ~Busy(s)
    /\ overlapped' = IF Others(s) = {} THEN overlapped ELSE overlapped \union {gen}
    /\ sync' = [o \in Syncers |-> IF o = s THEN [r EXCEPT !.crossed = (Others(s) # {})]
                                  ELSE IF Busy(o) THEN [sync[o] EXCEPT !.crossed = TRUE]
                                  ELSE sync[o]]

\* toggle_plugin, before it saves the list.
Switch(p) ==
    IF p \in active
    THEN /\ active' = active \ {p}
         /\ ready' = [ready EXCEPT ![dict] = @ \ {p}]
    ELSE /\ active' = active \union {p}
         /\ ready' = [ready EXCEPT ![dict] = @ \union {p}]

\* Mutant of toggle_plugin: a plugin that is switched off is forgotten.
toggle_and_forget(p) ==
    /\ Starts(Loop, [Idle EXCEPT !.pc = "save"])
    /\ p \in plugins[dict]
    /\ Switch(p)
    /\ plugins' = IF p \in active THEN [plugins EXCEPT ![dict] = @ \ {p}] ELSE plugins
    /\ UNCHANGED <<installed, dict, saved, listVars, partial, turnVars, touched>>

toggle_plugin(p) ==
    /\ Starts(Loop, [Idle EXCEPT !.pc = "save"])
    /\ p \in plugins[dict]
    /\ Switch(p)
    /\ UNCHANGED <<installed, dict, plugins, saved, listVars, partial, turnVars, touched>>

\* An active plugin is first switched off.
uninstall_plugin(p) ==
    /\ Starts(Loop, [Idle EXCEPT !.pc = IF p \in active THEN "save" ELSE "delete", !.removing = p])
    /\ p \in plugins[dict] \ {CorePlugin}
    /\ IF p \in active THEN Switch(p) ELSE UNCHANGED <<active, ready>>
    /\ UNCHANGED <<installed, dict, plugins, saved, listVars, partial, turnVars, touched>>

\* The list is saved, and the sync begins.
SaveActive(s) ==
    /\ sync[s].pc = "save"
    /\ saved' = active
    /\ Reset(s, sync[s].removing)
    /\ UNCHANGED <<installed, dict, plugins, ready, active, turnVars, touched>>

\* Then it is dropped from self.plugins, unless it is not there anymore (KeyError),
\* and its folder is deleted.
Uninstalled(s) ==
    /\ sync[s].pc = "delete"
    /\ IF sync[s].removing \in plugins[dict]
       THEN /\ plugins' = [plugins EXCEPT ![dict] = @ \ {sync[s].removing}]
            /\ installed' = installed \ {sync[s].removing}
            /\ touched' = TRUE
       ELSE UNCHANGED <<plugins, installed, touched>>
    /\ To(s, Idle)
    /\ UNCHANGED <<dict, ready, active, saved, listVars, overlapped, partial, turnVars>>

\* find_plugins, when collections are wiped (event loop), and when the LLM or the
\* embedder is changed (pool): self.plugins is emptied, and filled folder by
\* folder, before the sync.
find_plugins(s) ==
    /\ Starts(s, [Idle EXCEPT !.pc = "load"])
    /\ dict <= MaxSyncs
    /\ dict' = dict + 1
    /\ partial' = TRUE
    /\ touched' = TRUE
    /\ UNCHANGED <<installed, plugins, ready, active, saved, listVars, turnVars>>

\* The core plugin is always active.
load_active_plugins_from_db(s) ==
    /\ sync[s].pc = "load"
    /\ active' = saved \union {CorePlugin}
    /\ On(s, [Idle EXCEPT !.pc = "find", !.left = installed])
    /\ UNCHANGED <<installed, dict, plugins, ready, saved, listVars, overlapped, partial, turnVars, touched>>

\* A folder that is gone is no plugin.
load_plugin(s, p) ==
    /\ sync[s].pc = "find" /\ p \in sync[s].left /\ CoreFirst(sync[s].left, p)
    /\ plugins' = IF p \in installed THEN [plugins EXCEPT ![dict] = @ \union {p}] ELSE plugins
    /\ ready' = IF p \in installed THEN [ready EXCEPT ![dict] = @ \ {p}] ELSE ready
    /\ To(s, [sync[s] EXCEPT !.pc = IF p \in active THEN "activate" ELSE "find",
                             !.at = p, !.left = @ \ {p}])
    /\ UNCHANGED <<installed, dict, active, saved, listVars, overlapped, partial, turnVars, touched>>

\* What cannot be activated is switched off, and find_plugins ends with the sync of that,
\* or without, if deactivating it raises or it is not in self.plugins.
Activate(s) ==
    LET p == sync[s].at
    IN  /\ sync[s].pc = "activate"
        /\ \/ /\ p \in plugins[dict]
              /\ ready' = [ready EXCEPT ![dict] = @ \union {p}]
              /\ To(s, [sync[s] EXCEPT !.pc = "find", !.at = Nothing])
              /\ UNCHANGED active
           \/ /\ p \in plugins[dict] /\ p \in active
              /\ Switch(p)
              /\ On(s, [Idle EXCEPT !.pc = "save"])
           \/ To(s, Idle) /\ UNCHANGED <<active, ready>>
        /\ UNCHANGED <<installed, dict, plugins, saved, listVars, overlapped, partial, turnVars, touched>>

Found(s) ==
    /\ sync[s].pc = "find" /\ sync[s].left = {}
    /\ Reset(s, Nothing)
    /\ UNCHANGED <<pluginVars, turnVars, touched>>

-----------------------------------------------------------------------------
(* execute_hook *)

\* (One turn is followed, which begins at any time: turns change nothing that others see.)
Begin ==
    /\ stage = "idle"
    /\ stage' = "check"
    /\ ran' = <<>> /\ idx' = 1 /\ clean' = FALSE /\ tangled' = FALSE
    /\ touched' = partial
    /\ UNCHANGED <<syncVars, using>>

Check ==
    /\ stage = "check"
    /\ stage' = IF hasKey[gen] THEN "take" ELSE "not_present"
    /\ UNCHANGED <<syncVars, using, idx, ran, clean, tangled, touched>>

\* self.hooks[hook_name]; a reset since the check makes it a KeyError.
Take ==
    /\ stage = "take"
    /\ stage' = IF hasKey[gen] THEN "pipe" ELSE "not_present"
    /\ using' = gen
    /\ clean' = (\A s \in Syncers : ~Busy(s))
    /\ tangled' = (gen \in overlapped)
    /\ UNCHANGED <<syncVars, idx, ran, touched>>

\* One hook is called.  What it returns is piped; if it raises, the next one
\* follows.  The handler looks the plugin up to log a message: without it, its
\* KeyError ends the turn.
Pipe ==
    /\ stage = "pipe"
    /\ idx <= Len(hooks[using])
    /\ ran' = Append(ran, hooks[using][idx])
    /\ idx' = idx + 1
    /\ \/ UNCHANGED stage
       \/ hooks[using][idx] \notin plugins[dict] /\ stage' = "aborted"
    /\ UNCHANGED <<syncVars, using, clean, tangled, touched>>

Return ==
    /\ stage = "pipe"
    /\ idx > Len(hooks[using])
    /\ stage' = "done"
    /\ UNCHANGED <<syncVars, using, idx, ran, clean, tangled, touched>>

-----------------------------------------------------------------------------
Gens == 1 .. MaxSyncs + 1

HookInit ==
    /\ installed = Plugins /\ active = Plugins /\ saved = Plugins
    /\ dict = 1
    /\ plugins = [d \in Gens |-> IF d = 1 THEN Plugins ELSE {}]
    /\ ready = [d \in Gens |-> IF d = 1 THEN Plugins ELSE {}]
    /\ gen = 1
    /\ hooks = [g \in Gens |-> IF g = 1 THEN ByPriority(SetToSeq(Plugins)) ELSE <<>>]
    /\ hasKey = [g \in Gens |-> g = 1]
    /\ sync = [s \in Syncers |-> Idle]
    /\ overlapped = {} /\ partial = FALSE
    /\ stage = "idle" /\ using = 1 /\ idx = 1 /\ ran = <<>> /\ clean = FALSE /\ tangled = FALSE
    /\ touched = FALSE

SyncStep(s) ==
    \/ \E p \in Plugins : load_plugin(s, p) \/ Fill(s, p)
    \/ find_plugins(s) \/ load_active_plugins_from_db(s) \/ Activate(s) \/ Found(s)
    \/ SaveActive(s) \/ FillAppend(s) \/ SyncRaises(s) \/ SortBegins(s) \/ SortEnds(s) \/ Uninstalled(s)

HookNext ==
    \/ \E p \in Plugins : toggle_plugin(p) \/ uninstall_plugin(p)
    \/ \E s \in Syncers : SyncStep(s)
    \/ Begin \/ Check \/ Take \/ Pipe \/ Return

HookSpec == HookInit /\ [][HookNext]_hookVars

-----------------------------------------------------------------------------
(* Properties *)

\* A turn that took the list while no sync was running calls each hook of
\* that list exactly once, in priority order, even when syncs begin, overlap and end
\* during the pipe: they never touch the lists of earlier syncs.  Not so a list that
\* was made while two syncs overlapped (tangled): it may have a hook twice.
SnapshotPipe ==
    (stage = "done" /\ clean /\ ~tangled) =>
        /\ ran = hooks[using]
        /\ IsInjective(ran)
        /\ \A i, j \in DOMAIN ran : i < j => Priority[ran[i]] >= Priority[ran[j]]

\* A hook that raises never keeps the others from running, whatever is toggled
\* meanwhile: the turn is cut short only if self.plugins has lost a plugin since
\* it began, because one was uninstalled or the plugins were rediscovered, or if it
\* began when a rediscovery had not ended, or had failed before its sync.  Not so if
\* two syncs overlapped in the generation of its list (tangled): that may have a hook
\* of a plugin that is gone.
RaiseIsContained == stage = "aborted" => touched \/ tangled
=============================================================================
