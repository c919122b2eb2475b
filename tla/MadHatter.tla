----------------------------- MODULE MadHatter -----------------------------
(***************************************************************************)
(* The plugin manager: mad_hatter.py, plugin.py, plugin_extractor.py and   *)
(* the registration of custom endpoints (decorators/endpoint.py).          *)
(*                                                                         *)
(* The routes of /plugins and /memory/collections are coroutines that call *)
(* the manager without an await, so install, toggle, uninstall and the     *)
(* rediscovery after a wipe do not interleave.  HookRace looks at the      *)
(* rediscoveries and chat turns that run meanwhile in other threads.       *)
(*                                                                         *)
(* A package has a version, at most one Python file, and a kind: pip may   *)
(* fail to install its requirements ("flaky"), its @plugin override        *)
(* `activated` raises ("raises"), or `activated` and `deactivated` may     *)
(* raise ("moody").  Every plugin but core_plugin has one endpoint.        *)
(***************************************************************************)
EXTENDS Naturals, FiniteSets

CONSTANTS
    Plugins,       \* plugin ids; core_plugin is one of them
    Path,          \* Path[p]: path and method of p's endpoint
    Files,         \* names of Python files
    Lasting,       \* those whose module deactivate does not find
    NoFile,        \* a package without Python files
    Packages,      \* kind and file of the packages that are installed
    MaxInstalls,   \* bound on packages
    MaxCrashes     \* bound on stops of the process

Core == "core_plugin"

Others == Plugins \ {Core}

ASSUME MadHatterAssumption ==
    /\ Core \in Plugins
    /\ Lasting \subseteq Files /\ Files # {} /\ NoFile \notin Files
    /\ Packages \subseteq [kind : {"ok", "flaky", "raises", "moody"}, file : Files \union {NoFile}]
    /\ MaxInstalls \in Nat /\ MaxCrashes \in Nat

VARIABLES
    disk,        \* disk[p]: package in the plugin's folder
    db,          \* the setting active_plugins
    booted,      \* the process has started
    plugins,     \* plugins[p]: the Plugin object, its Python file and the package of its code
    modules,     \* modules[p][f]: package of the module in sys.modules
    active,      \* active_plugins
    hooks,       \* hooks[p]: package of p's hooks, tools and forms that the last sync cached
    routes,      \* routes[path]: plugin and package that serve a path, or <<>>
    installs, crashes,
    overlaid,    \* history: a package was installed over an active plugin since the start
    lost,        \* history: a rediscovery has failed since the start
    halfway,     \* history: it failed before its sync, and there was none since
    stuck        \* history: modules that stayed imported when their plugin was deactivated or
                 \* replaced, or when its activation raised

disks == <<disk, db>>
caches == <<hooks, routes>>
process == <<plugins, modules, active, hooks, routes>>
ghosts == <<overlaid, lost, halfway, stuck>>
vars == <<disks, booted, process, installs, crashes, ghosts>>

Paths == {Path[p] : p \in DOMAIN Path}

\* No folder, no code.
None == [version |-> 0, kind |-> "none", file |-> NoFile]

-----------------------------------------------------------------------------
(* plugin.py *)

\* A Plugin object before its code is loaded.  A folder without Python file has none.
Object(package) == [file |-> package.file, code |-> None]

Gone == Object(None)

known == {p \in Plugins : plugins[p] # Gone}

\* importlib.import_module: a cached module wins, and the file may be gone.
Imported(p, f) ==
    CASE f = NoFile -> None
      [] f # NoFile /\ modules[p][f] # None -> modules[p][f]
      [] OTHER -> IF f = disk'[p].file THEN disk'[p] ELSE None

\* Outcomes of Plugin.activate: pip fails before the code is loaded, the activated
\* override raises after it.
activate(p, code) ==
    {o \in {"done"} : code.kind # "raises"}
        \union {o \in {"before"} : disk'[p].kind = "flaky"}
        \union {o \in {"after"} : code.kind \in {"raises", "moody"}}

\* The deactivated override may raise, before anything else is done.
MayCling(object) == object.code.kind = "moody"

\* The other order of the replacements in a module's name misses those whose name, or
\* folder's name, begins with py.
Removed(p, f, m) == IF f \in Lasting \/ f = NoFile THEN m ELSE [m EXCEPT ![p][f] = None]

Left(p, f, s) == IF f \in Lasting THEN s \union {<<p, f>>} ELSE s \ {<<p, f>>}

-----------------------------------------------------------------------------
(* mad_hatter.py *)

\* Mutant of Synced: a sync only adds.
SyncOnlyAdds(obj, a) == [p \in Plugins |-> IF p \in a /\ obj[p] # Gone THEN obj[p].code ELSE hooks[p]]

\* sync_hooks_tools_and_forms: what is cached for the chat turns.
Synced(obj, a) == [p \in Plugins |-> IF p \in a THEN obj[p].code ELSE None]

Claims(path, h) == {<<p, h[p]>> : p \in {q \in Others : Path[q] = path /\ h[q] # None}}

\* The callback registers the endpoints of the synced plugins; a path that is
\* taken keeps its route.
activate_endpoints(r, h) ==
    {s \in [Paths -> {<<>>} \union {<<p, h[p]>> : p \in Others}] :
        \A path \in Paths :
            IF r[path] # <<>> \/ Claims(path, h) = {} THEN s[path] = <<>> ELSE s[path] \in Claims(path, h)}

Registered(r, h) ==
    {[path \in Paths |-> IF r[path] # <<>> THEN r[path] ELSE s[path]] : s \in activate_endpoints(r, h)}

\* Mutant of WithoutRoute: the route stays.
RouteStays(r, p, obj) == r

\* CustomEndpoint.deactivate removes whatever route has its path and method.
WithoutRoute(r, p, obj) ==
    [path \in Paths |-> IF p \in Others /\ obj[p].code # None /\ Path[p] = path THEN <<>> ELSE r[path]]

\* Mutant of SaveAndSync: the list is not saved.
SyncWithoutSave(obj, a, r) ==
    /\ active' = a
    /\ db' = db
    /\ hooks' = Synced(obj, a)
    /\ routes' \in Registered(r, hooks')
    /\ halfway' = FALSE

\* The end of toggle_plugin: save to the database, sync.
SaveAndSync(obj, a, r) ==
    /\ active' = a
    /\ db' = a
    /\ hooks' = Synced(obj, a)
    /\ routes' \in Registered(r, hooks')
    /\ halfway' = FALSE

\* Mutant of deactivate: the imported modules are not removed.
DeactivateKeepsModules(p, obj, m, a, s) ==
    /\ modules' = m
    /\ SaveAndSync([obj EXCEPT ![p].code = None], a \ {p}, WithoutRoute(routes, p, obj))
    /\ stuck' = Left(p, obj[p].file, s)

\* The plugin with object obj[p] is switched off, with the modules m, the active plugins
\* a and the modules s that have stayed so far.
deactivate(p, obj, m, a, s) ==
    /\ modules' = Removed(p, obj[p].file, m)
    /\ SaveAndSync([obj EXCEPT ![p].code = None], a \ {p}, WithoutRoute(routes, p, obj))
    /\ stuck' = Left(p, obj[p].file, s)

\* toggle_plugin on the Plugin objects obj, after disk' is set.
toggle_plugin(p, obj, s) ==
    \/ /\ obj[p] = Gone \/ (p \in active /\ MayCling(obj[p]))
       /\ plugins' = obj /\ stuck' = s
       /\ UNCHANGED <<modules, active, db, caches, halfway>>
    \/ /\ obj[p] # Gone /\ p \in active
       /\ plugins' = [obj EXCEPT ![p].code = None]
       /\ deactivate(p, obj, modules, active, s)
    \/ /\ obj[p] # Gone /\ p \notin active
       /\ LET f == obj[p].file
              code == Imported(p, f)
          IN  \/ /\ "before" \in activate(p, code)
                 /\ plugins' = obj /\ stuck' = s
                 /\ UNCHANGED <<modules, active, db, caches, halfway>>
              \/ /\ "after" \in activate(p, code)
                 /\ plugins' = [obj EXCEPT ![p].code = code]
                 /\ modules' = [modules EXCEPT ![p][f] = code]
                 /\ stuck' = s \union {<<p, f>>}
                 /\ UNCHANGED <<active, db, caches, halfway>>
              \/ /\ "done" \in activate(p, code)
                 /\ plugins' = [obj EXCEPT ![p].code = code]
                 /\ modules' = [modules EXCEPT ![p][f] = code]
                 /\ stuck' = s
                 /\ SaveAndSync(plugins', active \union {p}, routes)

\* PluginExtractor.extract replaces the folder.
Extract(p, new) ==
    /\ installs < MaxInstalls
    /\ installs' = installs + 1
    /\ disk' = [disk EXCEPT ![p] = [version |-> installs + 1, kind |-> new.kind, file |-> new.file]]

\* install_plugin: the new Plugin object replaces the old one, unless it
\* cannot be made (load_plugin logs the error); then the plugin is toggled.
install_plugin(p, new) ==
    /\ booted
    /\ Extract(p, new)
    /\ overlaid' = (overlaid \/ p \in active)
    /\ toggle_plugin(p,
           IF new.file = NoFile THEN plugins ELSE [plugins EXCEPT ![p] = Object(disk'[p])],
           IF disk[p].file \in Files \ {new.file} THEN stuck \union {<<p, disk[p].file>>} ELSE stuck)
    /\ UNCHANGED <<booted, crashes, lost>>

Toggle(p) ==
    /\ booted
    /\ p \in known
    /\ UNCHANGED <<disk, booted, installs, crashes, overlaid, lost>>
    /\ toggle_plugin(p, plugins, stuck)

\* uninstall_plugin; the modules of a plugin that is not active stay imported.  (It is
\* only a Toggle if the deactivation raises, or the callback that embeds the tools.)
uninstall_plugin(p) ==
    /\ booted
    /\ p \in known \ {Core}
    /\ disk' = [disk EXCEPT ![p] = None]
    /\ plugins' = [plugins EXCEPT ![p] = Gone]
    /\ IF p \in active
       THEN deactivate(p, plugins, modules, active, stuck)
       ELSE UNCHANGED <<modules, active, db, caches, stuck, halfway>>
    /\ UNCHANGED <<booted, installs, crashes, overlaid, lost>>

-----------------------------------------------------------------------------
(* find_plugins, at the start and after a wipe or a change of the models *)

OnDisk == {p \in Plugins : disk[p] # None}

load_active_plugins_from_db == db \union {Core}

\* Folders without Python file are met with an exception if they are listed.
Unloadable == {p \in load_active_plugins_from_db \intersect OnDisk : disk[p].file = NoFile}

\* The Plugin objects after the folders E, and the modules then.
load_plugins(E) ==
    [p \in Plugins |->
        IF p \in E THEN [Object(disk[p]) EXCEPT !.code =
                             IF p \in load_active_plugins_from_db THEN Imported(p, disk[p].file) ELSE None]
        ELSE Gone]

WithModules(obj) ==
    [p \in Plugins |-> [f \in Files |->
        IF f = obj[p].file /\ obj[p].code # None THEN obj[p].code ELSE modules[p][f]]]

\* Every listed plugin is activated.  Modules that are imported stay, and the endpoints
\* in them; so do the routes.
find_plugins ==
    /\ Unloadable = {}
    /\ booted' = TRUE
    /\ disk' = disk
    /\ active' = load_active_plugins_from_db
    /\ plugins' = load_plugins(OnDisk)
    /\ \A p \in active' \intersect OnDisk : "done" \in activate(p, plugins'[p].code)
    /\ modules' = WithModules(plugins')
    /\ hooks' = Synced(plugins', active')
    /\ routes' \in Registered(routes, hooks')
    /\ halfway' = FALSE
    /\ UNCHANGED <<db, installs, crashes, overlaid, lost, stuck>>

\* A listed plugin cannot be activated while the server runs: it is toggled off and the
\* exception ends the discovery, when only the folders E, core_plugin first, are loaded.
\* If it has no Plugin object, or its deactivation raises too, nothing is saved or synced.
find_plugins_fails ==
    /\ booted
    /\ disk' = disk
    /\ lost' = TRUE
    /\ \E p \in Others \intersect load_active_plugins_from_db \intersect OnDisk, E \in SUBSET OnDisk :
           /\ Core \in E /\ p \notin E /\ E \intersect Unloadable = {}
           /\ \A q \in E \intersect load_active_plugins_from_db : "done" \in activate(q, load_plugins(E)[q].code)
           /\ LET before == [load_plugins(E) EXCEPT ![p] = Object(disk[p])]
                  after == load_plugins(E \union {p})
              IN  \/ /\ p \in Unloadable \/ ("after" \in activate(p, after[p].code) /\ MayCling(after[p]))
                     /\ plugins' = after
                     /\ modules' = WithModules(plugins')
                     /\ active' = load_active_plugins_from_db
                     /\ halfway' = TRUE
                     /\ UNCHANGED <<db, caches, stuck>>
                  \/ /\ p \notin Unloadable
                     /\ "before" \in activate(p, None)
                     /\ plugins' = before
                     /\ deactivate(p, before, WithModules(before), load_active_plugins_from_db, stuck)
                  \/ /\ "after" \in activate(p, after[p].code)
                     /\ plugins' = [after EXCEPT ![p].code = None]
                     /\ deactivate(p, after, WithModules(after), load_active_plugins_from_db, stuck)
    /\ UNCHANGED <<booted, installs, crashes, overlaid>>

-----------------------------------------------------------------------------
(* Start and stop of the process *)

NoModules == [p \in Plugins |-> [f \in Files |-> None]]

Nothing ==
    /\ plugins' = [p \in Plugins |-> Gone] /\ modules' = NoModules
    /\ active' = {}
    /\ hooks' = [p \in Plugins |-> None] /\ routes' = [path \in Paths |-> <<>>]
    /\ overlaid' = FALSE /\ lost' = FALSE /\ halfway' = FALSE /\ stuck' = {}

Starts == ~booted /\ find_plugins

\* Mutant of BootDeactivates: the plugin is not toggled off.
BootOnlyRaises ==
    /\ ~booted
    /\ \E p \in load_active_plugins_from_db \intersect OnDisk : disk[p].kind \in {"flaky", "raises", "moody"}
    /\ Nothing
    /\ UNCHANGED <<disks, booted, installs, crashes>>

\* An active plugin cannot be activated: it is toggled off and the exception
\* ends the start.
BootDeactivates ==
    /\ ~booted
    /\ \E p \in load_active_plugins_from_db \intersect OnDisk :
           /\ disk[p].kind \in {"flaky", "raises", "moody"}
           /\ db' = load_active_plugins_from_db \ {p}
    /\ Nothing
    /\ UNCHANGED <<disk, booted, installs, crashes>>

\* What keeps a start from deactivating the plugin that it fails at: there is no Plugin
\* object, or its deactivation raises, too.
Blocking == {p \in load_active_plugins_from_db \intersect OnDisk :
                 disk[p].file = NoFile \/ disk[p].kind = "moody"}

BootFails ==
    /\ ~booted
    /\ Blocking # {}
    /\ Nothing
    /\ UNCHANGED <<disks, booted, installs, crashes>>

Boot == Starts \/ BootDeactivates \/ BootFails

Rediscover == booted /\ find_plugins

\* The process stops, between requests, or after the old folder was removed or the archive
\* extracted.
Stop ==
    /\ booted /\ crashes < MaxCrashes
    /\ crashes' = crashes + 1
    /\ booted' = FALSE
    /\ Nothing
    /\ db' = db
    /\ \/ UNCHANGED <<disk, installs>>
       \/ \E p \in Others : disk' = [disk EXCEPT ![p] = None] /\ UNCHANGED installs
       \/ \E p \in Others, new \in Packages : Extract(p, new)

Init ==
    \E file \in Files :
        /\ disk = [p \in Plugins |-> IF p = Core THEN [version |-> 1, kind |-> "ok", file |-> file] ELSE None]
        /\ db = {}
        /\ booted = FALSE
        /\ plugins = [p \in Plugins |-> Gone] /\ modules = NoModules
        /\ active = {}
        /\ hooks = [p \in Plugins |-> None] /\ routes = [path \in Paths |-> <<>>]
        /\ installs = 1 /\ crashes = 0
        /\ overlaid = FALSE /\ lost = FALSE /\ halfway = FALSE /\ stuck = {}

Next ==
    \/ \E p \in Others, new \in Packages : install_plugin(p, new)
    \/ \E p \in Plugins : Toggle(p) \/ uninstall_plugin(p)
    \/ Rediscover \/ find_plugins_fails
    \/ Boot
    \/ Stop

\* Whoever runs the server starts it again.
Spec == Init /\ [][Next]_vars /\ WF_vars(Boot)
-----------------------------------------------------------------------------
(* Properties *)

\* A restart restores what is running: the saved list is the list in memory,
\* but for core_plugin, which loading adds (load_active_plugins_from_db).
\* Failed activations, installs, uninstalls and rediscoveries included.
SavedActive == booted => db \union {Core} = active \union {Core}

\* The hooks, tools and forms that chat turns use are those of the Plugin
\* objects of the active plugins, after every operation, failed ones included, but
\* for a rediscovery that failed before its sync (halfway).
HooksOfActive == booted /\ ~halfway => hooks = [p \in Plugins |-> IF p \in active THEN plugins[p].code ELSE None]

\* Exactly the paths of active plugins are served, by the code that is loaded now,
\* although two plugins may claim one path, deactivation removes a path blindly and
\* rediscoveries make new Plugin objects beside the old routes.  Not so after a package was
\* installed over an active plugin (overlaid) or a rediscovery failed (lost), which
\* forget endpoints without removing their routes.
RoutesMatch ==
    (booted /\ ~overlaid /\ ~lost) =>
        \A path \in Paths :
            IF Claims(path, hooks) = {} THEN routes[path] = <<>> ELSE routes[path] \in Claims(path, hooks)

\* Installing a package replaces the plugin ("delete it as it will be
\* replaced", plugin_extractor.py): the hooks and tools in use are the code of
\* the folder on disk, unless they come from a module that stayed imported (stuck): its
\* activation raised, deactivate missed its name, or the package that replaced its own had
\* no such file.  (Nor after a rediscovery that failed before its sync.)
CodeFresh ==
    ~halfway => \A p \in Plugins : hooks[p] # None /\ <<p, plugins[p].file>> \notin stuck => hooks[p] = disk[p]

\* A plugin that cannot be activated never keeps the server down: each failed
\* start deactivates one, until the server runs.  Only an active plugin whose
\* folder has lost its Python files can block it, or one that raises whenever it is activated
\* and deactivated.
BootEventually == []<>(booted \/ Blocking # {})
=============================================================================
