-------------------------- MODULE MadHatter_proofs --------------------------
(***************************************************************************)
(* Proofs about MadHatter for any set of plugins, endpoints and file       *)
(* names, any packages and any number of installations and restarts.       *)
(***************************************************************************)
EXTENDS MadHatter, TLAPS

\* What a folder can hold, and a Plugin object.
Package == [version : Nat, kind : {"none", "ok", "flaky", "raises", "moody"}, file : Files \union {NoFile}]

Objects == [file : Files \union {NoFile}, code : Package]

RouteTargets == {<<>>} \union (Others \X Package)

TypeOK ==
    /\ disk \in [Plugins -> Package]
    /\ db \subseteq Plugins /\ active \subseteq Plugins
    /\ plugins \in [Plugins -> Objects] /\ modules \in [Plugins -> [Files -> Package]]
    /\ hooks \in [Plugins -> Package] /\ routes \in [Paths -> RouteTargets]
    /\ stuck \subseteq Plugins \X Files
    /\ booted \in BOOLEAN /\ overlaid \in BOOLEAN /\ lost \in BOOLEAN /\ halfway \in BOOLEAN
    /\ installs \in Nat /\ crashes \in Nat

\* Outside a running process nothing is loaded or cached.
Down ==
    ~booted => /\ hooks = [p \in Plugins |-> None] /\ routes = [path \in Paths |-> <<>>]
               /\ modules = NoModules /\ plugins = [p \in Plugins |-> Gone]
               /\ active = {}

\* The object obj[q] has the code that is imported under its file's name, which is the
\* file on disk, unless that is gone.
ObjectOK(q, obj, m, d) ==
    /\ obj[q].file = NoFile => obj[q] = Gone
    /\ obj[q].code # None => /\ obj[q].code.file = obj[q].file
                             /\ m[q][obj[q].file] = obj[q].code
    /\ obj[q] # Gone => d[q] # None /\ d[q].file \in {obj[q].file, NoFile}
    /\ \A f \in Files : m[q][f] # None => m[q][f].file = f

\* A module that did not get stuck is the code of the folder of an active plugin.
FreshOK(q, m, a, s, d) ==
    \A f \in Files : m[q][f] # None /\ <<q, f>> \notin s => m[q][f] = d[q] /\ q \in a

ObjectInv == \A q \in Plugins : ObjectOK(q, plugins, modules, disk)

LoadedFresh == \A q \in Plugins : FreshOK(q, modules, active, stuck, disk)

\* The inductive invariant.
IInv ==
    /\ TypeOK /\ Down /\ SavedActive /\ HooksOfActive /\ ObjectInv /\ LoadedFresh /\ RoutesMatch
    /\ halfway => lost

-----------------------------------------------------------------------------
(* Routes *)

\* What RoutesMatch says of a running process.
Served(r, h) ==
    \A path \in Paths :
        IF Claims(path, h) = {} THEN r[path] = <<>> ELSE r[path] \in Claims(path, h)

\* Registering endpoints (activate_endpoints) keeps the routes that are taken
\* and gives every free path that is claimed to one of its claimants.
LEMMA RegisteredFacts ==
    ASSUME NEW h \in [Plugins -> Package], NEW r \in [Paths -> RouteTargets],
           NEW s \in Registered(r, h)
    PROVE  /\ s \in [Paths -> RouteTargets]
           /\ \A path \in Paths :
                 /\ r[path] # <<>> => s[path] = r[path]
                 /\ r[path] = <<>> /\ Claims(path, h) = {} => s[path] = <<>>
                 /\ r[path] = <<>> /\ Claims(path, h) # {} => s[path] \in Claims(path, h)
<1>1. PICK e \in activate_endpoints(r, h) :
        s = [path \in Paths |-> IF r[path] # <<>> THEN r[path] ELSE e[path]]
  BY DEF Registered
<1>2. e \in [Paths -> {<<>>} \union {<<p, h[p]>> : p \in Others}]
  BY <1>1 DEF activate_endpoints
<1>3. \A path \in Paths :
        IF r[path] # <<>> \/ Claims(path, h) = {}
        THEN e[path] = <<>> ELSE e[path] \in Claims(path, h)
  BY <1>1 DEF activate_endpoints
<1>4. \A path \in Paths : e[path] \in RouteTargets
  <2>1. \A p \in Others : <<p, h[p]>> \in Others \X Package
    BY DEF Others
  <2> QED
    BY <1>2, <2>1 DEF RouteTargets
<1>5. s \in [Paths -> RouteTargets]
  BY <1>1, <1>4
<1>6. ASSUME NEW path \in Paths
      PROVE  /\ r[path] # <<>> => s[path] = r[path]
             /\ r[path] = <<>> /\ Claims(path, h) = {} => s[path] = <<>>
             /\ r[path] = <<>> /\ Claims(path, h) # {} => s[path] \in Claims(path, h)
  <2>1. s[path] = IF r[path] # <<>> THEN r[path] ELSE e[path]
    BY <1>1
  <2> QED
    BY <2>1, <1>3
<1> QED
  BY <1>5, <1>6

\* A registration that starts from routes of live plugins only serves exactly
\* the paths of the plugins it is given.
LEMMA RegisteredServes ==
    ASSUME NEW h \in [Plugins -> Package], NEW r \in [Paths -> RouteTargets],
           \A path \in Paths : r[path] # <<>> => r[path] \in Claims(path, h),
           NEW s \in Registered(r, h)
    PROVE  Served(s, h)
<1>1. SUFFICES ASSUME NEW path \in Paths
               PROVE  IF Claims(path, h) = {} THEN s[path] = <<>> ELSE s[path] \in Claims(path, h)
  BY DEF Served
<1>2. r[path] # <<>> => s[path] = r[path] /\ r[path] \in Claims(path, h)
  BY RegisteredFacts
<1>3. r[path] = <<>> /\ Claims(path, h) = {} => s[path] = <<>>
  BY RegisteredFacts
<1>4. r[path] = <<>> /\ Claims(path, h) # {} => s[path] \in Claims(path, h)
  BY RegisteredFacts
<1> QED
  BY <1>2, <1>3, <1>4

\* RoutesMatch in terms of Served.
LEMMA RoutesMatchServed ==
    /\ RoutesMatch <=> ((booted /\ ~overlaid /\ ~lost) => Served(routes, hooks))
    /\ RoutesMatch' <=> ((booted' /\ ~overlaid' /\ ~lost') => Served(routes', hooks'))
  BY DEF RoutesMatch, Served, Claims

-----------------------------------------------------------------------------
(* toggle_plugin *)

\* What is never stored.
LEMMA NoneFacts ==
    /\ None \in Package /\ None.file = NoFile /\ Gone \in Objects /\ Gone.file = NoFile /\ Gone.code = None
    /\ NoFile \notin Files
    /\ \A v \in Package : Object(v) \in Objects /\ Object(v).file = v.file /\ Object(v).code = None
    /\ \A o \in Objects, v \in Package :
          /\ [o EXCEPT !.code = v] \in Objects
          /\ [o EXCEPT !.code = v].file = o.file /\ [o EXCEPT !.code = v].code = v
  BY MadHatterAssumption DEF None, Gone, Object, Package, Objects

\* What a sync does: cache what the objects obj of the plugins a have, beside the routes r.
SyncedWith(obj, a, r) ==
    /\ active' = a /\ db' \subseteq Plugins /\ db' \union {Core} = a \union {Core}
    /\ hooks' = Synced(obj, a) /\ routes' \in Registered(r, hooks') /\ halfway' = FALSE

\* A sync keeps the invariant if objects and modules agree.
LEMMA SyncStep ==
    ASSUME NEW obj \in [Plugins -> Objects], NEW a \in SUBSET Plugins,
           NEW r \in [Paths -> RouteTargets],
           SyncedWith(obj, a, r),
           booted', plugins' \in [Plugins -> Objects], modules' \in [Plugins -> [Files -> Package]],
           disk' \in [Plugins -> Package], stuck' \subseteq Plugins \X Files,
           overlaid' \in BOOLEAN, lost' \in BOOLEAN, installs' \in Nat, crashes' \in Nat,
           \A q \in a : plugins'[q] = obj[q],
           ObjectInv', LoadedFresh',
           ~overlaid' /\ ~lost' =>
               \A path \in Paths : r[path] # <<>> => r[path] \in Claims(path, Synced(obj, a))
    PROVE  IInv'
<1>1. /\ active' = a /\ db' \subseteq Plugins /\ db' \union {Core} = a \union {Core}
      /\ hooks' = Synced(obj, a) /\ routes' \in Registered(r, hooks') /\ halfway' = FALSE
  BY DEF SyncedWith
<1>2. hooks' \in [Plugins -> Package]
  BY <1>1, NoneFacts DEF Synced, Objects
<1>3. routes' \in [Paths -> RouteTargets]
  BY <1>1, <1>2, RegisteredFacts
<1>4. TypeOK'
  BY <1>1, <1>2, <1>3 DEF TypeOK
<1>5. Down' /\ SavedActive'
  BY <1>1 DEF Down, SavedActive
<1>6. HooksOfActive'
  BY <1>1 DEF HooksOfActive, Synced
<1>7. ~overlaid' /\ ~lost' => Served(routes', hooks')
  BY <1>1, <1>2, RegisteredServes
<1>8. RoutesMatch'
  BY <1>7, RoutesMatchServed
<1> QED
  BY <1>1, <1>4, <1>5, <1>6, <1>8 DEF IInv

\* What holds when p is deactivated: obj, m, a, s and d are what deactivate and the
\* invariant take for the objects, modules, list, stuck modules and folders.
Switched(p, obj, m, a, s, d) ==
    /\ deactivate(p, obj, m, a, s)
    /\ obj[p] # Gone
    /\ \A q \in Plugins : ObjectOK(q, obj, m, d)
    /\ \A q \in Plugins \ {p} : FreshOK(q, m, a, s, d) /\ disk'[q] = d[q] /\ plugins'[q] = obj[q]
    /\ plugins'[p] = Gone \/ (plugins'[p] = [obj[p] EXCEPT !.code = None] /\ disk'[p] = d[p])
    /\ \A f \in Files : m[p][f] # None /\ <<p, f>> \notin s => f = obj[p].file
    /\ ~overlaid' /\ ~lost' =>
           /\ Served(routes, hooks)
           /\ hooks[p] # None => obj[p].code # None
           /\ \A q \in Plugins \ {p} : hooks[q] # None => q \in a /\ obj[q].code = hooks[q]

\* deactivate leaves no hook, route or module of the plugin behind, but for a lasting one.
LEMMA DeactivateStep ==
    ASSUME NEW p \in Plugins, NEW obj \in [Plugins -> Objects],
           NEW m \in [Plugins -> [Files -> Package]], NEW a \in SUBSET Plugins,
           NEW s \in SUBSET (Plugins \X Files), NEW d \in [Plugins -> Package],
           routes \in [Paths -> RouteTargets],
           booted', plugins' \in [Plugins -> Objects], disk' \in [Plugins -> Package],
           overlaid' \in BOOLEAN, lost' \in BOOLEAN, installs' \in Nat, crashes' \in Nat,
           Switched(p, obj, m, a, s, d)
    PROVE  IInv'
<1> USE DEF Switched
<1> DEFINE f == obj[p].file
           o == [obj EXCEPT ![p].code = None]
           b == a \ {p}
           r == WithoutRoute(routes, p, obj)
<1>1. modules' = Removed(p, f, m) /\ SaveAndSync(o, b, r) /\ stuck' = Left(p, f, s)
  BY DEF deactivate
<1>2. f \in Files /\ f # NoFile
  BY NoneFacts DEF ObjectOK, Objects
<1>3. /\ o \in [Plugins -> Objects] /\ o[p] = [obj[p] EXCEPT !.code = None]
      /\ \A q \in Plugins \ {p} : o[q] = obj[q]
  BY NoneFacts
<1>4. r \in [Paths -> RouteTargets]
  BY DEF WithoutRoute, RouteTargets
<1>5. /\ modules' \in [Plugins -> [Files -> Package]]
      /\ \A q \in Plugins \ {p} : modules'[q] = m[q]
      /\ \A g \in Files : modules'[p][g] = IF g = f /\ f \notin Lasting THEN None ELSE m[p][g]
  BY <1>1, <1>2, NoneFacts DEF Removed
<1>6. /\ stuck' \subseteq Plugins \X Files
      /\ f \in Lasting => stuck' = s \union {<<p, f>>}
      /\ f \notin Lasting => stuck' = s \ {<<p, f>>}
  BY <1>1, <1>2 DEF Left
<1>7. ObjectInv'
  <2> SUFFICES ASSUME NEW q \in Plugins PROVE ObjectOK(q, plugins', modules', disk')
    BY DEF ObjectInv, ObjectOK
  <2>1. ObjectOK(q, obj, m, d)
    OBVIOUS
  <2>2. CASE q # p
    BY <2>1, <2>2, <1>5 DEF ObjectOK
  <2>3. CASE q = p
    <3>1. \A g \in Files : modules'[p][g] # None => modules'[p][g].file = g
      BY <2>1, <2>3, <1>5 DEF ObjectOK
    <3>2. CASE plugins'[p] = Gone
      BY <2>3, <3>1, <3>2, NoneFacts DEF ObjectOK
    <3>3. CASE plugins'[p] = [obj[p] EXCEPT !.code = None] /\ disk'[p] = d[p]
      <4>1. plugins'[p].file = f /\ plugins'[p].code = None
        BY <3>3, NoneFacts 
      <4> QED
        BY <2>1, <2>3, <3>1, <3>3, <4>1, <1>2 DEF ObjectOK
    <3> QED
      BY <3>2, <3>3
  <2> QED
    BY <2>2, <2>3
<1>8. LoadedFresh'
  <2> SUFFICES ASSUME NEW q \in Plugins, NEW g \in Files, modules'[q][g] # None, <<q, g>> \notin stuck'
               PROVE  modules'[q][g] = disk'[q] /\ q \in b
    BY <1>1 DEF LoadedFresh, FreshOK, SaveAndSync
  <2>1. CASE q # p
    <3>1. <<q, g>> \notin s
      BY <2>1, <1>6
    <3> QED
      BY <2>1, <3>1, <1>5 DEF FreshOK
  <2>2. CASE q = p
    <3>1. m[p][g] # None
      BY <2>2, <1>5
    <3>2. g = f
      <4>1. CASE <<p, g>> \notin s
        BY <4>1, <3>1
      <4>2. CASE <<p, g>> \in s
        BY <4>2, <2>2, <1>6
      <4> QED
        BY <4>1, <4>2
    <3> QED
      BY <2>2, <3>2, <1>5, <1>6
  <2> QED
    BY <2>1, <2>2
<1>9. ASSUME ~overlaid', ~lost', NEW path \in Paths, r[path] # <<>>
      PROVE  r[path] \in Claims(path, Synced(o, b))
  <2>1. /\ r[path] = routes[path]
        /\ ~(p \in Others /\ obj[p].code # None /\ Path[p] = path)
    BY <1>9 DEF WithoutRoute
  <2>2. PICK q \in Others : routes[path] = <<q, hooks[q]>> /\ Path[q] = path /\ hooks[q] # None
    BY <1>9, <2>1 DEF Served, Claims
  <2>3. q # p /\ q \in Plugins
    BY <1>9, <2>1, <2>2 DEF Others
  <2>4. q \in b /\ o[q].code = hooks[q]
    BY <1>9, <2>2, <2>3, <1>3
  <2>5. Synced(o, b)[q] = hooks[q]
    BY <2>3, <2>4 DEF Synced
  <2> QED
    BY <2>1, <2>2, <2>5 DEF Claims
<1>10. \A q \in b : plugins'[q] = o[q]
  BY <1>3
<1> HIDE DEF o, b, r, f
<1>11. b \in SUBSET Plugins
  BY DEF b
<1>12. SyncedWith(o, b, r)
  BY <1>1, <1>11 DEF SaveAndSync, SyncedWith
<1> QED
  BY <1>3, <1>4, <1>5, <1>6, <1>7, <1>8, <1>9, <1>10, <1>11, <1>12, SyncStep

\* A step that leaves the caches, the list and the code of active plugins alone.
LEMMA StillStep ==
    ASSUME IInv, booted, booted',
           plugins' \in [Plugins -> Objects], modules' \in [Plugins -> [Files -> Package]],
           disk' \in [Plugins -> Package], stuck' \subseteq Plugins \X Files,
           overlaid' \in BOOLEAN, overlaid => overlaid', lost' = lost, installs' \in Nat, crashes' \in Nat,
           UNCHANGED <<active, db, caches, halfway>>,
           \A q \in active : plugins'[q].code = plugins[q].code,
           ObjectInv', LoadedFresh'
    PROVE  IInv'
<1>1. hooks' = hooks /\ routes' = routes
  BY DEF caches
<1>2. TypeOK' /\ Down' /\ SavedActive'
  BY <1>1 DEF IInv, TypeOK, Down, SavedActive
<1>3. HooksOfActive'
  BY <1>1 DEF IInv, HooksOfActive, TypeOK
<1>4. RoutesMatch'
  BY <1>1, RoutesMatchServed DEF IInv
<1> QED
  BY <1>2, <1>3, <1>4 DEF IInv

\* What is imported.
LEMMA ImportedFacts ==
    ASSUME NEW p \in Plugins, NEW f \in Files, modules \in [Plugins -> [Files -> Package]],
           disk' \in [Plugins -> Package],
           \A g \in Files : modules[p][g] # None => modules[p][g].file = g
    PROVE  /\ Imported(p, f) \in Package
           /\ Imported(p, f) # None => Imported(p, f).file = f
           /\ modules[p][f] # None => Imported(p, f) = modules[p][f]
           /\ modules[p][f] = None => Imported(p, f) \in {None, disk'[p]}
           /\ modules[p][f] = None /\ f = disk'[p].file => Imported(p, f) = disk'[p]
<1>1. f # NoFile
  BY NoneFacts
<1>2. Imported(p, f) = IF modules[p][f] # None THEN modules[p][f]
                       ELSE IF f = disk'[p].file THEN disk'[p] ELSE None
  BY <1>1 DEF Imported
<1>3. None \in Package /\ modules[p][f] \in Package /\ disk'[p] \in Package
  BY NoneFacts
<1> QED
  BY <1>2, <1>3

\* What is ready when toggle_plugin(p) gets the objects obj and the stuck modules s.
Prepared(p, obj, s) ==
    /\ \A q \in Plugins \ {p} : disk'[q] = disk[q] /\ obj[q] = plugins[q]
    /\ ObjectOK(p, obj, modules, disk')
    /\ \A f \in Files : modules[p][f] # None /\ <<p, f>> \notin s => f = obj[p].file
    /\ p \in active /\ (obj[p] = Gone \/ obj[p].code # None) =>
           obj[p] = plugins[p] /\ FreshOK(p, modules, active, s, disk')
    /\ p \in active /\ ~overlaid' => obj[p] = plugins[p]

\* toggle_plugin keeps the invariant, whichever way it ends.
LEMMA ToggleStep ==
    ASSUME IInv, booted, booted', NEW p \in Plugins, NEW obj \in [Plugins -> Objects],
           NEW s \in SUBSET (Plugins \X Files), stuck \subseteq s,
           disk' \in [Plugins -> Package], installs' \in Nat, crashes' \in Nat,
           overlaid' \in BOOLEAN, overlaid => overlaid', lost' = lost,
           Prepared(p, obj, s),
           toggle_plugin(p, obj, s)
    PROVE  IInv'
<1> USE DEF Prepared
<1>1. /\ modules \in [Plugins -> [Files -> Package]] /\ active \subseteq Plugins /\ routes \in [Paths -> RouteTargets]
      /\ hooks \in [Plugins -> Package] /\ lost \in BOOLEAN /\ plugins \in [Plugins -> Objects]
      /\ disk \in [Plugins -> Package]
  BY DEF IInv, TypeOK
<1>2. ASSUME NEW q \in Plugins PROVE ObjectOK(q, obj, modules, disk')
  BY <1>2 DEF IInv, ObjectInv, ObjectOK
<1>3. ASSUME NEW q \in Plugins \ {p} PROVE FreshOK(q, modules, active, s, disk')
  BY <1>3 DEF IInv, LoadedFresh, FreshOK
<1>4. p \notin active => FreshOK(p, modules, active, s, disk')
  BY DEF IInv, LoadedFresh, FreshOK
<1>5. hooks[p] # None /\ ~lost => p \in active /\ hooks[p] = plugins[p].code
  BY <1>1 DEF IInv, HooksOfActive
<1>6. \A q \in Plugins \ {p} : hooks[q] # None /\ ~lost => q \in active /\ hooks[q] = plugins[q].code
  BY <1>1 DEF IInv, HooksOfActive
<1>7. ~overlaid' /\ ~lost => Served(routes, hooks)
  BY RoutesMatchServed DEF IInv
<1>8. ASSUME plugins' = obj, stuck' = s, UNCHANGED <<modules, active, db, caches, halfway>>,
             p \in active => obj[p] = Gone \/ obj[p].code # None
      PROVE  IInv'
  <2>1. FreshOK(p, modules, active, s, disk') /\ (p \in active => obj[p] = plugins[p])
    BY <1>4, <1>8
  <2>2. ObjectInv'
    BY <1>2, <1>8 DEF ObjectInv, ObjectOK
  <2>3. LoadedFresh'
    BY <1>3, <1>8, <2>1 DEF LoadedFresh, FreshOK
  <2>4. \A q \in active : plugins'[q].code = plugins[q].code
    BY <1>1, <1>8, <2>1
  <2> QED
    BY <1>1, <1>8, <2>2, <2>3, <2>4, StillStep
<1>9. CASE /\ obj[p] = Gone \/ (p \in active /\ MayCling(obj[p]))
           /\ plugins' = obj /\ stuck' = s
           /\ UNCHANGED <<modules, active, db, caches, halfway>>
  <2>1. MayCling(obj[p]) => obj[p].code # None
    BY DEF MayCling, None
  <2> QED
    BY <1>8, <1>9, <2>1
<1>10. CASE /\ obj[p] # Gone /\ p \in active
            /\ plugins' = [obj EXCEPT ![p].code = None]
            /\ deactivate(p, obj, modules, active, s)
  <2>1. /\ plugins' \in [Plugins -> Objects] /\ plugins'[p] = [obj[p] EXCEPT !.code = None]
        /\ \A q \in Plugins \ {p} : plugins'[q] = obj[q]
    BY <1>10, NoneFacts
  <2>2. ~overlaid' /\ ~lost' =>
               /\ Served(routes, hooks)
               /\ hooks[p] # None => obj[p].code # None
               /\ \A q \in Plugins \ {p} : hooks[q] # None => q \in active /\ obj[q].code = hooks[q]
    BY <1>5, <1>6, <1>7, <1>10
  <2> PICK d \in [Plugins -> Package] : d = disk'
    OBVIOUS
  <2> PICK n \in [Plugins -> [Files -> Package]] : n = modules
    BY <1>1
  <2> PICK a \in SUBSET Plugins : a = active
    BY <1>1
  <2>3. \A q \in Plugins : ObjectOK(q, obj, n, d)
    BY <1>2
  <2>4. \A q \in Plugins \ {p} :
          FreshOK(q, n, a, s, d) /\ disk'[q] = d[q] /\ plugins'[q] = obj[q]
    BY <1>3, <2>1
  <2>5. Switched(p, obj, n, a, s, d)
    BY <1>10, <2>1, <2>2, <2>3, <2>4 DEF Switched
  <2> QED
    BY <1>1, <2>1, <2>5, DeactivateStep
<1> DEFINE f == obj[p].file
           code == Imported(p, f)
           o == [obj EXCEPT ![p].code = code]
           m == [modules EXCEPT ![p][f] = code]
<1>11. ASSUME obj[p] # Gone, p \notin active
       PROVE  /\ f \in Files /\ o \in [Plugins -> Objects] /\ m \in [Plugins -> [Files -> Package]]
              /\ code \in Package
              /\ code # None => code.file = f
              /\ o[p].file = f /\ o[p].code = code
              /\ \A q \in Plugins \ {p} : o[q] = obj[q] /\ m[q] = modules[q]
              /\ m[p][f] = code /\ \A g \in Files \ {f} : m[p][g] = modules[p][g]
              /\ <<p, f>> \notin s => code \in {None, disk'[p]}
  <2>1. f \in Files
    BY <1>11, NoneFacts DEF ObjectOK, Objects
  <2>2. <<p, f>> \notin s => modules[p][f] = None
    BY <1>4, <1>11, <2>1 DEF FreshOK
  <2>3. /\ code \in Package
        /\ code # None => code.file = f
        /\ <<p, f>> \notin s => code \in {None, disk'[p]}
    BY <1>1, <2>1, <2>2, ImportedFacts DEF ObjectOK
  <2> HIDE DEF code
  <2> PICK c \in Package : c = code
    BY <2>3
  <2>6. /\ [obj[p] EXCEPT !.code = c] \in Objects
        /\ [obj[p] EXCEPT !.code = c].file = f /\ [obj[p] EXCEPT !.code = c].code = c
    BY NoneFacts
  <2>7. o = [obj EXCEPT ![p] = [obj[p] EXCEPT !.code = c]]
    OBVIOUS
  <2>4. /\ o \in [Plugins -> Objects] /\ o[p].file = f /\ o[p].code = code
        /\ \A q \in Plugins \ {p} : o[q] = obj[q]
    BY <2>6, <2>7
  <2>8. m = [modules EXCEPT ![p] = [modules[p] EXCEPT ![f] = c]]
    OBVIOUS
  <2> HIDE DEF o, m
  <2>5. /\ m \in [Plugins -> [Files -> Package]] /\ \A q \in Plugins \ {p} : m[q] = modules[q]
        /\ m[p][f] = code /\ \A g \in Files \ {f} : m[p][g] = modules[p][g]
    BY <1>1, <2>1, <2>8
  <2> QED
    BY <2>1, <2>3, <2>4, <2>5
<1>12. ASSUME obj[p] # Gone, p \notin active, plugins' = o, modules' = m PROVE ObjectInv'
  <2> HIDE DEF o, m, code
  <2>1. f \in Files /\ disk'[p] # None /\ disk'[p].file \in {f, NoFile} /\ f # NoFile
    BY <1>11, <1>12, NoneFacts DEF ObjectOK
  <2>2. ObjectOK(p, o, m, disk')
    <3>1. \A g \in Files : m[p][g] # None => m[p][g].file = g
      BY <1>11, <1>12 DEF ObjectOK
    <3> QED
      BY <1>11, <1>12, <2>1, <3>1 DEF ObjectOK
  <2>3. ASSUME NEW q \in Plugins \ {p} PROVE ObjectOK(q, o, m, disk')
    <3>1. ObjectOK(q, obj, modules, disk')
      BY <1>2
    <3> QED
      BY <1>11, <1>12, <3>1 DEF ObjectOK
  <2> QED
    BY <1>12, <2>2, <2>3 DEF ObjectInv, ObjectOK
<1>13. ASSUME NEW a \in SUBSET Plugins, NEW t \in SUBSET (Plugins \X Files),
              obj[p] # Gone, p \notin active, modules' = m, active' = a, stuck' = t,
              s \subseteq t, active \subseteq a, p \in a \/ <<p, f>> \in t
       PROVE  LoadedFresh'
  <2> HIDE DEF o, m, code
  <2> SUFFICES ASSUME NEW q \in Plugins, NEW g \in Files, m[q][g] # None, <<q, g>> \notin t
               PROVE  m[q][g] = disk'[q] /\ q \in a
    BY <1>13 DEF LoadedFresh, FreshOK
  <2>1. CASE q # p
    <3>1. m[q][g] = modules[q][g] /\ <<q, g>> \notin s
      BY <1>11, <1>13, <2>1
    <3> QED
      BY <1>3, <1>13, <2>1, <3>1 DEF FreshOK
  <2>2. CASE q = p /\ g # f
    <3>1. m[p][g] = modules[p][g] /\ <<p, g>> \notin s
      BY <1>11, <1>13, <2>2
    <3> QED
      BY <1>4, <1>13, <2>2, <3>1 DEF FreshOK
  <2>3. CASE q = p /\ g = f
    BY <1>11, <1>13, <2>3
  <2> QED
    BY <2>1, <2>2, <2>3
<1>14. CASE /\ obj[p] # Gone /\ p \notin active
            /\ plugins' = obj /\ stuck' = s /\ UNCHANGED <<modules, active, db, caches, halfway>>
  BY <1>8, <1>14
<1>15. CASE /\ obj[p] # Gone /\ p \notin active
            /\ plugins' = o /\ modules' = m /\ stuck' = s \union {<<p, f>>}
            /\ UNCHANGED <<active, db, caches, halfway>>
  <2> HIDE DEF o, m, code
  <2> DEFINE t == s \union {<<p, f>>}
  <2>1. t \in SUBSET (Plugins \X Files)
    BY <1>11, <1>15
  <2>2. active' = active /\ stuck' = t /\ s \subseteq t /\ <<p, f>> \in t
    BY <1>15
  <2> HIDE DEF t
  <2>3. LoadedFresh'
    BY <1>1, <1>13, <1>15, <2>1, <2>2
  <2>4. \A q \in active : plugins'[q].code = plugins[q].code
    BY <1>1, <1>11, <1>15
  <2> QED
    BY <1>1, <1>11, <1>12, <1>15, <2>1, <2>2, <2>3, <2>4, StillStep
<1>16. CASE /\ obj[p] # Gone /\ p \notin active
            /\ plugins' = o /\ modules' = m /\ stuck' = s
            /\ SaveAndSync(plugins', active \union {p}, routes)
  <2> HIDE DEF o, m, code
  <2> DEFINE a == active \union {p}
  <2>1. a \in SUBSET Plugins /\ active' = a /\ active \subseteq a /\ p \in a
    BY <1>1, <1>16 DEF SaveAndSync
  <2>2. SyncedWith(o, a, routes)
    BY <1>16, <2>1 DEF SaveAndSync, SyncedWith
  <2> HIDE DEF a
  <2>3. LoadedFresh'
    BY <1>13, <1>16, <2>1
  <2>4. ASSUME ~overlaid', ~lost', NEW path \in Paths, routes[path] # <<>>
        PROVE  routes[path] \in Claims(path, Synced(o, a))
    <3>1. PICK q \in Others : routes[path] = <<q, hooks[q]>> /\ Path[q] = path /\ hooks[q] # None
      BY <1>7, <2>4 DEF Served, Claims
    <3>2. q # p /\ q \in active /\ q \in Plugins /\ hooks[q] = plugins[q].code
      BY <1>5, <1>6, <1>16, <2>4, <3>1 DEF Others
    <3>3. Synced(o, a)[q] = hooks[q]
      BY <1>11, <1>16, <2>1, <3>2 DEF Synced
    <3> QED
      BY <3>1, <3>3 DEF Claims
  <2>5. /\ plugins' \in [Plugins -> Objects] /\ o \in [Plugins -> Objects]
        /\ modules' \in [Plugins -> [Files -> Package]] /\ stuck' \subseteq Plugins \X Files
        /\ lost' \in BOOLEAN
    BY <1>1, <1>11, <1>16
  <2>6. \A q \in a : plugins'[q] = o[q]
    BY <1>16
  <2> QED
    BY <1>1, <1>12, <1>16, <2>1, <2>2, <2>3, <2>4, <2>5, <2>6, SyncStep
<1> HIDE DEF o, m
<1> QED
  BY <1>9, <1>10, <1>14, <1>15, <1>16 DEF toggle_plugin, o, m

-----------------------------------------------------------------------------
(* The requests *)

\* A module of p that is not stuck is the file of p's folder.
LEMMA ModulesOnDisk ==
    ASSUME IInv, NEW p \in Plugins, NEW f \in Files, modules[p][f] # None, <<p, f>> \notin stuck
    PROVE  modules[p][f] = disk[p] /\ disk[p].file = f /\ p \in active
  BY DEF IInv, ObjectInv, ObjectOK, LoadedFresh, FreshOK

\* install_plugin, whether or not p was active.
LEMMA InstallStep ==
    ASSUME IInv, NEW p \in Others, NEW new \in Packages, install_plugin(p, new)
    PROVE  IInv'
<1> DEFINE package == [version |-> installs + 1, kind |-> new.kind, file |-> new.file]
           known_object == IF new.file = NoFile THEN plugins ELSE [plugins EXCEPT ![p] = Object(disk'[p])]
           kept == IF disk[p].file \in Files \ {new.file} THEN stuck \union {<<p, disk[p].file>>} ELSE stuck
<1>1. /\ booted /\ booted' = booted /\ crashes' = crashes /\ lost' = lost
      /\ installs' = installs + 1
      /\ disk' = [disk EXCEPT ![p] = package]
      /\ overlaid' = (overlaid \/ p \in active)
      /\ toggle_plugin(p, known_object, kept)
  BY DEF install_plugin, Extract
<1>2. /\ p \in Plugins /\ new.kind \in {"ok", "flaky", "raises", "moody"} /\ new.file \in Files \union {NoFile}
      /\ disk \in [Plugins -> Package] /\ installs \in Nat /\ crashes \in Nat /\ overlaid \in BOOLEAN
      /\ plugins \in [Plugins -> Objects] /\ stuck \subseteq Plugins \X Files
      /\ modules \in [Plugins -> [Files -> Package]]
  BY MadHatterAssumption DEF Others, IInv, TypeOK
<1>3. package \in Package /\ package # None /\ package.file = new.file
  BY <1>2 DEF Package, None
<1> HIDE DEF package
<1>4. disk' \in [Plugins -> Package] /\ disk'[p] = package /\ \A q \in Plugins \ {p} : disk'[q] = disk[q]
  BY <1>1, <1>2, <1>3
<1>5. Object(package) \in Objects /\ Object(package).file = new.file /\ Object(package).code = None
  BY <1>3, NoneFacts
<1>6. /\ known_object \in [Plugins -> Objects]
      /\ \A q \in Plugins \ {p} : known_object[q] = plugins[q]
      /\ new.file = NoFile => known_object[p] = plugins[p]
      /\ new.file # NoFile => known_object[p] = Object(package)
  BY <1>2, <1>4, <1>5
<1>7. kept \in SUBSET (Plugins \X Files) /\ stuck \subseteq kept
  BY <1>2
<1>8. ASSUME NEW f \in Files, modules[p][f] # None, <<p, f>> \notin kept
      PROVE  f = new.file
  BY <1>2, <1>7, <1>8, ModulesOnDisk
<1> HIDE DEF known_object, kept
<1> PICK o \in [Plugins -> Objects] : o = known_object
  BY <1>6
<1> PICK s \in SUBSET (Plugins \X Files) : s = kept
  BY <1>7
<1>9. ObjectOK(p, o, modules, disk')
  <2>1. ObjectOK(p, plugins, modules, disk)
    BY <1>2 DEF IInv, ObjectInv
  <2>2. CASE new.file = NoFile
    BY <1>3, <1>4, <1>6, <2>1, <2>2 DEF ObjectOK
  <2>3. CASE new.file # NoFile
    BY <1>3, <1>4, <1>5, <1>6, <2>1, <2>3, NoneFacts DEF ObjectOK
  <2> QED
    BY <2>2, <2>3
<1>10. \A f \in Files : modules[p][f] # None /\ <<p, f>> \notin s => f = o[p].file
  BY <1>5, <1>6, <1>8, NoneFacts
<1>11. p \in active /\ (o[p] = Gone \/ o[p].code # None) =>
           o[p] = plugins[p] /\ FreshOK(p, modules, active, s, disk')
  <2>1. CASE new.file = NoFile
    BY <1>6, <1>8, <2>1, NoneFacts DEF FreshOK
  <2>2. CASE new.file # NoFile
    BY <1>5, <1>6, <2>2, NoneFacts
  <2> QED
    BY <2>1, <2>2
<1>12. Prepared(p, o, s)
  BY <1>1, <1>4, <1>6, <1>9, <1>10, <1>11 DEF Prepared
<1>13. toggle_plugin(p, o, s) /\ stuck \subseteq s
  BY <1>1, <1>7
<1>14. /\ overlaid' \in BOOLEAN /\ installs' \in Nat /\ crashes' \in Nat
       /\ overlaid => overlaid'
  BY <1>1, <1>2
<1> QED
  BY <1>1, <1>2, <1>4, <1>12, <1>13, <1>14, ToggleStep

\* A toggle from the admin routes.
LEMMA TogglePluginStep ==
    ASSUME IInv, NEW p \in Plugins, Toggle(p)
    PROVE  IInv'
<1>1. /\ booted /\ toggle_plugin(p, plugins, stuck) /\ UNCHANGED <<disk, booted, installs, crashes, overlaid, lost>>
      /\ plugins[p] # Gone
  BY DEF Toggle, known
<1>2. /\ disk \in [Plugins -> Package] /\ installs \in Nat /\ crashes \in Nat /\ overlaid \in BOOLEAN
      /\ plugins \in [Plugins -> Objects] /\ stuck \in SUBSET (Plugins \X Files)
  BY DEF IInv, TypeOK
<1> PICK o \in [Plugins -> Objects] : o = plugins
  BY <1>2
<1> PICK s \in SUBSET (Plugins \X Files) : s = stuck
  BY <1>2
<1>3. ObjectOK(p, o, modules, disk') /\ FreshOK(p, modules, active, s, disk')
  BY <1>1 DEF IInv, ObjectInv, ObjectOK, LoadedFresh, FreshOK
<1>4. \A f \in Files : modules[p][f] # None /\ <<p, f>> \notin s => f = o[p].file
  BY <1>1, ModulesOnDisk, NoneFacts DEF IInv, ObjectInv, ObjectOK
<1>5. Prepared(p, o, s)
  BY <1>1, <1>3, <1>4 DEF Prepared
<1>6. toggle_plugin(p, o, s) /\ stuck \subseteq s
  BY <1>1
<1> QED
  BY <1>1, <1>2, <1>5, <1>6, ToggleStep

\* uninstall_plugin, which deactivates only an active plugin.
LEMMA UninstallStep ==
    ASSUME IInv, NEW p \in Plugins, uninstall_plugin(p)
    PROVE  IInv'
<1>1. /\ booted /\ UNCHANGED <<booted, installs, crashes, overlaid, lost>>
      /\ disk' = [disk EXCEPT ![p] = None] /\ plugins' = [plugins EXCEPT ![p] = Gone]
      /\ plugins[p] # Gone
      /\ IF p \in active THEN deactivate(p, plugins, modules, active, stuck)
         ELSE UNCHANGED <<modules, active, db, caches, stuck, halfway>>
  BY DEF uninstall_plugin, known
<1>2. TypeOK
  BY DEF IInv
<1>3. /\ disk' \in [Plugins -> Package] /\ plugins' \in [Plugins -> Objects]
      /\ disk'[p] = None /\ plugins'[p] = Gone
      /\ \A q \in Plugins \ {p} : disk'[q] = disk[q] /\ plugins'[q] = plugins[q]
  BY <1>1, <1>2, NoneFacts DEF TypeOK
<1>4. CASE p \in active
  <2> PICK o \in [Plugins -> Objects] : o = plugins
    BY <1>2 DEF TypeOK
  <2> PICK m \in [Plugins -> [Files -> Package]] : m = modules
    BY <1>2 DEF TypeOK
  <2> PICK a \in SUBSET Plugins : a = active
    BY <1>2 DEF TypeOK
  <2> PICK s \in SUBSET (Plugins \X Files) : s = stuck
    BY <1>2 DEF TypeOK
  <2> PICK d \in [Plugins -> Package] : d = disk
    BY <1>2 DEF TypeOK
  <2>1. \A f \in Files : m[p][f] # None /\ <<p, f>> \notin s => f = o[p].file
    BY <1>1, ModulesOnDisk, NoneFacts DEF IInv, ObjectInv, ObjectOK
  <2>2. \A q \in Plugins : ObjectOK(q, o, m, d)
    BY DEF IInv, ObjectInv
  <2>3. \A q \in Plugins \ {p} : FreshOK(q, m, a, s, d)
    BY DEF IInv, LoadedFresh
  <2>4. ~overlaid' /\ ~lost' =>
            /\ Served(routes, hooks)
            /\ hooks[p] # None => o[p].code # None
            /\ \A q \in Plugins \ {p} : hooks[q] # None => q \in a /\ o[q].code = hooks[q]
    BY <1>1, <1>2, RoutesMatchServed DEF IInv, HooksOfActive
  <2>5. deactivate(p, o, m, a, s)
    BY <1>1, <1>4
  <2>6. Switched(p, o, m, a, s, d)
    BY <1>1, <1>3, <2>1, <2>2, <2>3, <2>4, <2>5 DEF Switched
  <2> QED
    BY <1>1, <1>2, <1>3, <2>6, DeactivateStep DEF TypeOK
<1>5. CASE p \notin active
  <2>1. UNCHANGED <<modules, active, db, caches, stuck, halfway>>
    BY <1>1, <1>5
  <2>2. ObjectInv'
    BY <1>3, <2>1, NoneFacts DEF IInv, ObjectInv, ObjectOK
  <2>3. LoadedFresh'
    BY <1>3, <1>5, <2>1 DEF IInv, LoadedFresh, FreshOK
  <2>4. \A q \in active : plugins'[q].code = plugins[q].code
    BY <1>2, <1>3, <1>5 DEF TypeOK
  <2> QED
    BY <1>1, <1>2, <1>3, <2>1, <2>2, <2>3, <2>4, StillStep DEF TypeOK
<1> QED
  BY <1>4, <1>5

-----------------------------------------------------------------------------
(* find_plugins, the start and the stop *)

\* The objects and modules that load_plugins leaves agree with each other, the folders and
\* the list; a plugin that was active and is loaded again keeps its code.
LEMMA LoadStep ==
    ASSUME IInv, disk' = disk, NEW E \in SUBSET OnDisk,
           NEW obj, obj = load_plugins(E), NEW m, m = WithModules(obj)
    PROVE  /\ obj \in [Plugins -> Objects] /\ m \in [Plugins -> [Files -> Package]]
           /\ load_active_plugins_from_db \in SUBSET Plugins /\ active \subseteq load_active_plugins_from_db
           /\ \A q \in Plugins : ObjectOK(q, obj, m, disk)
           /\ \A q \in Plugins : FreshOK(q, m, load_active_plugins_from_db, stuck, disk)
           /\ \A q \in E : obj[q].file = disk[q].file
           /\ \A q \in Plugins : \A f \in Files : m[q][f] = IF f = obj[q].file /\ obj[q].code # None
                                                       THEN obj[q].code ELSE modules[q][f]
           /\ \A q \in E \intersect load_active_plugins_from_db :
                 plugins[q].code # None /\ disk[q].file # NoFile => obj[q].code = plugins[q].code
<1> DEFINE L == load_active_plugins_from_db
<1>1. /\ disk \in [Plugins -> Package] /\ plugins \in [Plugins -> Objects]
      /\ modules \in [Plugins -> [Files -> Package]] /\ E \subseteq Plugins
      /\ disk' \in [Plugins -> Package]
  BY DEF IInv, TypeOK, OnDisk
<1>2. L \in SUBSET Plugins /\ active \subseteq L
  BY MadHatterAssumption DEF load_active_plugins_from_db, IInv, TypeOK, SavedActive, Down
<1>3. ASSUME NEW q \in Plugins \ E PROVE obj[q] = Gone
  BY <1>3 DEF load_plugins
<1>4. ASSUME NEW q \in E
      PROVE  /\ obj[q] \in Objects /\ obj[q].file = disk[q].file
             /\ q \notin L \/ disk[q].file = NoFile => obj[q].code = None
             /\ q \in L /\ disk[q].file # NoFile => obj[q].code = Imported(q, disk[q].file)
             /\ obj[q].file = NoFile => obj[q] = Gone
  <2> PICK c : c = IF q \in L THEN Imported(q, disk[q].file) ELSE None
    OBVIOUS
  <2>1. obj[q] = [Object(disk[q]) EXCEPT !.code = c]
    BY <1>1 DEF load_plugins
  <2>2. disk[q].file = NoFile => c = None
    BY DEF Imported
  <2>3. disk[q].file # NoFile => disk[q].file \in Files /\ q \in Plugins
    BY <1>1 DEF Package
  <2>4. c \in Package
    BY <1>1, <2>2, <2>3, ImportedFacts, NoneFacts DEF IInv, ObjectInv, ObjectOK
  <2>5. Object(disk[q]) \in Objects /\ Object(disk[q]).file = disk[q].file
    BY <1>1, NoneFacts
  <2>6. obj[q] \in Objects /\ obj[q].file = disk[q].file /\ obj[q].code = c
    BY <2>1, <2>4, <2>5, NoneFacts
  <2>7. obj[q].file = NoFile => obj[q] = Gone
    BY <2>2, <2>6, NoneFacts DEF Objects, Gone, Object
  <2> QED
    BY <2>2, <2>6, <2>7
<1>5. obj \in [Plugins -> Objects]
  BY <1>3, <1>4, NoneFacts DEF load_plugins
<1>6. ASSUME NEW q \in Plugins, NEW f \in Files
      PROVE  m[q][f] = IF f = obj[q].file /\ obj[q].code # None THEN obj[q].code ELSE modules[q][f]
  BY DEF WithModules
<1>7. m \in [Plugins -> [Files -> Package]]
  <2>1. \A q \in Plugins : obj[q].code \in Package
    BY <1>5 DEF Objects
  <2> QED
    BY <1>1, <2>1 DEF WithModules
<1>8. ASSUME NEW q \in E, q \in L, disk[q].file # NoFile
      PROVE  /\ disk[q].file \in Files
             /\ obj[q].code # None => obj[q].code.file = disk[q].file
             /\ modules[q][disk[q].file] # None => obj[q].code = modules[q][disk[q].file]
             /\ modules[q][disk[q].file] = None => obj[q].code = disk[q]
  <2>1. disk[q].file \in Files /\ q \in Plugins
    BY <1>1, <1>8 DEF Package
  <2> QED
    BY <1>1, <1>4, <1>8, <2>1, ImportedFacts DEF IInv, ObjectInv, ObjectOK
<1>9. ASSUME NEW q \in Plugins, obj[q].code # None
      PROVE  q \in E /\ q \in L /\ disk[q].file # NoFile /\ obj[q].file = disk[q].file
  BY <1>3, <1>4, <1>9, NoneFacts
<1>10. ASSUME NEW q \in Plugins PROVE ObjectOK(q, obj, m, disk)
  <2>1. obj[q].file = NoFile => obj[q] = Gone
    BY <1>3, <1>4
  <2>2. obj[q].code # None => /\ obj[q].code.file = obj[q].file
                              /\ m[q][obj[q].file] = obj[q].code
    BY <1>6, <1>8, <1>9
  <2>3. obj[q] # Gone => disk[q] # None /\ disk[q].file \in {obj[q].file, NoFile}
    BY <1>3, <1>4 DEF OnDisk
  <2>4. ASSUME NEW f \in Files, m[q][f] # None PROVE m[q][f].file = f
    <3>1. modules[q][f] # None => modules[q][f].file = f
      BY DEF IInv, ObjectInv, ObjectOK
    <3> QED
      BY <1>6, <2>2, <2>4, <3>1
  <2> QED
    BY <2>1, <2>2, <2>3, <2>4 DEF ObjectOK
<1>11. ASSUME NEW q \in Plugins PROVE FreshOK(q, m, L, stuck, disk)
  <2> SUFFICES ASSUME NEW f \in Files, m[q][f] # None, <<q, f>> \notin stuck
               PROVE  m[q][f] = disk[q] /\ q \in L
    BY DEF FreshOK
  <2>1. CASE modules[q][f] # None /\ m[q][f] = modules[q][f]
    BY <1>2, <2>1, ModulesOnDisk
  <2>2. CASE ~(modules[q][f] # None /\ m[q][f] = modules[q][f])
    <3>1. f = obj[q].file /\ obj[q].code # None /\ m[q][f] = obj[q].code
      BY <1>6, <2>2
    <3> QED
      BY <1>8, <1>9, <2>2, <3>1
  <2> QED
    BY <2>1, <2>2
<1>12. ASSUME NEW q \in E, q \in L, plugins[q].code # None, disk[q].file # NoFile
       PROVE  obj[q].code = plugins[q].code
  <2>1. q \in Plugins /\ plugins[q] # Gone
    BY <1>1, <1>12, NoneFacts
  <2>2. modules[q][disk[q].file] = plugins[q].code
    BY <1>12, <2>1 DEF IInv, ObjectInv, ObjectOK
  <2> QED
    BY <1>8, <1>12, <2>2
<1> QED
  BY <1>2, <1>4, <1>5, <1>6, <1>7, <1>10, <1>11, <1>12

\* find_plugins, at the start and later.
LEMMA FindStep ==
    ASSUME IInv, find_plugins
    PROVE  IInv'
<1>1. TypeOK
  BY DEF IInv
<1> PICK E \in SUBSET OnDisk : E = OnDisk
  OBVIOUS
<1> PICK obj : obj = load_plugins(E)
  OBVIOUS
<1> PICK m : m = WithModules(obj)
  OBVIOUS
<1> PICK a : a = load_active_plugins_from_db
  OBVIOUS
<1>2. /\ Unloadable = {} /\ booted' = TRUE /\ disk' = disk /\ active' = a /\ plugins' = obj
      /\ hooks' = Synced(plugins', active') /\ routes' \in Registered(routes, hooks') /\ halfway' = FALSE
      /\ modules' = WithModules(plugins')
      /\ UNCHANGED <<db, installs, crashes, overlaid, lost, stuck>>
  BY DEF find_plugins
<1>3. modules' = m /\ hooks' = Synced(obj, a)
  BY <1>2
<1>4. /\ obj \in [Plugins -> Objects] /\ m \in [Plugins -> [Files -> Package]]
      /\ a \in SUBSET Plugins /\ active \subseteq a
      /\ \A q \in Plugins : ObjectOK(q, obj, m, disk)
      /\ \A q \in Plugins : FreshOK(q, m, a, stuck, disk)
      /\ \A q \in E \intersect a : plugins[q].code # None /\ disk[q].file # NoFile => obj[q].code = plugins[q].code
  BY <1>2, LoadStep
<1>5. SyncedWith(obj, a, routes)
  BY <1>1, <1>2, <1>3 DEF SyncedWith, load_active_plugins_from_db, TypeOK
<1>6. ObjectInv' /\ LoadedFresh'
  BY <1>2, <1>3, <1>4 DEF ObjectInv, ObjectOK, LoadedFresh, FreshOK
<1>7. ASSUME ~overlaid', ~lost', NEW path \in Paths, routes[path] # <<>>
      PROVE  routes[path] \in Claims(path, Synced(obj, a))
  <2>1. booted
    BY <1>7 DEF IInv, Down
  <2>2. ~halfway /\ Served(routes, hooks)
    BY <1>2, <1>7, <2>1, RoutesMatchServed DEF IInv
  <2>3. PICK q \in Others : routes[path] = <<q, hooks[q]>> /\ Path[q] = path /\ hooks[q] # None
    BY <1>7, <2>2 DEF Served, Claims
  <2>4. q \in Plugins /\ q \in active /\ hooks[q] = plugins[q].code
    BY <2>1, <2>2, <2>3 DEF Others, IInv, HooksOfActive
  <2>5. disk[q] # None
    BY <2>3, <2>4, NoneFacts DEF IInv, ObjectInv, ObjectOK
  <2>6. q \in E /\ disk[q].file # NoFile
    BY <1>2, <1>4, <2>4, <2>5 DEF OnDisk, Unloadable
  <2>7. obj[q].code = hooks[q]
    BY <1>4, <2>3, <2>4, <2>6
  <2>8. Synced(obj, a)[q] = hooks[q]
    BY <1>4, <2>4, <2>7 DEF Synced
  <2> QED
    BY <2>3, <2>8 DEF Claims
<1>8. \A q \in a : plugins'[q] = obj[q]
  BY <1>2
<1>9. /\ booted' /\ plugins' \in [Plugins -> Objects] /\ modules' \in [Plugins -> [Files -> Package]]
      /\ disk' \in [Plugins -> Package] /\ stuck' \subseteq Plugins \X Files /\ overlaid' \in BOOLEAN
      /\ lost' \in BOOLEAN /\ installs' \in Nat /\ crashes' \in Nat /\ routes \in [Paths -> RouteTargets]
  BY <1>1, <1>2, <1>3, <1>4 DEF TypeOK
<1> QED
  BY <1>4, <1>5, <1>6, <1>7, <1>8, <1>9, SyncStep

\* A rediscovery that fails at p: p is deactivated, or nothing is saved or synced.
LEMMA FindFailsStep ==
    ASSUME IInv, find_plugins_fails
    PROVE  IInv'
<1>1. TypeOK
  BY DEF IInv
<1>2. booted /\ disk' = disk /\ lost' = TRUE /\ UNCHANGED <<booted, installs, crashes, overlaid>>
  BY DEF find_plugins_fails
<1> DEFINE L == load_active_plugins_from_db
<1>3. PICK p \in Others \intersect L \intersect OnDisk, E \in SUBSET OnDisk :
         /\ Core \in E /\ p \notin E
         /\ LET before == [load_plugins(E) EXCEPT ![p] = Object(disk[p])]
                after == load_plugins(E \union {p})
            IN  \/ /\ plugins' = after
                   /\ modules' = WithModules(plugins')
                   /\ active' = L
                   /\ halfway' = TRUE
                   /\ UNCHANGED <<db, caches, stuck>>
                \/ /\ p \notin Unloadable
                   /\ plugins' = before
                   /\ deactivate(p, before, WithModules(before), L, stuck)
                \/ /\ "after" \in activate(p, after[p].code)
                   /\ plugins' = [after EXCEPT ![p].code = None]
                   /\ deactivate(p, after, WithModules(after), L, stuck)
  BY DEF find_plugins_fails
<1> PICK F \in SUBSET OnDisk : F = E \union {p}
  OBVIOUS
<1> PICK loaded : loaded = load_plugins(E)
  OBVIOUS
<1> PICK n : n = WithModules(loaded)
  OBVIOUS
<1> PICK after : after = load_plugins(F)
  OBVIOUS
<1> PICK m : m = WithModules(after)
  OBVIOUS
<1> PICK a : a = L
  OBVIOUS
<1> PICK s : s = stuck
  OBVIOUS
<1> PICK d : d = disk
  OBVIOUS
<1>4. /\ loaded \in [Plugins -> Objects] /\ n \in [Plugins -> [Files -> Package]]
      /\ a \in SUBSET Plugins
      /\ \A q \in Plugins : ObjectOK(q, loaded, n, d)
      /\ \A q \in Plugins : FreshOK(q, n, a, s, d)
  BY <1>2, LoadStep
<1>5. /\ after \in [Plugins -> Objects] /\ m \in [Plugins -> [Files -> Package]]
      /\ \A q \in Plugins : ObjectOK(q, after, m, d)
      /\ \A q \in Plugins : FreshOK(q, m, a, s, d)
  BY <1>2, LoadStep
<1>10. \A q \in F : after[q].file = d[q].file
  BY <1>2, LoadStep
<1>11. \A q \in Plugins : \A f \in Files : m[q][f] = IF f = after[q].file /\ after[q].code # None
                                               THEN after[q].code ELSE modules[q][f]
  BY <1>2, LoadStep
<1>6. /\ p \in Plugins /\ p \in a /\ d[p] # None /\ d \in [Plugins -> Package]
      /\ s \in SUBSET (Plugins \X Files) /\ booted' /\ disk' \in [Plugins -> Package] /\ overlaid' \in BOOLEAN
      /\ lost' \in BOOLEAN /\ installs' \in Nat /\ crashes' \in Nat
      /\ routes \in [Paths -> RouteTargets] /\ modules \in [Plugins -> [Files -> Package]]
  BY <1>1, <1>2 DEF OnDisk, TypeOK, Others
<1>7. p \notin Unloadable => d[p].file # NoFile
  BY <1>6 DEF Unloadable
<1>8. CASE /\ plugins' = after /\ modules' = WithModules(plugins') /\ active' = L
           /\ halfway' = TRUE /\ UNCHANGED <<db, caches, stuck>>
  <2>1. modules' = m /\ active' = a /\ hooks' = hooks /\ routes' = routes /\ stuck' = s
    BY <1>8 DEF caches
  <2>2. TypeOK'
    BY <1>1, <1>2, <1>4, <1>5, <1>6, <1>8, <2>1 DEF TypeOK
  <2>3. Down' /\ SavedActive' /\ HooksOfActive'
    BY <1>2, <1>8 DEF Down, SavedActive, HooksOfActive, load_active_plugins_from_db
  <2>6. disk' = d
    BY <1>2
  <2>4. ObjectInv' /\ LoadedFresh'
    <3>3. plugins' = after /\ modules' = m /\ disk' = d
      BY <1>8, <2>1, <2>6
    <3>1. ObjectInv'
      BY <1>5, <3>3 DEF ObjectInv, ObjectOK
    <3>2. LoadedFresh'
      BY <1>5, <2>1, <2>6 DEF LoadedFresh, FreshOK
    <3> QED
      BY <3>1, <3>2
  <2>5. RoutesMatch' /\ (halfway' => lost')
    BY <1>2 DEF RoutesMatch
  <2> QED
    BY <2>2, <2>3, <2>4, <2>5 DEF IInv
<1>9. ASSUME NEW obj \in [Plugins -> Objects], NEW k \in [Plugins -> [Files -> Package]],
             deactivate(p, obj, k, a, s), obj[p].file \in Files,
             \A q \in Plugins : ObjectOK(q, obj, k, d),
             \A q \in Plugins \ {p} : FreshOK(q, k, a, s, d),
             plugins' = [obj EXCEPT ![p].code = None],
             obj[p].file = d[p].file,
             \A f \in Files : f # d[p].file => k[p][f] = modules[p][f]
      PROVE  IInv'
  <2>1. obj[p] # Gone
    BY <1>9, NoneFacts
  <2>2. \A f \in Files : k[p][f] # None /\ <<p, f>> \notin s => f = obj[p].file
    BY <1>6, <1>9, ModulesOnDisk
  <2>3. /\ plugins' \in [Plugins -> Objects] /\ plugins'[p] = [obj[p] EXCEPT !.code = None]
        /\ \A q \in Plugins \ {p} : plugins'[q] = obj[q]
    BY <1>6, <1>9, NoneFacts
  <2>4. Switched(p, obj, k, a, s, d)
    BY <1>2, <1>9, <2>1, <2>2, <2>3 DEF Switched
  <2> QED
    BY <1>4, <1>6, <2>3, <2>4, DeactivateStep
<1> DEFINE before == [loaded EXCEPT ![p] = Object(d[p])]
<1>12. CASE /\ p \notin Unloadable /\ plugins' = before /\ deactivate(p, before, WithModules(before), L, s)
  <2>1. /\ Object(d[p]) \in Objects /\ Object(d[p]).file = d[p].file /\ Object(d[p]).code = None
        /\ d[p].file \in Files
    BY <1>6, <1>7, <1>12, NoneFacts DEF Package
  <2>2. /\ before \in [Plugins -> Objects] /\ before[p] = Object(d[p])
        /\ \A q \in Plugins \ {p} : before[q] = loaded[q]
    BY <1>4, <1>6, <2>1
  <2> PICK obj \in [Plugins -> Objects] : obj = before
    BY <2>2
  <2> HIDE DEF before
  <2> PICK k : k = WithModules(obj)
    OBVIOUS
  <2>3. \A q \in Plugins : \A f \in Files : k[q][f] = IF f = obj[q].file /\ obj[q].code # None
                                                THEN obj[q].code ELSE modules[q][f]
    BY DEF WithModules
  <2>4. \A q \in Plugins \ {p} : k[q] = n[q]
    BY <2>2 DEF WithModules
  <2>5. k \in [Plugins -> [Files -> Package]]
    <3>1. \A q \in Plugins : obj[q].code \in Package
      BY DEF Objects
    <3> QED
      BY <1>6, <3>1 DEF WithModules
  <2>6. k[p] = modules[p]
    BY <1>6, <2>1, <2>2, <2>3, <2>5
  <2>7. ASSUME NEW q \in Plugins PROVE ObjectOK(q, obj, k, d)
    <3>1. CASE q = p
      <4>1. \A f \in Files : modules[p][f] # None => modules[p][f].file = f
        BY <1>6 DEF IInv, ObjectInv, ObjectOK
      <4> QED
        BY <1>6, <2>1, <2>2, <2>6, <3>1, <4>1, NoneFacts DEF ObjectOK
    <3>2. CASE q # p
      BY <1>4, <2>2, <2>4, <3>2 DEF ObjectOK
    <3> QED
      BY <3>1, <3>2
  <2>8. \A q \in Plugins \ {p} : FreshOK(q, k, a, s, d)
    BY <1>4, <2>4 DEF FreshOK
  <2>9. plugins' = [obj EXCEPT ![p].code = None]
    <3>1. obj[p] = [obj[p] EXCEPT !.code = None]
      BY <2>1, <2>2 DEF Object, None
    <3> QED
      BY <1>12, <3>1
  <2>10. deactivate(p, obj, k, a, s)
    BY <1>12
  <2> QED
    BY <1>9, <2>1, <2>2, <2>5, <2>6, <2>7, <2>8, <2>9, <2>10
<1>13. CASE /\ "after" \in activate(p, after[p].code)
            /\ plugins' = [after EXCEPT ![p].code = None]
            /\ deactivate(p, after, WithModules(after), L, s)
  <2>1. after[p].code # None
    BY <1>13 DEF activate, None
  <2>5. after[p] \in Objects /\ ObjectOK(p, after, m, d)
    BY <1>5, <1>6
  <2>6. after[p].file = d[p].file
    BY <1>10
  <2>2. after[p].file = d[p].file /\ after[p].file \in Files
    BY <2>1, <2>5, <2>6, NoneFacts DEF ObjectOK, Objects
  <2>3. \A f \in Files : f # d[p].file => m[p][f] = modules[p][f]
    BY <1>6, <1>11, <2>2
  <2>4. deactivate(p, after, m, a, s)
    BY <1>13
  <2> QED
    BY <1>5, <1>9, <1>13, <2>2, <2>3, <2>4
<1> QED
  BY <1>3, <1>8, <1>12, <1>13

\* A failed start, or a stop: nothing is left of the process.
LEMMA NothingStep ==
    ASSUME IInv, Nothing, booted' = FALSE, db' \subseteq Plugins, disk' \in [Plugins -> Package],
           installs' \in Nat, crashes' \in Nat
    PROVE  IInv'
<1>1. /\ plugins' = [p \in Plugins |-> Gone] /\ modules' = NoModules /\ active' = {}
      /\ hooks' = [p \in Plugins |-> None] /\ routes' = [path \in Paths |-> <<>>]
      /\ overlaid' = FALSE /\ lost' = FALSE /\ halfway' = FALSE /\ stuck' = {}
  BY DEF Nothing
<1>2. NoModules \in [Plugins -> [Files -> Package]] /\ \A p \in Plugins : \A f \in Files : NoModules[p][f] = None
  BY NoneFacts DEF NoModules
<1>3. [path \in Paths |-> <<>>] \in [Paths -> RouteTargets]
  BY DEF RouteTargets
<1>4. TypeOK'
  BY <1>1, <1>2, <1>3, NoneFacts DEF TypeOK
<1>5. Down' /\ SavedActive' /\ HooksOfActive'
  BY <1>1 DEF Down, SavedActive, HooksOfActive
<1>6. RoutesMatch' /\ (halfway' => lost')
  BY <1>1 DEF RoutesMatch
<1>7. ObjectInv'
  BY <1>1, <1>2, NoneFacts DEF ObjectInv, ObjectOK
<1>8. LoadedFresh'
  BY <1>1, <1>2 DEF LoadedFresh, FreshOK
<1> QED
  BY <1>4, <1>5, <1>6, <1>7, <1>8 DEF IInv

\* The invariant holds from the first start on.
LEMMA Inductive == Spec => []IInv
<1>1. Init => IInv
  <2> SUFFICES ASSUME Init PROVE IInv
    OBVIOUS
  <2> PICK file \in Files : disk = [p \in Plugins |-> IF p = Core THEN [version |-> 1, kind |-> "ok", file |-> file] ELSE None]
    BY DEF Init
  <2>1. [version |-> 1, kind |-> "ok", file |-> file] \in Package
    BY DEF Package
  <2>2. disk \in [Plugins -> Package]
    BY <2>1, NoneFacts
  <2>3. NoModules \in [Plugins -> [Files -> Package]] /\ \A p \in Plugins : \A f \in Files : NoModules[p][f] = None
    BY NoneFacts DEF NoModules
  <2>4. [path \in Paths |-> <<>>] \in [Paths -> RouteTargets]
    BY DEF RouteTargets
  <2>5. TypeOK
    <3>1. /\ db = {} /\ active = {} /\ stuck = {} /\ modules = NoModules
          /\ plugins = [p \in Plugins |-> Gone] /\ hooks = [p \in Plugins |-> None]
          /\ routes = [path \in Paths |-> <<>>]
          /\ booted = FALSE /\ overlaid = FALSE /\ lost = FALSE /\ halfway = FALSE
          /\ installs = 1 /\ crashes = 0
      BY DEF Init
    <3> QED
      BY <2>2, <2>3, <2>4, <3>1, NoneFacts DEF TypeOK
  <2>6. Down /\ SavedActive /\ HooksOfActive /\ RoutesMatch /\ (halfway => lost)
    BY DEF Init, Down, SavedActive, HooksOfActive, RoutesMatch
  <2>7. ObjectInv /\ LoadedFresh
    <3>1. modules = NoModules /\ plugins = [p \in Plugins |-> Gone]
      BY DEF Init
    <3> QED
      BY <2>3, <3>1, NoneFacts DEF ObjectInv, ObjectOK, LoadedFresh, FreshOK
  <2> QED
    BY <2>5, <2>6, <2>7 DEF IInv
<1>2. IInv /\ [Next]_vars => IInv'
  <2> SUFFICES ASSUME IInv, [Next]_vars PROVE IInv'
    OBVIOUS
  <2>1. CASE \E p \in Others, new \in Packages : install_plugin(p, new)
    BY <2>1, InstallStep DEF install_plugin
  <2>2. CASE \E p \in Plugins : Toggle(p)
    BY <2>2, TogglePluginStep DEF Toggle
  <2>3. CASE \E p \in Plugins : uninstall_plugin(p)
    BY <2>3, UninstallStep DEF uninstall_plugin
  <2>4. CASE Starts \/ Rediscover
    BY <2>4, FindStep DEF Starts, Rediscover
  <2>5. CASE find_plugins_fails
    BY <2>5, FindFailsStep
  <2>6. CASE BootDeactivates \/ BootFails
    <3>1. /\ Nothing /\ booted' = booted /\ booted = FALSE /\ disk' = disk /\ installs' = installs /\ crashes' = crashes
          /\ db' \subseteq Plugins
      BY <2>6, MadHatterAssumption
      DEF BootDeactivates, BootFails, disks, load_active_plugins_from_db, IInv, TypeOK
    <3> QED
      BY <3>1, NothingStep DEF IInv, TypeOK
  <2>7. CASE Stop
    <3>1. /\ Nothing /\ booted' = FALSE /\ db' = db /\ crashes' \in Nat
      BY <2>7 DEF Stop, IInv, TypeOK
    <3>2. disk' \in [Plugins -> Package] /\ installs' \in Nat
      <4>1. CASE UNCHANGED <<disk, installs>>
        BY <4>1 DEF IInv, TypeOK
      <4>2. CASE \E p \in Others : disk' = [disk EXCEPT ![p] = None] /\ UNCHANGED installs
        BY <4>2, NoneFacts DEF IInv, TypeOK
      <4>3. CASE \E p \in Others, new \in Packages : Extract(p, new)
        <5>1. PICK p \in Others, new \in Packages : Extract(p, new)
          BY <4>3
        <5>2. new.kind \in {"ok", "flaky", "raises", "moody"} /\ new.file \in Files \union {NoFile}
          BY MadHatterAssumption
        <5>3. [version |-> installs + 1, kind |-> new.kind, file |-> new.file] \in Package
          BY <5>2 DEF IInv, TypeOK, Package
        <5> DEFINE package == [version |-> installs + 1, kind |-> new.kind, file |-> new.file]
        <5>4. disk' = [disk EXCEPT ![p] = package] /\ installs' = installs + 1 /\ package \in Package
          BY <5>1, <5>3 DEF Extract
        <5> HIDE DEF package
        <5>5. disk \in [Plugins -> Package] /\ installs \in Nat
          BY DEF IInv, TypeOK
        <5>6. disk' \in [Plugins -> Package]
          BY <5>4, <5>5
        <5> QED
          BY <5>4, <5>5, <5>6
      <4> QED
        BY <2>7, <4>1, <4>2, <4>3 DEF Stop
    <3> QED
      BY <3>1, <3>2, NothingStep DEF IInv, TypeOK
  <2>8. CASE UNCHANGED vars
    BY <2>8 DEF vars, disks, process, ghosts, IInv, TypeOK, Down, SavedActive, HooksOfActive,
                ObjectInv, ObjectOK, LoadedFresh, FreshOK, RoutesMatch
  <2> QED
    BY <2>1, <2>2, <2>3, <2>4, <2>5, <2>6, <2>7, <2>8 DEF Next, Boot
<1> QED
  BY <1>1, <1>2, PTL DEF Spec

-----------------------------------------------------------------------------
(* Theorems *)

\* A restart restores what is running: toggle_plugin saves the list whenever it
\* changes it, failed activations change neither, and a rediscovery, even one that fails,
\* leaves the saved list and the one in memory equal.
THEOREM SavedActiveHolds == Spec => []SavedActive
<1>1. IInv => SavedActive
  BY DEF IInv
<1> QED
  BY <1>1, Inductive, PTL

\* The hooks, tools and forms that chat turns use are those of the Plugin
\* objects of the active plugins, after failed operations too, and from the first sync after
\* a rediscovery that failed.
THEOREM HooksOfActiveHolds == Spec => []HooksOfActive
<1>1. IInv => HooksOfActive
  BY DEF IInv
<1> QED
  BY <1>1, Inductive, PTL

\* The paths of the active plugins are served, by the code that is loaded, and
\* no other path is, as long as no package was installed over an active plugin and no
\* rediscovery failed.
THEOREM RoutesMatchHolds == Spec => []RoutesMatch
<1>1. IInv => RoutesMatch
  BY DEF IInv
<1> QED
  BY <1>1, Inductive, PTL

\* The hooks and tools in use are the code of the folder on disk, but for
\* modules that stayed in sys.modules when their plugin was switched off or replaced.
THEOREM CodeFreshHolds == Spec => []CodeFresh
<1>1. IInv => CodeFresh
  <2> SUFFICES ASSUME IInv, ~halfway, NEW p \in Plugins, hooks[p] # None, <<p, plugins[p].file>> \notin stuck
               PROVE  hooks[p] = disk[p]
    BY DEF CodeFresh
  <2>1. booted
    BY DEF IInv, Down
  <2>2. hooks[p] = plugins[p].code /\ plugins[p] \in Objects
    BY <2>1 DEF IInv, HooksOfActive, TypeOK
  <2>3. plugins[p].file \in Files
    BY <2>2, NoneFacts DEF IInv, ObjectInv, ObjectOK, Objects
  <2>4. modules[p][plugins[p].file] = hooks[p]
    BY <2>2 DEF IInv, ObjectInv, ObjectOK
  <2> QED
    BY <2>3, <2>4 DEF IInv, LoadedFresh, FreshOK
<1> QED
  BY <1>1, Inductive, PTL
=============================================================================
