------------------------------ MODULE Settings ------------------------------
(***************************************************************************)
(* The settings database and the users in it: the routes that read and change *)
(* users and settings run in threads of the pool, on one TinyDB without a     *)
(* lock.  TinyDB keeps one open file, whose position its reads and writes     *)
(* share, and a cache of query results that hands out the same objects to     *)
(* everyone; a write reads the whole file, changes it, writes it back, cuts   *)
(* the file off at the position and empties the cache.  The routes for users   *)
(* change the dictionary they got from the cache in place before they save it, *)
(* and load_active_plugins_from_db changes a list it got from there and does   *)
(* not save it.                                                              *)
(*                                                                           *)
(* There are two names: "users", whose value is a set of [id, username], and  *)
(* "other", any other setting.  Passwords and permissions are left out.       *)
(***************************************************************************)
EXTENDS Naturals, FiniteSets, FiniteSetsExt

CONSTANTS
    Threads,     \* threads of the pool
    Usernames,   \* names that are given to users
    UserIds,     \* ids of the users that are changed; new ones are 3, 4, ...
    Values,      \* values of the other setting: sets of names of plugins
    Core,        \* core_plugin
    Absent,      \* no result, no value
    Miss,        \* not in the cache
    MaxOps       \* bound on operations

ASSUME SettingsAssumption ==
    /\ IsFiniteSet(Threads)
    /\ UserIds \subseteq Nat
    /\ Absent \notin Values /\ Absent \notin Nat
    /\ Miss # Absent /\ Miss \notin Nat
    /\ MaxOps \in Nat

VARIABLES
    file,      \* file[i]: the document [name, value] whose id is i
    readable,  \* the file is JSON, but for an excess
    excess,    \* behind what was written there is the end of the longer text before it
    position,  \* of the open file: "start", "written" (before the excess) or "end"
    queries,   \* cached result of the query for a name: Miss, Absent or an object
    objects,   \* objects[o]: the value of a document that was read from the file
    thread,    \* locals of the threads
    ops,       \* counts operations
    users,     \* history: the users as the completed changes leave them
    other,     \* history: the other setting, as last saved
    shadowed,  \* history: the last save was a POST of a name that existed
    crossed,   \* history: a change was based on data that another one had replaced, or
               \* an access to the file was spoilt by a thread that moved the position
    failed     \* history: the file could not be written once

settingsHistory == <<users, other, shadowed, crossed, failed>>

settingsVars == <<file, readable, excess, position, queries, objects, thread, ops, settingsHistory>>

Names == {"users", "other"}

Results == 1 .. 2 * Cardinality(Threads) + 2

Resting == [op |-> "none", arg |-> Absent, pc |-> "idle", ret |-> "idle", name |-> "users",
            found |-> Absent, dict |-> Absent, todo |-> Absent, buf |-> << >>, stale |-> FALSE]

Put(t, r) == thread' = [thread EXCEPT ![t] = r]

Defaults == {[id |-> 1, username |-> "admin"], [id |-> 2, username |-> "user"]}

\* The objects that something refers to; the others are gone.
Live == {queries[n] : n \in Names} \union UNION {{thread[t].found, thread[t].dict} : t \in Threads}

NewResult == CHOOSE o \in Results : o \notin Live

\* Ids of the documents with a name.
Named(docs, n) == {i \in DOMAIN docs : docs[i].name = n}

\* A query returns documents in the order of their ids, and the first one is used.
Value(docs, n) == IF Named(docs, n) = {} THEN Absent ELSE docs[Min(Named(docs, n))].value

\* A new document has an id above all others.
NextId(docs) == Max(DOMAIN docs \union {0}) + 1

-----------------------------------------------------------------------------
(* TinyDB.search *)

\* What get_setting_by_name does after this: `ret'.
Searching(r, n, ret) == [r EXCEPT !.pc = "search", !.name = n, !.ret = ret]

\* The same, of a thread that drops what it found before.
Anew(r, n, ret) == Searching([r EXCEPT !.stale = FALSE, !.found = Absent], n, ret)

\* What the thread found before decides what it will save.
Decided(r) == r.dict # Absent \/ r.todo = Defaults

\* A change is written, and the cache is not emptied yet.
Emptying(t) == \E s \in Threads \ {t} : thread[s].pc = "truncate"

\* A cached result is handed out, even one that a change is about to drop.
Search(t) ==
    LET r == thread[t]
    IN  /\ r.pc = "search"
        /\ Put(t, IF queries[r.name] = Miss THEN [r EXCEPT !.pc = "seek"]
                  ELSE [r EXCEPT !.pc = r.ret, !.found = queries[r.name],
                                 !.stale = (r.stale /\ Decided(r)) \/ Emptying(t)])
        /\ UNCHANGED <<file, readable, excess, position, queries, objects, ops, settingsHistory>>

\* (A read first goes to the end, for the length, which Load does, too.)
Seek(t) ==
    /\ thread[t].pc \in {"seek", "seek_update", "seek_write"}
    /\ position' = "start"
    /\ Put(t, [thread[t] EXCEPT !.pc = CASE @ = "seek" -> "load"
                                         [] @ = "seek_update" -> "load_update"
                                         [] @ = "seek_write" -> "write"])
    /\ UNCHANGED <<file, readable, excess, queries, objects, ops, settingsHistory>>

\* From the end of the file, or from a file that is not JSON or not yet cut off,
\* nothing is loaded: the operation fails.
LoadFails(t) ==
    /\ thread[t].pc \in {"load", "load_update"}
    /\ position # "start" \/ ~readable \/ excess
    /\ position' = "end"
    /\ Put(t, Resting)
    /\ crossed' = TRUE
    /\ UNCHANGED <<file, readable, excess, queries, objects, ops, users, other, shadowed, failed>>

\* The first document of the name becomes an object.
Load(t) ==
    LET r == thread[t]
        v == Value(file, r.name)
        found == IF Named(file, r.name) = {} THEN Absent ELSE NewResult
    IN  /\ r.pc = "load" /\ position = "start" /\ readable /\ ~excess
        /\ position' = "end"
        /\ objects' = [o \in Results |-> IF o = NewResult THEN v ELSE IF o \in Live THEN objects[o] ELSE Absent]
        /\ Put(t, [r EXCEPT !.pc = "cache", !.found = found,
                            !.stale = r.stale /\ Decided(r)])
        /\ UNCHANGED <<file, readable, excess, queries, ops, settingsHistory>>

\* The result is cached, even if the file has changed meanwhile.  That of a query
\* for an id is not asked for again.
CacheResult(t) ==
    LET r == thread[t]
    IN  /\ r.pc = "cache"
        /\ queries' = IF r.name = "id" THEN queries ELSE [queries EXCEPT ![r.name] = r.found]
        /\ Put(t, [r EXCEPT !.pc = r.ret])
        /\ crossed' = (crossed \/ (r.stale /\ r.name # "id"))
        /\ UNCHANGED <<file, readable, excess, position, objects, ops, users, other, shadowed, failed>>

-----------------------------------------------------------------------------
(* TinyDB.insert, update and remove *)

Writing(r, todo, ret) == [r EXCEPT !.pc = "seek_update", !.todo = todo, !.ret = ret]

\* The documents after a change.
Changed(docs, todo) ==
    CASE todo.kind = "insert" ->
            [i \in DOMAIN docs \union {NextId(docs)} |->
                IF i \in DOMAIN docs THEN docs[i] ELSE [name |-> todo.name, value |-> todo.value]]
      [] todo.kind = "update" ->
            [i \in DOMAIN docs |-> IF docs[i].name = todo.name
                                   THEN [docs[i] EXCEPT !.value = todo.value] ELSE docs[i]]
      [] todo.kind = "remove" -> Restrict(docs, DOMAIN docs \ Named(docs, todo.name))

LoadForUpdate(t) ==
    /\ thread[t].pc = "load_update" /\ position = "start" /\ readable /\ ~excess
    /\ position' = "end"
    /\ Put(t, [thread[t] EXCEPT !.pc = "seek_write", !.buf = file,
                                !.stale = @ /\ thread[t].op \notin {"insert", "remove"}])
    /\ UNCHANGED <<file, readable, excess, queries, objects, ops, settingsHistory>>

\* History: what a change means for the users, and for the other setting.
Meant(r) ==
    CASE r.op = "create_user" /\ r.ret = "saved" -> users \union {r.arg}
      [] r.op = "update_user" /\ r.ret = "saved" ->
            {u \in users : u.id # r.arg.id} \union {r.arg}
      [] r.op = "delete_user" /\ r.ret = "saved" -> {u \in users : u.id # r.arg}
      [] r.ret = "defaults" -> Defaults
      [] OTHER -> users

MeantOther(r) ==
    CASE r.op \in {"upsert", "insert"} -> r.arg
      [] r.op = "remove" -> Absent
      [] OTHER -> other

\* POST /settings puts a document of an existing name behind the others.
Shadows(r) ==
    CASE r.op \in {"upsert", "remove"} -> FALSE
      [] r.op = "insert" -> other # Absent
      [] OTHER -> shadowed

\* The text is written at the position, and flushed; at the end of the file, two
\* JSON texts are none.  It may be shorter than the one before it, but not
\* with a document more.
Write(t) ==
    LET r == thread[t]
    IN  /\ r.pc = "write"
        /\ file' = Changed(r.buf, r.todo)
        /\ readable' = (position = "start")
        /\ excess' \in IF r.todo.kind = "insert" /\ r.buf = file /\ ~excess THEN {FALSE} ELSE BOOLEAN
        /\ position' = IF excess' THEN "written" ELSE "end"
        /\ thread' = [s \in Threads |->
                        IF s = t THEN [r EXCEPT !.pc = "truncate", !.buf = << >>,
                                                !.found = Absent, !.dict = Absent]
                        ELSE IF thread[s].pc = "idle" THEN thread[s]
                        ELSE [thread[s] EXCEPT !.stale = TRUE]]
        /\ users' = Meant(r)
        /\ other' = MeantOther(r)
        /\ shadowed' = Shadows(r)
        /\ crossed' = (crossed \/ r.stale \/ position # "start")
        /\ UNCHANGED <<queries, objects, ops, failed>>

\* JSONStorage.write ends with a truncate() at the position: where another thread's
\* read has left it at the start, the file is emptied; where it went to the end, the
\* excess stays.  Then the cache is emptied, and crud.create_setting looks
\* the inserted document up by its id.
CutOff(t) ==
    LET r == thread[t]
        insert == r.todo.kind = "insert"
    IN  /\ r.pc = "truncate"
        /\ file' = IF position = "start" THEN << >> ELSE file
        /\ readable' = (position = "start" \/ (readable /\ ~(position = "end" /\ excess)))
        /\ excess' = FALSE
        /\ position' = IF position = "start" THEN "start" ELSE "end"
        /\ queries' = [n \in Names |-> Miss]
        /\ Put(t, [r EXCEPT !.pc = IF insert THEN "seek" ELSE r.ret,
                            !.name = IF insert THEN "id" ELSE r.name, !.todo = Absent])
        /\ crossed' = (crossed \/ position = "start" \/ (position = "end" /\ excess))
        /\ UNCHANGED <<objects, ops, users, other, shadowed, failed>>

\* The disk is full: the file is as it was, or cut off.
WriteFails(t) ==
    /\ thread[t].pc = "write"
    /\ Put(t, Resting)
    /\ failed' = TRUE
    /\ readable' \in {readable, FALSE}
    /\ UNCHANGED <<file, excess, position, queries, objects, ops, users, other, shadowed, crossed>>

-----------------------------------------------------------------------------
(* crud.py *)

\* Mutant of Upsert: every save is an insertion.
UpsertInserts(t) ==
    LET r == thread[t]
    IN  /\ r.pc = "upsert"
        /\ IF r.op = "upsert"
           THEN Put(t, Writing(r, [kind |-> "insert", name |-> "other", value |-> r.arg], "written"))
           ELSE Put(t, Writing(r, [kind |-> IF r.found = Absent THEN "insert" ELSE "update",
                                   name |-> "users", value |-> r.todo],
                               IF r.dict = Absent THEN "defaults" ELSE "saved"))
        /\ UNCHANGED <<file, readable, excess, position, queries, objects, ops, settingsHistory>>

\* upsert_setting_by_name, after it has looked the name up: all documents of the
\* name are updated.
Upsert(t) ==
    LET r == thread[t]
        kind == IF r.found = Absent THEN "insert" ELSE "update"
    IN  /\ r.pc = "upsert"
        /\ IF r.op = "upsert"
           THEN Put(t, Writing(r, [kind |-> kind, name |-> "other", value |-> r.arg], "written"))
           ELSE Put(t, Writing(r, [kind |-> kind, name |-> "users", value |-> r.todo],
                               IF r.dict = Absent THEN "defaults" ELSE "saved"))
        /\ UNCHANGED <<file, readable, excess, position, queries, objects, ops, settingsHistory>>

\* get_users: without users, the administrator and an ordinary user are created.
\* The users it returns are looked up again.
GotUsers(t) ==
    LET r == thread[t]
    IN  /\ r.pc = "got"
        /\ Put(t, IF r.found = Absent
                  THEN [Searching(r, "users", "upsert") EXCEPT !.todo = Defaults]
                  ELSE Anew(r, "users", "again"))
        /\ UNCHANGED <<file, readable, excess, position, queries, objects, ops, settingsHistory>>

\* The defaults are saved: upsert_setting_by_name looks the name up.
DefaultsSaved(t) ==
    LET r == thread[t]
    IN  /\ r.pc = "defaults"
        /\ Put(t, Anew(r, "users", "created"))
        /\ UNCHANGED <<file, readable, excess, position, queries, objects, ops, settingsHistory>>

LookUpCreated(t) ==
    LET r == thread[t]
    IN  /\ r.pc = "created"
        /\ Put(t, Anew(r, "users", "again"))
        /\ UNCHANGED <<file, readable, excess, position, queries, objects, ops, settingsHistory>>

\* None["value"] fails.
TakeUsers(t) ==
    LET r == thread[t]
    IN  /\ r.pc = "again"
        /\ Put(t, IF r.found = Absent THEN Resting ELSE [r EXCEPT !.pc = "edit", !.dict = r.found])
        /\ UNCHANGED <<file, readable, excess, position, queries, objects, ops, settingsHistory>>

\* upsert_setting_by_name returns what it looks up.
LookUpSaved(t) ==
    LET r == thread[t]
    IN  /\ r.pc \in {"saved", "written"}
        /\ Put(t, Anew(r, IF r.pc = "saved" THEN "users" ELSE "other", "done"))
        /\ UNCHANGED <<file, readable, excess, position, queries, objects, ops, settingsHistory>>

Done(t) ==
    /\ thread[t].pc = "done"
    /\ Put(t, Resting)
    /\ UNCHANGED <<file, readable, excess, position, queries, objects, ops, settingsHistory>>

-----------------------------------------------------------------------------
(* Requests *)

Request(t, op, arg, r) ==
    /\ thread[t].pc = "idle" /\ ops < MaxOps
    /\ Put(t, [r EXCEPT !.op = op, !.arg = arg])
    /\ ops' = ops + 1
    /\ UNCHANGED <<file, readable, excess, position, queries, objects, settingsHistory>>

\* The routes for users first get them.  So does every request with a token.
read_users(t) == Request(t, "read_users", Absent, Searching(Resting, "users", "got"))

create_user(t, name) ==
    Request(t, "create_user", [id |-> ops + 3, username |-> name], Searching(Resting, "users", "got"))

update_user(t, id, name) ==
    Request(t, "update_user", [id |-> id, username |-> name], Searching(Resting, "users", "got"))

delete_user(t, id) == Request(t, "delete_user", id, Searching(Resting, "users", "got"))

\* A setting is saved under its name (upsert_setting_by_name).
upsert_setting_by_name(t, v) == Request(t, "upsert", v, Searching(Resting, "other", "upsert"))

\* POST /settings inserts, whether there is one of the name or not.
create_setting(t, v) ==
    Request(t, "insert", v,
            Writing(Resting, [kind |-> "insert", name |-> "other", value |-> v], "done"))

delete_settings_by_category(t) ==
    Request(t, "remove", Absent, Writing(Resting, [kind |-> "remove", name |-> "other"], "done"))

\* find_plugins and the routes for plugins load the list of active plugins.
load_active_plugins(t) ==
    Request(t, "load_plugins", Absent, Searching(Resting, "other", "loaded"))

\* The core plugin is added to the list that the cache holds, which is not saved.
AddCore(t) ==
    LET r == thread[t]
    IN  /\ r.pc = "loaded"
        /\ objects' = IF r.found = Absent THEN objects
                      ELSE [objects EXCEPT ![r.found] = @ \union {Core}]
        /\ Put(t, Resting)
        /\ UNCHANGED <<file, readable, excess, position, queries, ops, settingsHistory>>

\* History: another thread has the dictionary and is about to change it, too.
Shared(t) ==
    \E s \in Threads \ {t} : thread[s].dict = thread[t].dict /\ thread[s].op # "read_users"

\* The dictionary is changed in place and a copy of it is saved.
SaveUsers(t, dict) ==
    LET r == thread[t]
    IN  /\ objects' = [objects EXCEPT ![r.dict] = dict]
        /\ Put(t, [Searching(r, "users", "upsert") EXCEPT !.todo = dict])
        /\ crossed' = (crossed \/ Shared(t))
        /\ UNCHANGED <<file, readable, excess, position, queries, ops, users, other, shadowed, failed>>

\* 403, 404, or nothing to change.
NoChange(t) ==
    /\ Put(t, Resting)
    /\ UNCHANGED <<file, readable, excess, position, queries, objects, ops, settingsHistory>>

ReadUsers(t) == thread[t].op = "read_users" /\ thread[t].pc = "edit" /\ NoChange(t)

\* "Cannot duplicate user"
CreateUser(t) ==
    LET r == thread[t]
        taken == \E u \in objects[r.dict] : u.username = r.arg.username
    IN  /\ r.op = "create_user" /\ r.pc = "edit"
        /\ \/ taken /\ NoChange(t)
           \/ ~taken /\ SaveUsers(t, objects[r.dict] \union {r.arg})

UpdateUser(t) ==
    LET r == thread[t]
        known == \E u \in objects[r.dict] : u.id = r.arg.id
    IN  /\ r.op = "update_user" /\ r.pc = "edit"
        /\ \/ ~known /\ NoChange(t)
           \/ known /\ SaveUsers(t, {u \in objects[r.dict] : u.id # r.arg.id} \union {r.arg})

\* Mutant of DeleteUser: the dictionary is changed and not saved.
DeleteUserInPlace(t) ==
    LET r == thread[t]
    IN  /\ r.op = "delete_user" /\ r.pc = "edit"
        /\ objects' = [objects EXCEPT ![r.dict] = {u \in @ : u.id # r.arg}]
        /\ Put(t, Resting)
        /\ users' = {u \in users : u.id # r.arg}
        /\ UNCHANGED <<file, readable, excess, position, queries, ops, other, shadowed, crossed, failed>>

DeleteUser(t) ==
    LET r == thread[t]
        known == \E u \in objects[r.dict] : u.id = r.arg
    IN  /\ r.op = "delete_user" /\ r.pc = "edit"
        /\ \/ ~known /\ NoChange(t)
           \/ known /\ SaveUsers(t, {u \in objects[r.dict] : u.id # r.arg})

-----------------------------------------------------------------------------
\* A new database.
SettingsInit ==
    /\ file = << >> /\ readable = TRUE /\ excess = FALSE /\ position = "start"
    /\ queries = [n \in Names |-> Miss]
    /\ objects = [o \in Results |-> Absent]
    /\ thread = [t \in Threads |-> Resting]
    /\ ops = 0
    /\ users = {} /\ other = Absent /\ shadowed = FALSE
    /\ crossed = FALSE /\ failed = FALSE

Step(t) ==
    \/ Search(t) \/ Seek(t) \/ LoadFails(t) \/ Load(t) \/ CacheResult(t)
    \/ LoadForUpdate(t) \/ Write(t) \/ CutOff(t) \/ WriteFails(t)
    \/ Upsert(t) \/ GotUsers(t) \/ DefaultsSaved(t) \/ LookUpCreated(t) \/ TakeUsers(t)
    \/ LookUpSaved(t) \/ AddCore(t) \/ Done(t)
    \/ ReadUsers(t) \/ CreateUser(t) \/ UpdateUser(t) \/ DeleteUser(t)

SettingsNext ==
    \E t \in Threads :
        \/ Step(t)
        \/ read_users(t)
        \/ \E name \in Usernames : create_user(t, name)
        \/ \E id \in UserIds, name \in Usernames : update_user(t, id, name)
        \/ \E id \in UserIds : delete_user(t, id)
        \/ \E v \in Values : upsert_setting_by_name(t, v) \/ create_setting(t, v)
        \/ delete_settings_by_category(t) \/ load_active_plugins(t)

SettingsSpec == SettingsInit /\ [][SettingsNext]_settingsVars

-----------------------------------------------------------------------------
(* Properties *)

AllIdle == \A t \in Threads : thread[t].pc = "idle"

Cached(n) == IF queries[n] = Absent THEN Absent ELSE objects[queries[n]]

\* Between operations, the users in the file and in the cache, the one that
\* authorises requests, are what the completed changes made of them, with the
\* administrator and the ordinary user that get_users adds: a change in place is
\* saved, and lookups that run beside a change and hit the old cache, or load the
\* new file, do not bring back what it replaced.  Nothing is claimed once the disk
\* failed, a change overlapped another one, a result was cached after the file
\* had changed, or a thread's read moved the position between another's
\* seek and read or write, or before the truncate() that ends its write: a plain read
\* can empty the file or leave it unreadable (crud.py takes no lock).
UsersAsSaved ==
    AllIdle /\ ~crossed /\ ~failed =>
        /\ users # {} => Value(file, "users") = users
        /\ queries["users"] # Miss /\ users # {} => Cached("users") = users

\* Under the same conditions, a setting reads as it was last saved, by an upsert of
\* its name or by POST /settings, and not at all once it was deleted: a change of
\* another setting rewrites the file and does not touch it.  A POST of a name that
\* exists is not read (shadowed), and the next upsert of the name makes
\* up for it.  The cached list of active plugins may have the core plugin added.
SettingAsSaved ==
    AllIdle /\ ~crossed /\ ~failed /\ ~shadowed =>
        /\ Value(file, "other") = other
        /\ queries["other"] # Miss =>
              \/ Cached("other") = other
              \/ other # Absent /\ Cached("other") = other \union {Core}
=============================================================================
