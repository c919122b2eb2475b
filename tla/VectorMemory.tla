---------------------------- MODULE VectorMemory ----------------------------
(***************************************************************************)
(* The vector collections against changes of the embedder: the routes that  *)
(* change the LLM and the embedder (threadpool), plugin toggles and wipes    *)
(* (event loop, a second actor), documents, chat messages and points that    *)
(* are embedded and stored meanwhile, exports that are imported, and         *)
(* restarts.                                                                 *)
(*                                                                           *)
(* A vector is abstracted to the embedder that made it.  A collection has    *)
(* the size and the alias of the embedder it was created for.  Every call of *)
(* the embedder or of Qdrant is a step and may fail.                         *)
(***************************************************************************)
EXTENDS Naturals, Sequences, FiniteSets

CONSTANTS
    Embedders,    \* configurations of embedders
    Dumb,         \* the one that is used when no other can be
    Size,         \* Size[e]: length of e's vectors
    Name,         \* Name[e]: its model or repo_id, or "default_embedder" if it has neither
    Class,        \* Class[e]: its Python class
    Vendors,      \* embedders that come with a choice of the LLM
    Exports,      \* embedders with which memories were exported
    Written,      \* collections that documents and messages go to
    Procedures,   \* plugins with one procedure trigger each
    NotSet,       \* no such setting, no vector
    MaxOps        \* bound on requests and restarts

ASSUME EmbedderAssumption ==
    /\ Dumb \in Embedders /\ Vendors \subseteq Embedders /\ Exports \subseteq Embedders
    /\ Size \in [Embedders -> Nat] /\ DOMAIN Name = Embedders /\ DOMAIN Class = Embedders
    /\ Written \subseteq {"episodic", "declarative"}
    /\ NotSet \notin Embedders
    /\ MaxOps \in Nat

VARIABLES
    embedder_selected,   \* setting in the database
    llm_selected,        \* setting: NotSet or the embedder of the LLM's vendor
    embedder,            \* ccat.embedder
    db,                  \* collections of the vector database
    procedures,          \* mad_hatter.procedures
    actor,               \* what the event loop and the settings route are doing
    store,               \* a document or an import on its way into memory
    ops,                 \* counts requests and restarts
    synced,              \* history: the last embed_procedures is complete, and no
                         \* procedure was deleted through the API since
    adrift,              \* history: a change was rolled back half way, and left
                         \* embedder and collections apart
    clashed              \* history: two actors were at work at once

vars == <<embedder_selected, llm_selected, embedder, db, procedures, actor, store,
          ops, synced, adrift, clashed>>

Collections == <<"episodic", "declarative", "procedural">>

Names == {Collections[k] : k \in DOMAIN Collections}

Actors == {"loop", "route"}

\* A collection that is not in the database.  Points are [what, by, how]: the
\* embedder that made the vector, and how it was stored: "direct", "across" a
\* change of the embedder, during it or after one that came between embedding
\* and storing, or by an "import".
Absent == [there |-> FALSE, size |-> 0, alias |-> NotSet, points |-> {}]

\* create_collection
Created(e) == [there |-> TRUE, size |-> Size[e], alias |-> Name[e], points |-> {}]

\* Mutant of SameEmbedder: the size decides.
SameSize(c, e) == c.size = Size[e]

\* The test of check_embedding_size.
SameEmbedder(c, e) == c.size = Size[e] /\ c.alias = Name[e]

\* Embedders that this test cannot tell apart: two without a model or repo_id and
\* with vectors of the same size are taken for one.
Alike(d, e) == Size[d] = Size[e] /\ Name[d] = Name[e]

\* The collection has the size and the name of the embedder, and so have the
\* embedders that made its points, those aside that were stored across a change
\* or imported.
Fits(c, e) ==
    c.there => /\ c.size = Size[e] /\ c.alias = Name[e]
               /\ \A p \in c.points : p.how = "direct" => Alike(p.by, e)

Matching == \A c \in Names : Fits(db[c], embedder)

Idle == [pc |-> "idle", boot |-> FALSE, llm |-> FALSE, prev |-> NotSet,
         new |-> NotSet, k |-> 1, todo |-> {}, vec |-> NotSet]

Up == actor["loop"].pc # "down" /\ ~actor["loop"].boot

\* Thread a has begun to load models or memory and has not succeeded yet.
Loading(a) == actor[a].pc \in {"natural", "query", "ensure", "undo", "restore", "down"}

Put(a, r) == actor' = [actor EXCEPT ![a] = r]

Step(a, pc) == Put(a, [actor[a] EXCEPT !.pc = pc])

\* An exception that nothing rolls back ends the request, or the start.
Raises(a) == Put(a, [Idle EXCEPT !.pc = IF actor[a].boot THEN "down" ELSE "idle"])

\* A request: its actor was idle and the server runs.
Request(a, r) ==
    /\ Up /\ actor[a].pc = "idle" /\ ops < MaxOps
    /\ Put(a, r)
    /\ ops' = ops + 1
    /\ clashed' = (clashed \/ \E b \in Actors \ {a} : actor[b].pc # "idle")
    /\ synced' = FALSE

-----------------------------------------------------------------------------
(* Settings *)

\* upsert_embedder_setting, up to the reload.
upsert_embedder_setting(e) ==
    /\ Request("route", [Idle EXCEPT !.pc = "natural", !.prev = embedder_selected])
    /\ embedder_selected' = e
    /\ UNCHANGED <<llm_selected, embedder, db, procedures, store, adrift>>

\* upsert_llm_setting, up to the reload.
upsert_llm_setting(e) ==
    /\ Request("route", [Idle EXCEPT !.pc = "natural", !.llm = TRUE])
    /\ llm_selected' = e
    /\ UNCHANGED <<embedder_selected, embedder, db, procedures, store, adrift>>

\* load_language_embedder: the configured one, else the one of the LLM's vendor.
Chosen ==
    IF embedder_selected # NotSet THEN embedder_selected
    ELSE IF llm_selected # NotSet THEN llm_selected
    ELSE Dumb

\* A configured embedder that cannot be instantiated is replaced by the dumb one, and
\* so is that of an LLM that cannot.  One that comes with the LLM raises, before
\* anything is rolled back.
load_natural_language(a) ==
    /\ actor[a].pc = "natural"
    /\ \/ embedder' \in {Chosen, Dumb} /\ Step(a, "query")
       \/ /\ embedder_selected = NotSet /\ llm_selected # NotSet
          /\ Raises(a) /\ UNCHANGED embedder
    /\ UNCHANGED <<embedder_selected, llm_selected, db, procedures, store, ops, synced, adrift, clashed>>

\* Where an actor goes whose load_memory raised.
Failed(a) ==
    Put(a, IF a = "route" THEN [actor[a] EXCEPT !.pc = "undo"]
           ELSE [Idle EXCEPT !.pc = IF actor[a].boot THEN "down" ELSE "idle"])

\* load_memory asks the embedder for its size and name.
load_memory(a) ==
    /\ actor[a].pc = "query"
    /\ \/ Put(a, [actor[a] EXCEPT !.pc = "ensure", !.new = embedder, !.k = 1])
       \/ Failed(a)
    /\ UNCHANGED <<embedder_selected, llm_selected, embedder, db, procedures, store, ops, synced, adrift, clashed>>

\* VectorMemoryCollection.__init__ for the k-th collection: it is created if it
\* is not there, and recreated if it has a different embedder.  Saving the dump
\* may fail; a failed creation deletes the collection.
Ensure(a) ==
    LET c == Collections[actor[a].k]
        e == actor[a].new
    IN  /\ actor[a].pc = "ensure"
        /\ \/ /\ db' = [db EXCEPT ![c] = IF @.there /\ SameEmbedder(@, e) THEN @ ELSE Created(e)]
              /\ Put(a, [actor[a] EXCEPT !.k = IF @ < 3 THEN @ + 1 ELSE 1,
                                         !.pc = IF actor[a].k < 3 THEN "ensure" ELSE "scan"])
           \/ /\ db[c].there /\ ~SameEmbedder(db[c], e)
              /\ Failed(a) /\ UNCHANGED db
           \/ /\ ~(db[c].there /\ SameEmbedder(db[c], e))
              /\ db' = [db EXCEPT ![c] = Absent]
              /\ Failed(a)
        /\ UNCHANGED <<embedder_selected, llm_selected, embedder, procedures, store, ops, synced, adrift, clashed>>

\* A failed change first deletes the settings.  A change of the LLM, or of an
\* embedder that was the first to be configured, leaves it at that.
Undo ==
    LET r == actor["route"]
    IN  /\ r.pc = "undo"
        /\ IF r.llm
           THEN llm_selected' = NotSet /\ UNCHANGED embedder_selected
           ELSE embedder_selected' = NotSet /\ UNCHANGED llm_selected
        /\ Put("route", IF r.prev = NotSet THEN Idle ELSE [r EXCEPT !.pc = "restore"])
        /\ adrift' = (adrift \/ ~Matching)
        /\ UNCHANGED <<embedder, db, procedures, store, ops, synced, clashed>>

\* The embedder that was selected is selected and loaded again; the collections
\* are left as they are.
Restore ==
    LET r == actor["route"]
    IN  /\ r.pc = "restore"
        /\ embedder_selected' = r.prev
        /\ embedder' \in {r.prev, Dumb}
        /\ Put("route", Idle)
        /\ UNCHANGED <<llm_selected, db, procedures, store, ops, synced, clashed>>
        /\ adrift' = (adrift \/ ~Matching')

-----------------------------------------------------------------------------
(* embed_procedures, at the end of every synchronisation of the plugins *)

Done(a, left) ==
    /\ Put(a, IF left = {} THEN Idle ELSE [actor[a] EXCEPT !.pc = "embed", !.todo = left, !.vec = NotSet])
    /\ synced' = (left = {})

Embedded == {p.what : p \in db["procedural"].points}

\* Mutant of Scan: triggers of plugins that were switched off stay.
ScanOnlyAdds(a) ==
    /\ actor[a].pc = "scan"
    /\ \/ db["procedural"].there /\ Done(a, procedures \ Embedded) /\ UNCHANGED db
       \/ Raises(a) /\ UNCHANGED <<db, synced>>
    /\ UNCHANGED <<embedder_selected, llm_selected, embedder, procedures, store, ops, adrift, clashed>>

\* Points of procedures that are not active are deleted, the triggers to embed
\* are those without a point.
Scan(a) ==
    /\ actor[a].pc = "scan"
    /\ \/ /\ db["procedural"].there
          /\ db' = [db EXCEPT !["procedural"].points = {p \in @ : p.what \in procedures}]
          /\ Done(a, procedures \ Embedded)
       \/ Raises(a) /\ UNCHANGED <<db, synced>>
    /\ UNCHANGED <<embedder_selected, llm_selected, embedder, procedures, store, ops, adrift, clashed>>

Embed(a) ==
    /\ actor[a].pc = "embed"
    /\ \/ Put(a, [actor[a] EXCEPT !.pc = "store", !.vec = embedder])
       \/ Raises(a)
    /\ UNCHANGED <<embedder_selected, llm_selected, embedder, db, procedures, store, ops, synced, adrift, clashed>>

\* add_point: Qdrant takes vectors of the collection's size.  A point with the
\* same id is replaced (old).
add_point(c, old, what, vec, how) ==
    /\ db[c].there /\ db[c].size = Size[vec]
    /\ db' = [db EXCEPT ![c].points = (@ \ old) \union {[what |-> what, by |-> vec, how |-> how]}]

\* How a vector that the server made itself is stored now.
Stored(vec) == IF Alike(vec, embedder) /\ \A a \in Actors : ~Loading(a) THEN "direct" ELSE "across"

AddTrigger(a) ==
    /\ actor[a].pc = "store"
    /\ \/ \E w \in actor[a].todo :
             /\ add_point("procedural", {}, w, actor[a].vec, Stored(actor[a].vec))
             /\ Done(a, actor[a].todo \ {w})
       \/ Raises(a) /\ UNCHANGED <<db, synced>>
    /\ UNCHANGED <<embedder_selected, llm_selected, embedder, procedures, store, ops, adrift, clashed>>

-----------------------------------------------------------------------------
(* Requests on the event loop, documents, restarts *)

\* A plugin is toggled: the plugin manager syncs.
TogglePlugin(p) ==
    /\ Request("loop", [Idle EXCEPT !.pc = "scan"])
    /\ procedures' = IF p \in procedures THEN procedures \ {p} ELSE procedures \union {p}
    /\ UNCHANGED <<embedder_selected, llm_selected, embedder, db, store, adrift>>

\* Collections are deleted, then the memory is loaded and the plugins are synced.
Wipe(cs) ==
    /\ Request("loop", [Idle EXCEPT !.pc = "query"])
    /\ db' = [c \in Names |-> IF c \in cs THEN Absent ELSE db[c]]
    /\ UNCHANGED <<embedder_selected, llm_selected, embedder, procedures, store, adrift>>

wipe_collections == Wipe(Names)

wipe_single_collection(c) == Wipe({c})

\* A chunk of a document, a chat message or a point of create_memory_point or
\* edit_memory_point.
EmbedDocument(c) ==
    /\ Up /\ store.vec = NotSet
    /\ store' = [coll |-> c, vec |-> embedder, import |-> FALSE]
    /\ UNCHANGED <<embedder_selected, llm_selected, embedder, db, procedures, actor, ops, synced, adrift, clashed>>

NoDocument == [coll |-> "declarative", vec |-> NotSet, import |-> FALSE]

StoreDocument ==
    /\ store.vec # NotSet /\ ~store.import
    /\ add_point(store.coll, {}, "document", store.vec, Stored(store.vec)) \/ UNCHANGED db
    /\ store' = NoDocument
    /\ UNCHANGED <<embedder_selected, llm_selected, embedder, procedures, actor, ops, synced, adrift, clashed>>

\* The vector is that of a new text for a point that was there.
edit_memory_point ==
    /\ store.vec # NotSet /\ ~store.import
    /\ \E p \in db[store.coll].points :
          add_point(store.coll, {p}, "document", store.vec, Stored(store.vec))
    /\ store' = NoDocument
    /\ UNCHANGED <<embedder_selected, llm_selected, embedder, procedures, actor, ops, synced, adrift, clashed>>

\* ingest_memory compares the class of the embedder in use with that of the export,
\* which may be of another model ...
ingest_memory(e) ==
    /\ Up /\ store.vec = NotSet
    /\ Class[e] = Class[embedder]
    /\ store' = [coll |-> "declarative", vec |-> e, import |-> TRUE]
    /\ UNCHANGED <<embedder_selected, llm_selected, embedder, db, procedures, actor, ops, synced, adrift, clashed>>

\* ... and stores its vectors as they are, over points with the same ids.  It compares
\* their length first, as Qdrant does when it takes them.
StoreImport ==
    /\ store.vec # NotSet /\ store.import
    /\ \/ \E old \in {{}} \union {{p} : p \in db["declarative"].points} :
             add_point("declarative", old, "document", store.vec, "import")
       \/ UNCHANGED db
    /\ store' = NoDocument
    /\ UNCHANGED <<embedder_selected, llm_selected, embedder, procedures, actor, ops, synced, adrift, clashed>>

\* A point of any collection is deleted, although others say that the procedural
\* memory is read-only.
delete_memory_point(c) ==
    /\ Up /\ actor["loop"].pc = "idle" /\ ops < MaxOps
    /\ \E p \in db[c].points : db' = [db EXCEPT ![c].points = @ \ {p}]
    /\ ops' = ops + 1
    /\ synced' = (synced /\ c # "procedural")
    /\ clashed' = (clashed \/ actor["route"].pc # "idle")
    /\ UNCHANGED <<embedder_selected, llm_selected, embedder, procedures, actor, store, adrift>>

\* The process dies and CheshireCat.__init__ starts over with what is stored.
Boot ==
    /\ ops < MaxOps /\ ops' = ops + 1
    /\ actor' = [a \in Actors |-> IF a = "loop" THEN [Idle EXCEPT !.pc = "natural", !.boot = TRUE] ELSE Idle]
    /\ store' = NoDocument
    /\ synced' = FALSE
    /\ UNCHANGED <<embedder_selected, llm_selected, embedder, db, procedures, adrift, clashed>>

-----------------------------------------------------------------------------
\* The first start, with an empty database.
Init ==
    /\ embedder_selected = NotSet /\ llm_selected = NotSet
    /\ embedder = Dumb
    /\ db = [c \in Names |-> Absent]
    /\ procedures = Procedures
    /\ actor = [a \in Actors |-> IF a = "loop" THEN [Idle EXCEPT !.pc = "natural", !.boot = TRUE] ELSE Idle]
    /\ store = NoDocument
    /\ ops = 0
    /\ synced = FALSE /\ adrift = FALSE /\ clashed = FALSE

Next ==
    \/ \E e \in Embedders : upsert_embedder_setting(e)
    \/ \E e \in Vendors : upsert_llm_setting(e)
    \/ \E a \in Actors : load_natural_language(a) \/ load_memory(a) \/ Ensure(a)
                         \/ Scan(a) \/ Embed(a) \/ AddTrigger(a)
    \/ Undo \/ Restore
    \/ \E p \in Procedures : TogglePlugin(p)
    \/ wipe_collections
    \/ \E c \in Names : wipe_single_collection(c)
    \/ \E c \in Written : EmbedDocument(c)
    \/ StoreDocument \/ edit_memory_point
    \/ \E e \in Exports : ingest_memory(e)
    \/ StoreImport
    \/ \E c \in Names : delete_memory_point(c)
    \/ Boot

Spec == Init /\ [][Next]_vars

-----------------------------------------------------------------------------
(* Properties *)

\* When no change is under way, a collection has the size and the name of the embedder
\* in use, and so have the embedders that made its points, apart from points that were
\* stored across a change, which nothing prevents, and imported ones, of which only the
\* class is compared.  This holds after restarts in the middle of a change and after
\* models that cannot be loaded, but not after a change that failed half way, whose
\* roll back does not touch the collections, nor after two changes at once
\* (check_embedding_size, "having the same size does not necessarily imply being the
\* same embedder"; nor does having the same name, if it is "default_embedder").
OneVectorSpace ==
    (\A a \in Actors : ~Loading(a)) /\ ~adrift /\ ~clashed => Matching

\* After embed_procedures has finished, the procedural memory has the triggers of
\* the active plugins and no others, whatever attempts failed half way before and
\* whatever was deleted through the API.
ProceduresSynced == synced /\ ~clashed => Embedded = procedures
=============================================================================
