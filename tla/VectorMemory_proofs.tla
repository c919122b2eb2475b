------------------------ MODULE VectorMemory_proofs ------------------------
(***************************************************************************)
(* Proofs about VectorMemory for any set of embedders and plugins and any  *)
(* number of requests and restarts.                                        *)
(***************************************************************************)
EXTENDS VectorMemory, TLAPS

Stages == {"idle", "natural", "query", "ensure", "undo", "restore", "down", "scan", "embed", "store"}

MaybeEmbedder == Embedders \union {NotSet}

Point ==
    [what : Procedures \union {"document"}, by : MaybeEmbedder, how : {"direct", "across", "import"}]

Collection ==
    [there : BOOLEAN, size : Nat, alias : {Name[e] : e \in Embedders} \union {NotSet},
     points : SUBSET Point]

Document == [coll : {"episodic", "declarative"}, vec : MaybeEmbedder, import : BOOLEAN]

Actor ==
    [pc : Stages, boot : BOOLEAN, llm : BOOLEAN, prev : MaybeEmbedder, new : MaybeEmbedder,
     k : 1 .. 3, todo : SUBSET Procedures, vec : MaybeEmbedder]

TypeOK ==
    /\ embedder_selected \in MaybeEmbedder /\ llm_selected \in MaybeEmbedder
    /\ embedder \in Embedders
    /\ db \in [Names -> Collection]
    /\ procedures \subseteq Procedures
    /\ actor \in [Actors -> Actor]
    /\ store \in Document
    /\ ops \in Nat

\* What the stages of an actor imply: only a start and the settings route load
\* the embedder, only the route rolls back, and the collections are ensured for
\* an embedder.
StagesOK ==
    /\ ~actor["route"].boot
    /\ actor["loop"].pc = "natural" => actor["loop"].boot
    /\ actor["loop"].pc \notin {"undo", "restore"} /\ actor["route"].pc # "down"
    /\ actor["route"].pc = "restore" => actor["route"].prev # NotSet
    /\ \A a \in Actors : actor[a].pc = "ensure" => actor[a].new # NotSet

\* Without a clash one actor at most is at work.
OneAtWork == ~clashed => \E a \in Actors : actor[a].pc = "idle"

\* A collection has the size and alias of one embedder, and so have the embedders that
\* made its points, but for those that were stored across a change or imported.
Pure(c) ==
    c.there => \E e \in Embedders : /\ c.size = Size[e] /\ c.alias = Name[e]
                                    /\ \A p \in c.points : p.how = "direct" => Alike(p.by, e)

\* load_memory has reached the k-th collection: those before it fit.
Ensured(a) ==
    actor[a].pc = "ensure" =>
        /\ actor[a].new = embedder
        /\ \A i \in 1 .. actor[a].k - 1 : Fits(db[Collections[i]], embedder)

\* Actor a, with the record r, loads but has not changed the embedder: a wipe never
\* does, and the route has not yet.
Settled(a, r) ==
    \/ a = "loop" /\ r.pc \in {"query", "ensure"} /\ ~r.boot
    \/ a = "route" /\ r.pc = "natural"

\* So the collections fit all along.
SettledMatches == \A a \in Actors : Settled(a, actor[a]) => Matching

Spaces ==
    ~adrift /\ ~clashed =>
        /\ \A c \in Names : Pure(db[c])
        /\ \A a \in Actors : Ensured(a)
        /\ SettledMatches

\* embed_procedures is on its way: what has a point and what has yet to get one
\* are the active procedures; and the history variable says synced only at rest.
OnTheWay ==
    ~clashed =>
        /\ \A a \in Actors : actor[a].pc \in {"embed", "store"} => Embedded \union actor[a].todo = procedures
        /\ synced => \A a \in Actors : actor[a].pc = "idle"

\* The inductive invariant.
IInv ==
    /\ TypeOK /\ StagesOK /\ OneAtWork
    /\ Spaces /\ OneVectorSpace
    /\ OnTheWay /\ ProceduresSynced

-----------------------------------------------------------------------------
(* Collections and actors *)

\* The three collections.
LEMMA NamesFacts ==
    /\ Names = {"episodic", "declarative", "procedural"}
    /\ Collections[1] = "episodic" /\ Collections[2] = "declarative" /\ Collections[3] = "procedural"
    /\ \A i \in 1 .. 3 : Collections[i] \in Names
    /\ \A c \in Names : \E i \in 1 .. 3 : c = Collections[i]
<1>1. Collections[1] = "episodic" /\ Collections[2] = "declarative" /\ Collections[3] = "procedural"
  BY DEF Collections
<1>2. DOMAIN Collections = 1 .. 3
  BY DEF Collections
<1>3. \A i \in 1 .. 3 : i = 1 \/ i = 2 \/ i = 3
  OBVIOUS
<1>4. Names = {"episodic", "declarative", "procedural"}
  BY <1>1, <1>2, <1>3 DEF Names
<1> QED
  BY <1>1, <1>3, <1>4

\* Absent and new collections.
LEMMA CollectionFacts ==
    /\ Absent \in Collection /\ ~Absent.there /\ Absent.points = {}
    /\ \A e \in Embedders :
          /\ Created(e) \in Collection /\ Created(e).there /\ Created(e).points = {}
          /\ Created(e).size = Size[e] /\ Created(e).alias = Name[e]
<1>1. Absent \in Collection /\ ~Absent.there /\ Absent.points = {}
  BY DEF Absent, Collection
<1>2. ASSUME NEW e \in Embedders
      PROVE  /\ Created(e) \in Collection /\ Created(e).there /\ Created(e).points = {}
             /\ Created(e).size = Size[e] /\ Created(e).alias = Name[e]
  BY EmbedderAssumption DEF Created, Collection
<1> QED
  BY <1>1, <1>2

\* What the record of an actor has to satisfy.
RecordOK(a, r) ==
    /\ r \in Actor /\ (r.pc = "ensure" => r.new # NotSet)
    /\ a = "route" => ~r.boot /\ r.pc # "down" /\ (r.pc = "restore" => r.prev # NotSet)
    /\ a = "loop" => (r.pc = "natural" => r.boot) /\ r.pc \notin {"undo", "restore"}

\* An actor at rest.
LEMMA IdleFacts ==
    /\ Idle \in Actor /\ Idle.pc = "idle" /\ Idle.boot = FALSE /\ Idle.prev = NotSet
    /\ \A a \in Actors : RecordOK(a, Idle)
<1>1. Idle \in Actor
  BY DEF Idle, Actor, Stages, MaybeEmbedder
<1>2. Idle.pc = "idle" /\ Idle.boot = FALSE /\ Idle.prev = NotSet
  BY DEF Idle
<1> QED
  BY <1>1, <1>2 DEF RecordOK

\* The record of an actor.
LEMMA ActorFacts ==
    ASSUME IInv, NEW a \in Actors
    PROVE  actor[a] \in Actor /\ RecordOK(a, actor[a])
<1>1. actor[a] \in Actor
  BY DEF IInv, TypeOK
<1>2. RecordOK(a, actor[a])
  BY <1>1 DEF RecordOK, IInv, StagesOK
<1> QED
  BY <1>1, <1>2

\* An actor moves.
LEMMA MoveFacts ==
    ASSUME IInv, NEW a \in Actors, NEW r, RecordOK(a, r), Put(a, r), clashed => clashed',
           actor[a].pc # "idle" \/ clashed' \/ \A b \in Actors \ {a} : actor[b].pc = "idle"
    PROVE  /\ actor' \in [Actors -> Actor] /\ StagesOK' /\ OneAtWork'
           /\ actor'[a] = r /\ \A b \in Actors \ {a} : actor'[b] = actor[b]
<1>1. actor \in [Actors -> Actor] /\ r \in Actor /\ actor' = [actor EXCEPT ![a] = r]
  BY DEF IInv, TypeOK, RecordOK, Put
<1>2. /\ actor' \in [Actors -> Actor]
      /\ actor'[a] = r /\ \A b \in Actors \ {a} : actor'[b] = actor[b]
  BY <1>1
<1>3. a = "loop" \/ a = "route"
  BY DEF Actors
<1>4. "loop" \in Actors /\ "route" \in Actors
  BY DEF Actors
<1>5. StagesOK'
  BY <1>2, <1>3, <1>4 DEF IInv, StagesOK, RecordOK
<1>6. OneAtWork'
  <2>1. SUFFICES ASSUME ~clashed' PROVE \E b \in Actors : actor'[b].pc = "idle"
    BY DEF OneAtWork
  <2>2. PICK b \in Actors : actor[b].pc = "idle"
    BY <2>1 DEF IInv, OneAtWork
  <2>3. \E d \in Actors \ {a} : actor[d].pc = "idle"
    BY <2>1, <2>2, <1>3, <1>4
  <2> QED
    BY <2>3, <1>2
<1> QED
  BY <1>2, <1>5, <1>6

\* A collection is deleted, loses points, or gains one that was stored across a
\* change, was imported, or was made by such an embedder while no change was under way.
Harmless(c, d) ==
    d.there =>
        /\ c.there /\ d.size = c.size /\ d.alias = c.alias
        /\ \A p \in d.points : \/ p \in c.points
                               \/ p.how # "direct"
                               \/ Alike(p.by, embedder) /\ \A a \in Actors : ~Loading(a)

\* Such changes of the collections keep them pure and fitting.
LEMMA HarmlessStep ==
    ASSUME IInv, ~adrift, ~clashed, \A c \in Names : Harmless(db[c], db'[c])
    PROVE  /\ \A c \in Names : Pure(db'[c])
           /\ \A c \in Names : Fits(db[c], embedder) => Fits(db'[c], embedder)
           /\ Matching => \A c \in Names : Fits(db'[c], embedder)
<1>1. \A c \in Names : Fits(db[c], embedder) => Fits(db'[c], embedder)
  BY DEF Harmless, Fits
<1>2. ASSUME NEW c \in Names PROVE Pure(db'[c])
  <2>1. CASE \A a \in Actors : ~Loading(a)
    <3>1. Matching
      BY <2>1 DEF IInv, OneVectorSpace
    <3>2. Fits(db'[c], embedder) /\ embedder \in Embedders
      BY <1>1, <3>1 DEF Matching, IInv, TypeOK
    <3> QED
      BY <3>2 DEF Fits, Pure, Alike
  <2>2. CASE ~\A a \in Actors : ~Loading(a)
    <3>1. Pure(db[c])
      BY DEF IInv, Spaces
    <3>2. CASE ~db'[c].there
      BY <3>2 DEF Pure
    <3>3. CASE db'[c].there
      <4>1. db[c].there
        BY <3>3 DEF Harmless
      <4>2. PICK e \in Embedders : /\ db[c].size = Size[e] /\ db[c].alias = Name[e]
                                   /\ \A p \in db[c].points : p.how = "direct" => Alike(p.by, e)
        BY <3>1, <4>1 DEF Pure
      <4>3. db'[c].size = Size[e] /\ db'[c].alias = Name[e] /\ \A p \in db'[c].points : p.how = "direct" => Alike(p.by, e)
        BY <2>2, <3>3, <4>2 DEF Harmless
      <4> QED
        BY <4>3 DEF Pure
    <3> QED
      BY <3>2, <3>3
  <2> QED
    BY <2>1, <2>2
<1>3. Matching => \A c \in Names : Fits(db'[c], embedder)
  BY <1>1 DEF Matching
<1> QED
  BY <1>1, <1>2, <1>3

LoadStages == {"natural", "query", "ensure", "undo", "restore", "down"}

\* Without a clash the other actor rests, and nothing is synced.
LEMMA Alone ==
    ASSUME IInv, ~clashed, NEW a \in Actors, actor[a].pc # "idle"
    PROVE  ~synced /\ \A b \in Actors \ {a} : actor[b].pc = "idle"
<1>1. ~synced
  BY DEF IInv, OnTheWay
<1>2. PICK d \in Actors : actor[d].pc = "idle"
  BY DEF IInv, OneAtWork
<1>3. \A b \in Actors \ {a} : b = d
  BY <1>2 DEF Actors
<1> QED
  BY <1>1, <1>2, <1>3

\* A step that leaves the embedder and changes collections harmlessly.
LEMMA SpaceStep ==
    ASSUME IInv, embedder' = embedder, \A c \in Names : Harmless(db[c], db'[c]),
           adrift => adrift', clashed => clashed',
           ~adrift' /\ ~clashed' =>
              /\ \A b \in Actors : actor'[b].pc = "ensure" =>
                    /\ actor'[b].new = embedder /\ actor'[b].k \in 1 .. 3
                    /\ actor'[b].k = 1 \/ (actor[b].pc = "ensure" /\ actor'[b].k = actor[b].k)
              /\ (\A b \in Actors : actor'[b].pc \notin LoadStages) => Matching
              /\ \A b \in Actors : Settled(b, actor'[b]) => Matching
    PROVE  Spaces' /\ OneVectorSpace'
<1>1. SUFFICES ASSUME ~adrift', ~clashed'
               PROVE  /\ \A c \in Names : Pure(db'[c])
                      /\ \A a \in Actors : Ensured(a)'
                      /\ SettledMatches'
                      /\ (\A a \in Actors : ~Loading(a)') => Matching'
  BY DEF Spaces, OneVectorSpace, Pure, Ensured, Fits, Loading
<1>2. /\ \A c \in Names : Pure(db'[c])
      /\ \A c \in Names : Fits(db[c], embedder) => Fits(db'[c], embedder)
      /\ Matching => \A c \in Names : Fits(db'[c], embedder)
  BY <1>1, HarmlessStep
<1>3. Matching => Matching'
  BY <1>2 DEF Matching, Fits
<1>4. ASSUME NEW a \in Actors, actor'[a].pc = "ensure", NEW i \in 1 .. actor'[a].k - 1
      PROVE  Fits(db'[Collections[i]], embedder')
  <2>1. actor'[a].k \in 1 .. 3 /\ actor'[a].k # 1
    BY <1>1, <1>4
  <2>2. i \in 1 .. 3 /\ i \in 1 .. actor[a].k - 1 /\ actor[a].pc = "ensure"
    BY <1>1, <1>4, <2>1
  <2>3. Fits(db[Collections[i]], embedder)
    BY <1>1, <2>2 DEF IInv, Spaces, Ensured
  <2> QED
    BY <1>2, <2>2, <2>3, NamesFacts
<1>5. \A a \in Actors : Ensured(a)'
  BY <1>1, <1>4 DEF Ensured, Fits
<1>6. SettledMatches'
  BY <1>1, <1>3 DEF SettledMatches
<1>7. (\A a \in Actors : ~Loading(a)') => Matching'
  BY <1>1, <1>3 DEF Loading, LoadStages
<1> QED
  BY <1>2, <1>5, <1>6, <1>7

\* A step during or before which nothing is embedded for procedures.
LEMMA RestStep ==
    ASSUME clashed' \/ (~synced' /\ \A b \in Actors : actor'[b].pc \notin {"embed", "store"})
    PROVE  OnTheWay' /\ ProceduresSynced'
  BY DEF OnTheWay, ProceduresSynced

\* A step that leaves the procedural points and the procedures alone.
LEMMA KeepStep ==
    ASSUME IInv, Embedded' = Embedded, procedures' = procedures, clashed => clashed',
           ~clashed' => /\ synced' => synced /\ \A b \in Actors : actor'[b].pc = "idle"
                        /\ \A b \in Actors : actor'[b].pc \in {"embed", "store"} =>
                              actor[b].pc \in {"embed", "store"} /\ actor'[b].todo = actor[b].todo
    PROVE  OnTheWay' /\ ProceduresSynced'
  BY DEF IInv, OnTheWay, ProceduresSynced

-----------------------------------------------------------------------------
(* Requests *)

\* A request begins, when both actors rest or a clash is recorded.
LEMMA RequestStep ==
    ASSUME IInv, NEW a \in Actors, NEW r, RecordOK(a, r), r.pc \in {"natural", "query", "scan"},
           actor[a].pc = "idle", actor' = [actor EXCEPT ![a] = r], ops' = ops + 1, ~synced',
           clashed' <=> (clashed \/ \E b \in Actors \ {a} : actor[b].pc # "idle"),
           embedder' = embedder, adrift' = adrift, store' = store,
           embedder_selected' \in MaybeEmbedder, llm_selected' \in MaybeEmbedder,
           procedures' \subseteq Procedures, db' \in [Names -> Collection],
           \A c \in Names : Harmless(db[c], db'[c])
    PROVE  IInv'
<1>1. Put(a, r)
  BY DEF Put
<1>2. clashed => clashed'
  OBVIOUS
<1>3. clashed' \/ \A b \in Actors \ {a} : actor[b].pc = "idle"
  OBVIOUS
<1>4. /\ actor' \in [Actors -> Actor] /\ StagesOK' /\ OneAtWork'
      /\ actor'[a] = r /\ \A b \in Actors \ {a} : actor'[b] = actor[b]
  BY <1>1, <1>2, <1>3, MoveFacts DEF Put
<1>5. TypeOK'
  BY <1>1, <1>2, <1>4 DEF IInv, TypeOK
<1>6. ~adrift' /\ ~clashed' => Matching
  <2>1. SUFFICES ASSUME ~adrift', ~clashed' PROVE Matching
    OBVIOUS
  <2>2. \A b \in Actors : actor[b].pc = "idle"
    BY <1>1, <1>3, <2>1
  <2> QED
    BY <1>2, <2>1, <2>2 DEF IInv, OneVectorSpace, Loading
<1>7. ~clashed' => \A b \in Actors : actor'[b].pc \notin {"ensure", "embed", "store"}
  BY <1>3, <1>4
<1>8. ~adrift' /\ ~clashed' =>
         /\ \A b \in Actors : actor'[b].pc = "ensure" =>
               /\ actor'[b].new = embedder /\ actor'[b].k \in 1 .. 3
               /\ actor'[b].k = 1 \/ (actor[b].pc = "ensure" /\ actor'[b].k = actor[b].k)
         /\ (\A b \in Actors : actor'[b].pc \notin LoadStages) => Matching
         /\ \A b \in Actors : Settled(b, actor'[b]) => Matching
  BY <1>6, <1>7
<1>9. Spaces' /\ OneVectorSpace'
  BY <1>2, <1>8, SpaceStep
<1>10. OnTheWay' /\ ProceduresSynced'
  BY <1>1, <1>7, RestStep
<1> QED
  BY <1>4, <1>5, <1>9, <1>10 DEF IInv

\* Collections that do not change.
LEMMA SameDb ==
    ASSUME db' = db
    PROVE  \A c \in Names : Harmless(db[c], db'[c])
  BY DEF Harmless

\* A change of the embedder is asked for.
LEMMA upsert_embedder_settingStep ==
    ASSUME IInv, NEW e \in Embedders, upsert_embedder_setting(e)
    PROVE  IInv'
<1> DEFINE r == [Idle EXCEPT !.pc = "natural", !.prev = embedder_selected]
<1>1. embedder_selected \in MaybeEmbedder
  BY DEF IInv, TypeOK
<1>2. RecordOK("route", r) /\ r.pc = "natural"
  BY <1>1, IdleFacts DEF RecordOK, Actor, Stages
<1>3. /\ actor["route"].pc = "idle" /\ actor' = [actor EXCEPT !["route"] = r] /\ ops' = ops + 1 /\ ~synced'
      /\ clashed' <=> (clashed \/ \E b \in Actors \ {"route"} : actor[b].pc # "idle")
      /\ embedder_selected' = e
      /\ UNCHANGED <<llm_selected, embedder, db, procedures, store, adrift>>
  BY DEF upsert_embedder_setting, Request, Put
<1>4. "route" \in Actors
  BY DEF Actors
<1> HIDE DEF r
<1> QED
  BY <1>2, <1>3, <1>4, SameDb, RequestStep DEF IInv, TypeOK, MaybeEmbedder

\* A change of the LLM is asked for.
LEMMA upsert_llm_settingStep ==
    ASSUME IInv, NEW e \in Vendors, upsert_llm_setting(e)
    PROVE  IInv'
<1> DEFINE r == [Idle EXCEPT !.pc = "natural", !.llm = TRUE]
<1>1. RecordOK("route", r) /\ r.pc = "natural"
  BY IdleFacts DEF RecordOK, Actor, Stages
<1>2. /\ actor["route"].pc = "idle" /\ actor' = [actor EXCEPT !["route"] = r] /\ ops' = ops + 1 /\ ~synced'
      /\ clashed' <=> (clashed \/ \E b \in Actors \ {"route"} : actor[b].pc # "idle")
      /\ llm_selected' = e
      /\ UNCHANGED <<embedder_selected, embedder, db, procedures, store, adrift>>
  BY DEF upsert_llm_setting, Request, Put
<1>3. "route" \in Actors /\ e \in Embedders
  BY EmbedderAssumption DEF Actors
<1> HIDE DEF r
<1> QED
  BY <1>1, <1>2, <1>3, SameDb, RequestStep DEF IInv, TypeOK, MaybeEmbedder

\* A plugin is toggled.
LEMMA TogglePluginStep ==
    ASSUME IInv, NEW p \in Procedures, TogglePlugin(p)
    PROVE  IInv'
<1> DEFINE r == [Idle EXCEPT !.pc = "scan"]
<1>1. RecordOK("loop", r) /\ r.pc = "scan"
  BY IdleFacts DEF RecordOK, Actor, Stages
<1>2. /\ actor["loop"].pc = "idle" /\ actor' = [actor EXCEPT !["loop"] = r] /\ ops' = ops + 1 /\ ~synced'
      /\ clashed' <=> (clashed \/ \E b \in Actors \ {"loop"} : actor[b].pc # "idle")
     
      /\ procedures' = IF p \in procedures THEN procedures \ {p} ELSE procedures \union {p}
      /\ UNCHANGED <<embedder_selected, llm_selected, embedder, db, store, adrift>>
  BY DEF TogglePlugin, Request, Put
<1>3. "loop" \in Actors /\ procedures' \subseteq Procedures
  BY <1>2 DEF Actors, IInv, TypeOK
<1> HIDE DEF r
<1> QED
  BY <1>1, <1>2, <1>3, SameDb, RequestStep DEF IInv, TypeOK

\* Collections are wiped.
LEMMA WipeStep ==
    ASSUME IInv, NEW cs, Wipe(cs)
    PROVE  IInv'
<1> DEFINE r == [Idle EXCEPT !.pc = "query"]
<1>1. RecordOK("loop", r) /\ r.pc = "query"
  BY IdleFacts DEF RecordOK, Actor, Stages
<1>2. /\ actor["loop"].pc = "idle" /\ actor' = [actor EXCEPT !["loop"] = r] /\ ops' = ops + 1 /\ ~synced'
      /\ clashed' <=> (clashed \/ \E b \in Actors \ {"loop"} : actor[b].pc # "idle")
     
      /\ db' = [c \in Names |-> IF c \in cs THEN Absent ELSE db[c]]
      /\ UNCHANGED <<embedder_selected, llm_selected, embedder, procedures, store, adrift>>
  BY DEF Wipe, Request, Put
<1>3. "loop" \in Actors
  BY DEF Actors
<1>4. db' \in [Names -> Collection]
  BY <1>2, CollectionFacts DEF IInv, TypeOK
<1>5. \A c \in Names : Harmless(db[c], db'[c])
  BY <1>2, CollectionFacts DEF Harmless
<1> HIDE DEF r
<1> QED
  BY <1>1, <1>2, <1>3, <1>4, <1>5, RequestStep DEF IInv, TypeOK

-----------------------------------------------------------------------------
(* Steps of an actor at work *)

\* An actor moves on, and leaves the embedder.
LEMMA ActorStep ==
    ASSUME IInv, NEW a \in Actors, actor[a].pc # "idle", NEW r, RecordOK(a, r),
           actor' = [actor EXCEPT ![a] = r], clashed' <=> clashed, adrift => adrift',
           embedder' = embedder, procedures' = procedures, store' = store, ops' = ops,
           embedder_selected' \in MaybeEmbedder, llm_selected' \in MaybeEmbedder,
           db' \in [Names -> Collection], \A c \in Names : Harmless(db[c], db'[c]),
           ~adrift' /\ ~clashed =>
              /\ r.pc = "ensure" => r.new = embedder /\ r.k = 1
              /\ r.pc \notin LoadStages => Matching
              /\ Settled(a, r) => Matching
    PROVE  /\ TypeOK' /\ StagesOK' /\ OneAtWork' /\ Spaces' /\ OneVectorSpace'
           /\ actor'[a] = r
           /\ ~clashed => \A b \in Actors \ {a} : actor'[b].pc = "idle"
<1>1. Put(a, r)
  BY DEF Put
<1>2. /\ actor' \in [Actors -> Actor] /\ StagesOK' /\ OneAtWork'
      /\ actor'[a] = r /\ \A b \in Actors \ {a} : actor'[b] = actor[b]
  BY <1>1, MoveFacts
<1>3. TypeOK'
  BY <1>2 DEF IInv, TypeOK
<1>4. ~clashed => \A b \in Actors \ {a} : actor'[b].pc = "idle"
  BY <1>2, Alone
<1>5. a = "loop" \/ a = "route"
  BY DEF Actors
<1>6. ~adrift' /\ ~clashed' =>
         /\ \A b \in Actors : actor'[b].pc = "ensure" =>
               /\ actor'[b].new = embedder /\ actor'[b].k \in 1 .. 3
               /\ actor'[b].k = 1 \/ (actor[b].pc = "ensure" /\ actor'[b].k = actor[b].k)
         /\ (\A b \in Actors : actor'[b].pc \notin LoadStages) => Matching
         /\ \A b \in Actors : Settled(b, actor'[b]) => Matching
  <2>1. SUFFICES ASSUME ~adrift', ~clashed'
                 PROVE  /\ \A b \in Actors : actor'[b].pc = "ensure" =>
                              /\ actor'[b].new = embedder /\ actor'[b].k \in 1 .. 3
                              /\ actor'[b].k = 1 \/ (actor[b].pc = "ensure" /\ actor'[b].k = actor[b].k)
                        /\ (\A b \in Actors : actor'[b].pc \notin LoadStages) => Matching
                        /\ \A b \in Actors : Settled(b, actor'[b]) => Matching
    OBVIOUS
  <2>2. \A b \in Actors : actor'[b].pc = "ensure" => b = a
    BY <2>1, <1>4
  <2>3. \A b \in Actors : actor'[b].pc = "ensure" => actor'[b].new = embedder /\ actor'[b].k = 1
    BY <2>1, <2>2, <1>2
  <2>4. (\A b \in Actors : actor'[b].pc \notin LoadStages) => Matching
    BY <2>1, <1>2
  <2>5. ASSUME NEW b \in Actors, Settled(b, actor'[b]) PROVE Matching
    <3>1. b = a
      BY <2>1, <2>5, <1>4 DEF Settled
    <3> QED
      BY <2>1, <2>5, <3>1, <1>2
  <2> QED
    BY <2>3, <2>4, <2>5
<1>7. Spaces' /\ OneVectorSpace'
  BY <1>6, SpaceStep
<1> QED
  BY <1>2, <1>3, <1>4, <1>7

\* A record whose stage alone changes.
LEMMA StageRecord ==
    ASSUME NEW r \in Actor, NEW pc \in Stages
    PROVE  LET q == [r EXCEPT !.pc = pc]
           IN  /\ q \in Actor /\ q.pc = pc /\ q.boot = r.boot /\ q.prev = r.prev
               /\ q.new = r.new /\ q.k = r.k /\ q.todo = r.todo
  BY DEF Actor

\* The record of an actor whose load_memory raised.
FailedRecord(a) ==
    IF a = "route" THEN [actor[a] EXCEPT !.pc = "undo"]
    ELSE [Idle EXCEPT !.pc = IF actor[a].boot THEN "down" ELSE "idle"]

\* Only a wipe that fails leaves the actor idle.
LEMMA FailedFacts ==
    ASSUME IInv, NEW a \in Actors
    PROVE  /\ RecordOK(a, FailedRecord(a))
           /\ FailedRecord(a).pc \in {"undo", "down", "idle"}
           /\ FailedRecord(a).pc = "idle" => a = "loop" /\ ~actor[a].boot
           /\ Failed(a) <=> Put(a, FailedRecord(a))
<1>1. Failed(a) <=> Put(a, FailedRecord(a))
  BY DEF Failed, FailedRecord
<1>2. actor[a] \in Actor /\ RecordOK(a, actor[a])
  BY ActorFacts
<1>3. CASE a = "route"
  <2>1. FailedRecord(a) = [actor[a] EXCEPT !.pc = "undo"]
    BY <1>3 DEF FailedRecord
  <2>2. "undo" \in Stages
    BY DEF Stages
  <2>3. FailedRecord(a) \in Actor /\ FailedRecord(a).pc = "undo" /\ FailedRecord(a).boot = actor[a].boot
    BY <2>1, <2>2, <1>2, StageRecord
  <2> QED
    BY <1>1, <1>2, <1>3, <2>3 DEF RecordOK
<1>4. CASE a = "loop"
  <2> DEFINE pc == IF actor[a].boot THEN "down" ELSE "idle"
  <2>1. FailedRecord(a) = [Idle EXCEPT !.pc = pc]
    BY <1>4 DEF FailedRecord
  <2>2. pc \in Stages
    BY DEF Stages
  <2>3. FailedRecord(a) \in Actor /\ FailedRecord(a).pc = pc
    <3> HIDE DEF pc
    <3> QED
      BY <2>1, <2>2, IdleFacts, StageRecord
  <2> QED
    BY <1>1, <1>4, <2>3 DEF RecordOK
<1> QED
  BY <1>3, <1>4 DEF Actors

\* The record of an actor that raised outside load_memory.
RaisedRecord(a) == [Idle EXCEPT !.pc = IF actor[a].boot THEN "down" ELSE "idle"]

\* A start that raised is over.
LEMMA RaisedFacts ==
    ASSUME IInv, NEW a \in Actors
    PROVE  /\ RecordOK(a, RaisedRecord(a))
           /\ RaisedRecord(a).pc = IF actor[a].boot THEN "down" ELSE "idle"
           /\ Raises(a) <=> Put(a, RaisedRecord(a))
<1> DEFINE pc == IF actor[a].boot THEN "down" ELSE "idle"
<1>1. RaisedRecord(a) = [Idle EXCEPT !.pc = pc] /\ (Raises(a) <=> Put(a, RaisedRecord(a)))
  BY DEF RaisedRecord, Raises
<1>2. pc \in Stages /\ pc \in {"down", "idle"} /\ (a = "route" => pc = "idle")
  BY ActorFacts DEF Stages, RecordOK
<1>3. pc = IF actor[a].boot THEN "down" ELSE "idle"
  OBVIOUS
<1> HIDE DEF pc
<1>4. RaisedRecord(a) \in Actor /\ RaisedRecord(a).pc = pc /\ RaisedRecord(a).boot = FALSE
  BY <1>1, <1>2, IdleFacts, StageRecord
<1>5. RecordOK(a, RaisedRecord(a))
  BY <1>2, <1>4 DEF RecordOK
<1> QED
  BY <1>1, <1>3, <1>4, <1>5

\* The record of an actor that goes on to a collection, or past the last.
Ensuring(r, pc, e, k) == [r EXCEPT !.pc = pc, !.new = e, !.k = k]

\* Such a record keeps what is not replaced.
LEMMA EnsuringFacts ==
    ASSUME NEW r \in Actor, NEW pc \in Stages, NEW e \in MaybeEmbedder, NEW k \in 1 .. 3
    PROVE  /\ Ensuring(r, pc, e, k) \in Actor
           /\ Ensuring(r, pc, e, k).pc = pc /\ Ensuring(r, pc, e, k).boot = r.boot
           /\ Ensuring(r, pc, e, k).prev = r.prev
           /\ Ensuring(r, pc, e, k).new = e /\ Ensuring(r, pc, e, k).k = k
  BY DEF Actor, Ensuring

\* load_memory asks the embedder, or fails.
LEMMA load_memoryStep ==
    ASSUME IInv, NEW a \in Actors, load_memory(a)
    PROVE  IInv'
<1> DEFINE q == Ensuring(actor[a], "ensure", embedder, 1)
<1>1. /\ actor[a].pc = "query"
      /\ Put(a, q) \/ Put(a, FailedRecord(a))
      /\ UNCHANGED <<embedder_selected, llm_selected, embedder, db, procedures, store, ops, synced, adrift, clashed>>
  BY FailedFacts DEF load_memory, Ensuring
<1>2. actor[a] \in Actor /\ RecordOK(a, actor[a]) /\ embedder \in Embedders
  BY ActorFacts DEF IInv, TypeOK
<1>3. q \in Actor /\ q.pc = "ensure" /\ q.new = embedder /\ q.k = 1 /\ q.boot = actor[a].boot
  <2>1. "ensure" \in Stages /\ 1 \in 1 .. 3 /\ embedder \in MaybeEmbedder
    BY <1>2 DEF Stages, MaybeEmbedder
  <2> QED
    BY <1>2, <2>1, EnsuringFacts
<1> HIDE DEF q
<1>4. RecordOK(a, q)
  BY <1>2, <1>3, EmbedderAssumption DEF RecordOK
<1>5. PICK r \in {q, FailedRecord(a)} : Put(a, r)
  BY <1>1
<1>6. RecordOK(a, r) /\ r.pc \in {"ensure", "undo", "down", "idle"}
  BY <1>3, <1>4, <1>5, FailedFacts
<1>7. ~adrift' /\ ~clashed =>
         /\ r.pc = "ensure" => r.new = embedder /\ r.k = 1
         /\ r.pc \notin LoadStages => Matching
         /\ Settled(a, r) => Matching
  <2>1. ~adrift' /\ ~clashed /\ a = "loop" /\ ~actor[a].boot => Matching
    BY <1>1 DEF IInv, Spaces, SettledMatches, Settled
  <2>2. r = q \/ r = FailedRecord(a)
    BY <1>5
  <2>3. ~adrift' /\ ~clashed /\ Settled(a, r) => Matching
    BY <1>3, <1>6, <2>1, <2>2, FailedFacts DEF Settled
  <2>4. ~adrift' /\ ~clashed /\ r.pc \notin LoadStages => Matching
    BY <1>3, <2>1, <2>2, FailedFacts DEF LoadStages
  <2> QED
    BY <1>3, <2>2, <2>3, <2>4, FailedFacts
<1>8. /\ TypeOK' /\ StagesOK' /\ OneAtWork' /\ Spaces' /\ OneVectorSpace'
      /\ actor'[a] = r
      /\ ~clashed => \A b \in Actors \ {a} : actor'[b].pc = "idle"
  <2>1. actor' = [actor EXCEPT ![a] = r] /\ actor[a].pc # "idle"
    BY <1>1, <1>5 DEF Put
  <2>2. /\ embedder_selected' \in MaybeEmbedder /\ llm_selected' \in MaybeEmbedder
        /\ db' \in [Names -> Collection] /\ db' = db
    BY <1>1 DEF IInv, TypeOK
  <2> QED
    BY <1>1, <1>6, <1>7, <2>1, <2>2, SameDb, ActorStep
<1>9. ~clashed' => ~synced' /\ \A b \in Actors : actor'[b].pc \notin {"embed", "store"}
  <2>1. ~clashed' => ~synced'
    BY <1>1, Alone
  <2>2. ~clashed' => \A b \in Actors : actor'[b].pc \notin {"embed", "store"}
    BY <1>1, <1>6, <1>8
  <2> QED
    BY <2>1, <2>2
<1>10. OnTheWay' /\ ProceduresSynced'
  BY <1>9, RestStep
<1> QED
  BY <1>8, <1>10 DEF IInv

\* An actor moves on, and the embedder or the collections change.
LEMMA LoadStep ==
    ASSUME IInv, NEW a \in Actors, actor[a].pc # "idle", NEW r, RecordOK(a, r),
           actor' = [actor EXCEPT ![a] = r], clashed' <=> clashed,
           embedder' \in Embedders, procedures' = procedures, store' = store, ops' = ops,
           embedder_selected' \in MaybeEmbedder, llm_selected' \in MaybeEmbedder,
           db' \in [Names -> Collection],
           ~adrift' /\ ~clashed =>
              /\ \A c \in Names : Pure(db'[c])
              /\ r.pc = "ensure" => /\ r.new = embedder'
                                    /\ \A i \in 1 .. r.k - 1 : Fits(db'[Collections[i]], embedder')
              /\ r.pc \notin LoadStages => \A c \in Names : Fits(db'[c], embedder')
              /\ Settled(a, r) => \A c \in Names : Fits(db'[c], embedder')
    PROVE  /\ TypeOK' /\ StagesOK' /\ OneAtWork' /\ Spaces' /\ OneVectorSpace'
           /\ actor'[a] = r
           /\ ~clashed => \A b \in Actors \ {a} : actor'[b].pc = "idle"
<1>1. Put(a, r)
  BY DEF Put
<1>2. /\ actor' \in [Actors -> Actor] /\ StagesOK' /\ OneAtWork'
      /\ actor'[a] = r /\ \A b \in Actors \ {a} : actor'[b] = actor[b]
  BY <1>1, MoveFacts
<1>3. TypeOK'
  BY <1>2 DEF IInv, TypeOK
<1>4. ~clashed => \A b \in Actors \ {a} : actor'[b].pc = "idle"
  BY <1>2, Alone
<1>5. Spaces' /\ OneVectorSpace'
  <2>1. SUFFICES ASSUME ~adrift', ~clashed'
                 PROVE  /\ \A c \in Names : Pure(db'[c])
                        /\ \A b \in Actors : Ensured(b)'
                        /\ SettledMatches'
                        /\ (\A b \in Actors : ~Loading(b)') => Matching'
    BY DEF Spaces, OneVectorSpace, Pure, Ensured, Fits, Loading
  <2>2. ASSUME NEW b \in Actors PROVE Ensured(b)'
    <3>1. CASE b = a
      BY <2>1, <3>1, <1>2 DEF Ensured, Fits
    <3>2. CASE b # a
      BY <2>1, <3>2, <1>4 DEF Ensured
    <3> QED
      BY <3>1, <3>2
  <2>3. (\A c \in Names : Fits(db'[c], embedder')) => Matching'
    BY DEF Matching, Fits
  <2>4. SettledMatches'
    <3>1. SUFFICES ASSUME NEW b \in Actors, Settled(b, actor'[b]) PROVE Matching'
      BY DEF SettledMatches, Settled
    <3>2. b = a
      BY <2>1, <3>1, <1>4 DEF Settled
    <3> QED
      BY <2>1, <2>3, <3>1, <3>2, <1>2
  <2>5. (\A b \in Actors : ~Loading(b)') => Matching'
    BY <2>1, <2>3, <1>2 DEF Loading, LoadStages
  <2> QED
    BY <2>1, <2>2, <2>4, <2>5
<1> QED
  BY <1>2, <1>3, <1>4, <1>5

\* Nothing is embedded for procedures while an actor loads or has stopped.
LEMMA LoadRest ==
    ASSUME IInv, NEW a \in Actors, actor[a].pc # "idle", actor'[a].pc \notin {"embed", "store"},
           ~clashed => \A b \in Actors \ {a} : actor'[b].pc = "idle",
           clashed' <=> clashed, synced' <=> synced
    PROVE  OnTheWay' /\ ProceduresSynced'
<1>1. ~clashed' => ~synced'
  BY Alone
<1>2. ~clashed' => \A b \in Actors : actor'[b].pc \notin {"embed", "store"}
  OBVIOUS
<1> QED
  BY <1>1, <1>2, RestStep

\* A start or the settings route loads the embedder.
LEMMA EmbedderLoads ==
    ASSUME IInv, NEW a \in Actors, actor[a].pc = "natural", embedder' \in {Chosen, Dumb}, Step(a, "query"),
           UNCHANGED <<embedder_selected, llm_selected, db, procedures, store, ops, synced, adrift, clashed>>
    PROVE  IInv'
<1> DEFINE r == [actor[a] EXCEPT !.pc = "query"]
<1>1. /\ actor[a].pc = "natural" /\ embedder' \in {Chosen, Dumb}
      /\ actor' = [actor EXCEPT ![a] = r]
      /\ UNCHANGED <<embedder_selected, llm_selected, db, procedures, store, ops, synced, adrift, clashed>>
  BY DEF Step, Put
<1>2. actor[a] \in Actor /\ RecordOK(a, actor[a])
  BY ActorFacts
<1>3. embedder' \in Embedders
  BY <1>1, EmbedderAssumption DEF Chosen, IInv, TypeOK, MaybeEmbedder
<1>4. r \in Actor /\ r.pc = "query" /\ r.boot = actor[a].boot
  <2>1. "query" \in Stages
    BY DEF Stages
  <2> QED
    BY <1>2, <2>1, StageRecord
<1> HIDE DEF r
<1>5. RecordOK(a, r) /\ (a = "loop" => r.boot)
  BY <1>1, <1>2, <1>4 DEF RecordOK
<1>6. ~adrift' /\ ~clashed =>
         /\ \A c \in Names : Pure(db'[c])
         /\ r.pc = "ensure" => /\ r.new = embedder'
                               /\ \A i \in 1 .. r.k - 1 : Fits(db'[Collections[i]], embedder')
         /\ r.pc \notin LoadStages => \A c \in Names : Fits(db'[c], embedder')
         /\ Settled(a, r) => \A c \in Names : Fits(db'[c], embedder')
  BY <1>1, <1>4, <1>5 DEF IInv, Spaces, LoadStages, Settled
<1>7. /\ TypeOK' /\ StagesOK' /\ OneAtWork' /\ Spaces' /\ OneVectorSpace'
      /\ actor'[a] = r
      /\ ~clashed => \A b \in Actors \ {a} : actor'[b].pc = "idle"
  <2>1. /\ embedder_selected' \in MaybeEmbedder /\ llm_selected' \in MaybeEmbedder
        /\ db' \in [Names -> Collection]
    BY <1>1 DEF IInv, TypeOK
  <2> QED
    <3>1. /\ actor[a].pc # "idle" /\ (clashed' <=> clashed) /\ RecordOK(a, r)
          /\ procedures' = procedures /\ store' = store /\ ops' = ops
      BY <1>1, <1>5
    <3>2. actor' = [actor EXCEPT ![a] = r]
      BY <1>1
    <3> QED
      BY <1>3, <1>6, <2>1, <3>1, <3>2, LoadStep
<1>8. OnTheWay' /\ ProceduresSynced'
  BY <1>1, <1>4, <1>7, LoadRest
<1> QED
  BY <1>7, <1>8 DEF IInv

\* The embedder of the LLM's vendor raises: a start is over, and the route ends with the
\* embedder it began with.
LEMMA EmbedderRaises ==
    ASSUME IInv, NEW a \in Actors, actor[a].pc = "natural", Raises(a), UNCHANGED embedder,
           UNCHANGED <<embedder_selected, llm_selected, db, procedures, store, ops, synced, adrift, clashed>>
    PROVE  IInv'
<1> DEFINE r == RaisedRecord(a)
<1>1. /\ RecordOK(a, r) /\ r.pc = (IF actor[a].boot THEN "down" ELSE "idle")
      /\ actor' = [actor EXCEPT ![a] = r]
  BY RaisedFacts DEF Put
<1> HIDE DEF r
<1>2. a = "loop" => actor[a].boot
  BY ActorFacts DEF RecordOK
<1>3. ~adrift' /\ ~clashed =>
         /\ r.pc = "ensure" => r.new = embedder /\ r.k = 1
         /\ r.pc \notin LoadStages => Matching
         /\ Settled(a, r) => Matching
  <2>1. ~adrift /\ ~clashed /\ a = "route" => Matching
    BY DEF IInv, Spaces, SettledMatches, Settled
  <2>2. a = "loop" \/ a = "route"
    BY DEF Actors
  <2> QED
    BY <1>1, <1>2, <2>1, <2>2 DEF LoadStages, Settled
<1>4. /\ TypeOK' /\ StagesOK' /\ OneAtWork' /\ Spaces' /\ OneVectorSpace'
      /\ actor'[a] = r
      /\ ~clashed => \A b \in Actors \ {a} : actor'[b].pc = "idle"
  <2>1. /\ embedder_selected' \in MaybeEmbedder /\ llm_selected' \in MaybeEmbedder
        /\ db' \in [Names -> Collection] /\ db' = db
    BY DEF IInv, TypeOK
  <2> QED
    BY <1>1, <1>3, <2>1, SameDb, ActorStep
<1>5. OnTheWay' /\ ProceduresSynced'
  BY <1>1, <1>4, LoadRest
<1> QED
  BY <1>4, <1>5 DEF IInv

\* load_natural_language.
LEMMA load_natural_languageStep ==
    ASSUME IInv, NEW a \in Actors, load_natural_language(a)
    PROVE  IInv'
  BY EmbedderLoads, EmbedderRaises DEF load_natural_language

\* A step that fails leaves its collection or deletes it.
LEMMA FailStep ==
    ASSUME IInv, NEW a \in Actors, actor[a].pc = "ensure", Failed(a),
           db' \in [Names -> Collection], \A c \in Names : Harmless(db[c], db'[c]),
           UNCHANGED <<embedder_selected, llm_selected, embedder, procedures, store, ops, synced, adrift, clashed>>
    PROVE  IInv'
<1> DEFINE r == FailedRecord(a)
<1>1. /\ RecordOK(a, r) /\ r.pc \in {"undo", "down", "idle"}
      /\ r.pc = "idle" => a = "loop" /\ ~actor[a].boot
      /\ actor' = [actor EXCEPT ![a] = r]
  BY FailedFacts DEF Put
<1> HIDE DEF r
<1>2. ~adrift' /\ ~clashed =>
         /\ r.pc = "ensure" => r.new = embedder /\ r.k = 1
         /\ r.pc \notin LoadStages => Matching
         /\ Settled(a, r) => Matching
  <2>1. ~adrift /\ ~clashed /\ a = "loop" /\ ~actor[a].boot => Matching
    BY DEF IInv, Spaces, SettledMatches, Settled
  <2>2. ~Settled(a, r)
    BY <1>1 DEF Settled
  <2> QED
    BY <1>1, <2>1, <2>2 DEF LoadStages
<1>3. /\ TypeOK' /\ StagesOK' /\ OneAtWork' /\ Spaces' /\ OneVectorSpace'
      /\ actor'[a] = r
      /\ ~clashed => \A b \in Actors \ {a} : actor'[b].pc = "idle"
  <2>1. embedder_selected' \in MaybeEmbedder /\ llm_selected' \in MaybeEmbedder
    BY DEF IInv, TypeOK
  <2> QED
    BY <1>1, <1>2, <2>1, ActorStep
<1>4. OnTheWay' /\ ProceduresSynced'
  BY <1>1, <1>3, LoadRest
<1> QED
  BY <1>3, <1>4 DEF IInv

\* A pure collection that has the size and alias of the embedder holds vectors of
\* embedders that have them too, and a new one holds none.
LEMMA EnsuredFits ==
    ASSUME NEW e \in Embedders, NEW c \in Collection, Pure(c), NEW d,
           d = IF c.there /\ SameEmbedder(c, e) THEN c ELSE Created(e)
    PROVE  Fits(d, e) /\ Pure(d)
<1>1. CASE c.there /\ SameEmbedder(c, e)
  <2>1. PICK f \in Embedders : /\ c.size = Size[f] /\ c.alias = Name[f]
                               /\ \A p \in c.points : p.how = "direct" => Alike(p.by, f)
    BY <1>1 DEF Pure
  <2>2. c.size = Size[e] /\ c.alias = Name[e] /\ \A p \in c.points : p.how = "direct" => Alike(p.by, e)
    BY <1>1, <2>1 DEF SameEmbedder, Alike
  <2> QED
    BY <1>1, <2>2 DEF Fits, Pure
<1>2. CASE ~(c.there /\ SameEmbedder(c, e))
  BY <1>2, CollectionFacts DEF Fits, Pure
<1> QED
  BY <1>1, <1>2

\* A collection is ensured.
LEMMA EnsureStep ==
    ASSUME IInv, NEW a \in Actors, Ensure(a)
    PROVE  IInv'
<1> DEFINE k == actor[a].k
           c == Collections[k]
           e == actor[a].new
           d == IF db[c].there /\ SameEmbedder(db[c], e) THEN db[c] ELSE Created(e)
           r == Ensuring(actor[a], IF k < 3 THEN "ensure" ELSE "scan", e, IF k < 3 THEN k + 1 ELSE 1)
<1>1. actor[a].pc = "ensure"
  BY DEF Ensure
<1>2. actor[a] \in Actor /\ RecordOK(a, actor[a])
  BY ActorFacts
<1>3. k \in 1 .. 3 /\ e \in Embedders /\ e \in MaybeEmbedder
  BY <1>1, <1>2 DEF RecordOK, Actor, MaybeEmbedder
<1>4. c \in Names /\ db \in [Names -> Collection] /\ db[c] \in Collection
  BY <1>3, NamesFacts DEF IInv, TypeOK
<1>5. UNCHANGED <<embedder_selected, llm_selected, embedder, procedures, store, ops, synced, adrift, clashed>>
  BY DEF Ensure
<1>6. CASE Failed(a) /\ UNCHANGED db
  <2>1. db' \in [Names -> Collection]
    BY <1>4, <1>6
  <2> QED
    BY <1>1, <1>5, <1>6, <2>1, SameDb, FailStep
<1>7. CASE Failed(a) /\ db' = [db EXCEPT ![c] = Absent]
  <2>1. db' \in [Names -> Collection]
    BY <1>4, <1>7, CollectionFacts
  <2>2. \A n \in Names : Harmless(db[n], db'[n])
    BY <1>4, <1>7, CollectionFacts DEF Harmless
  <2> QED
    BY <1>1, <1>5, <1>7, <2>1, <2>2, FailStep
<1>8. CASE db' = [db EXCEPT ![c] = d] /\ Put(a, r)
  <2>1. d \in Collection
    BY <1>3, <1>4, CollectionFacts
  <2>2. db' \in [Names -> Collection] /\ db'[c] = d /\ \A n \in Names \ {c} : db'[n] = db[n]
    BY <1>4, <1>8, <2>1
  <2>3. /\ r \in Actor /\ r.pc = IF k < 3 THEN "ensure" ELSE "scan"
        /\ r.boot = actor[a].boot /\ r.new = e /\ r.k = IF k < 3 THEN k + 1 ELSE 1
    <3>1. /\ (IF k < 3 THEN "ensure" ELSE "scan") \in Stages
          /\ (IF k < 3 THEN k + 1 ELSE 1) \in 1 .. 3
      BY <1>3 DEF Stages
    <3> QED
      BY <1>2, <1>3, <3>1, EnsuringFacts
  <2> HIDE DEF r
  <2>4. RecordOK(a, r)
    BY <1>2, <1>3, <2>3, EmbedderAssumption DEF RecordOK
  <2>5. ~adrift' /\ ~clashed =>
           /\ \A n \in Names : Pure(db'[n])
           /\ r.pc = "ensure" => /\ r.new = embedder'
                                 /\ \A i \in 1 .. r.k - 1 : Fits(db'[Collections[i]], embedder')
           /\ r.pc \notin LoadStages => \A n \in Names : Fits(db'[n], embedder')
           /\ Settled(a, r) => \A n \in Names : Fits(db'[n], embedder')
    <3>1. SUFFICES ASSUME ~adrift', ~clashed
                   PROVE  /\ \A n \in Names : Pure(db'[n])
                          /\ r.pc = "ensure" => /\ r.new = embedder'
                                                /\ \A i \in 1 .. r.k - 1 : Fits(db'[Collections[i]], embedder')
                          /\ r.pc \notin LoadStages => \A n \in Names : Fits(db'[n], embedder')
                          /\ Settled(a, r) => \A n \in Names : Fits(db'[n], embedder')
      OBVIOUS
    <3>2. /\ \A n \in Names : Pure(db[n])
          /\ e = embedder /\ \A i \in 1 .. k - 1 : Fits(db[Collections[i]], embedder)
          /\ a = "loop" /\ ~actor[a].boot => \A n \in Names : Fits(db[n], embedder)
      BY <3>1, <1>1, <1>5 DEF IInv, Spaces, Ensured, SettledMatches, Settled, Matching
    <3>3. Fits(d, e) /\ Pure(d)
      BY <3>2, <1>3, <1>4, EnsuredFits
    <3>4. embedder' = e
      BY <3>2, <1>5
    <3> HIDE DEF d, c, e
    <3>5. \A n \in Names : Pure(db'[n])
      BY <3>2, <3>3, <2>2, <1>4
    <3>6. \A n \in Names : n = c \/ Fits(db[n], e) => Fits(db'[n], e)
      BY <3>3, <2>2, <1>4
    <3>7. \A i \in 1 .. k : Fits(db'[Collections[i]], e)
      <4>1. ASSUME NEW i \in 1 .. k PROVE Fits(db'[Collections[i]], e)
        <5>1. Collections[i] \in Names
          BY <1>3, NamesFacts
        <5>2. i \in 1 .. k - 1 \/ i = k
          BY <1>3
        <5>3. Collections[i] = c \/ Fits(db[Collections[i]], e)
          BY <5>2, <3>2 DEF c
        <5> QED
          BY <5>1, <5>3, <3>6
      <4> QED
        BY <4>1
    <3>8. r.pc \notin LoadStages => \A n \in Names : Fits(db'[n], e)
      <4>1. r.pc \notin LoadStages => k = 3
        BY <1>3, <2>3 DEF LoadStages
      <4> QED
        BY <4>1, <3>7, NamesFacts
    <3>9. r.pc = "ensure" => r.k - 1 = k
      BY <1>3, <2>3
    <3>10. Settled(a, r) => \A n \in Names : Fits(db'[n], e)
      <4>1. Settled(a, r) => a = "loop" /\ ~actor[a].boot
        BY <1>3, <2>3 DEF Settled
      <4> QED
        BY <4>1, <3>2, <3>6
    <3> HIDE DEF k
    <3> QED
      BY <2>3, <3>4, <3>5, <3>7, <3>8, <3>9, <3>10
  <2>6. /\ TypeOK' /\ StagesOK' /\ OneAtWork' /\ Spaces' /\ OneVectorSpace'
        /\ actor'[a] = r
        /\ ~clashed => \A b \in Actors \ {a} : actor'[b].pc = "idle"
    <3>1. /\ embedder_selected' \in MaybeEmbedder /\ llm_selected' \in MaybeEmbedder
          /\ embedder' \in Embedders
      BY <1>5 DEF IInv, TypeOK
    <3>2. actor' = [actor EXCEPT ![a] = r] /\ actor[a].pc # "idle"
      BY <1>1, <1>8 DEF Put
    <3> QED
      BY <1>5, <2>2, <2>4, <2>5, <3>1, <3>2, LoadStep
  <2>7. OnTheWay' /\ ProceduresSynced'
    <3>1. actor'[a].pc \notin {"embed", "store"}
      BY <2>3, <2>6
    <3> QED
      BY <1>1, <1>5, <2>6, <3>1, LoadRest
  <2> QED
    BY <2>6, <2>7 DEF IInv
<1> QED
  <2>1. \/ db' = [db EXCEPT ![c] = d] /\ Put(a, r)
        \/ Failed(a) /\ UNCHANGED db
        \/ Failed(a) /\ db' = [db EXCEPT ![c] = Absent]
    BY <1>2 DEF Ensure, Ensuring, Actor
  <2> QED
    BY <2>1, <1>6, <1>7, <1>8

\* A failed change is undone, and the history notes what it leaves apart.
LEMMA UndoStep ==
    ASSUME IInv, Undo
    PROVE  IInv'
<1> DEFINE s == actor["route"]
           r == IF s.prev = NotSet THEN Idle ELSE [s EXCEPT !.pc = "restore"]
<1>1. /\ s.pc = "undo" /\ actor' = [actor EXCEPT !["route"] = r]
      /\ embedder_selected' \in {NotSet, embedder_selected} /\ llm_selected' \in {NotSet, llm_selected}
      /\ adrift' <=> (adrift \/ ~Matching)
      /\ UNCHANGED <<embedder, db, procedures, store, ops, synced, clashed>>
  BY DEF Undo, Put
<1>2. "route" \in Actors
  BY DEF Actors
<1>3. s \in Actor /\ RecordOK("route", s)
  BY <1>2, ActorFacts
<1>4. RecordOK("route", r) /\ r.pc \in {"idle", "restore"}
  <2>1. CASE s.prev = NotSet
    BY <2>1, <1>2, IdleFacts
  <2>2. CASE s.prev # NotSet
    <3> DEFINE q == [s EXCEPT !.pc = "restore"]
    <3>1. "restore" \in Stages
      BY DEF Stages
    <3>2. q \in Actor /\ q.pc = "restore" /\ q.boot = s.boot /\ q.prev = s.prev
      BY <3>1, <1>3, StageRecord
    <3>3. r = q
      BY <2>2
    <3> HIDE DEF q
    <3>4. RecordOK("route", q)
      BY <3>2, <2>2, <1>3 DEF RecordOK
    <3> HIDE DEF r
    <3> QED
      BY <3>2, <3>3, <3>4
  <2> QED
    BY <2>1, <2>2
<1> HIDE DEF r
<1>5. ~adrift' /\ ~clashed =>
         /\ r.pc = "ensure" => r.new = embedder /\ r.k = 1
         /\ r.pc \notin LoadStages => Matching
         /\ Settled("route", r) => Matching
  BY <1>1, <1>4
<1>6. /\ TypeOK' /\ StagesOK' /\ OneAtWork' /\ Spaces' /\ OneVectorSpace'
      /\ actor'["route"] = r
      /\ ~clashed => \A b \in Actors \ {"route"} : actor'[b].pc = "idle"
  <2>1. /\ embedder_selected' \in MaybeEmbedder /\ llm_selected' \in MaybeEmbedder
        /\ db' \in [Names -> Collection] /\ db' = db
    BY <1>1 DEF IInv, TypeOK, MaybeEmbedder
  <2> QED
    BY <1>1, <1>2, <1>4, <1>5, <2>1, SameDb, ActorStep
<1>7. OnTheWay' /\ ProceduresSynced'
  BY <1>1, <1>2, <1>4, <1>6, LoadRest
<1> QED
  BY <1>6, <1>7 DEF IInv

\* The embedder that was selected is loaded again.
LEMMA RestoreStep ==
    ASSUME IInv, Restore
    PROVE  IInv'
<1> DEFINE s == actor["route"]
<1>1. /\ s.pc = "restore" /\ actor' = [actor EXCEPT !["route"] = Idle]
      /\ embedder_selected' = s.prev /\ embedder' \in {s.prev, Dumb}
      /\ adrift' <=> (adrift \/ ~Matching')
      /\ UNCHANGED <<llm_selected, db, procedures, store, ops, synced, clashed>>
  BY DEF Restore, Put
<1>2. "route" \in Actors
  BY DEF Actors
<1>3. s \in Actor /\ RecordOK("route", s)
  BY <1>2, ActorFacts
<1>4. s.prev \in Embedders /\ embedder' \in Embedders
  BY <1>1, <1>3, EmbedderAssumption DEF RecordOK, Actor, MaybeEmbedder
<1>5. RecordOK("route", Idle) /\ Idle.pc = "idle"
  BY <1>2, IdleFacts
<1>6. ~adrift' /\ ~clashed =>
         /\ \A c \in Names : Pure(db'[c])
         /\ Idle.pc = "ensure" => /\ Idle.new = embedder'
                                  /\ \A i \in 1 .. Idle.k - 1 : Fits(db'[Collections[i]], embedder')
         /\ Idle.pc \notin LoadStages => \A c \in Names : Fits(db'[c], embedder')
         /\ Settled("route", Idle) => \A c \in Names : Fits(db'[c], embedder')
  <2>1. ~adrift' => \A c \in Names : Fits(db'[c], embedder')
    BY <1>1 DEF Matching, Fits
  <2>2. ~adrift' /\ ~clashed => \A c \in Names : Pure(db'[c])
    BY <1>1 DEF IInv, Spaces
  <2> QED
    BY <1>5, <2>1, <2>2
<1>7. /\ TypeOK' /\ StagesOK' /\ OneAtWork' /\ Spaces' /\ OneVectorSpace'
      /\ actor'["route"] = Idle
      /\ ~clashed => \A b \in Actors \ {"route"} : actor'[b].pc = "idle"
  <2>1. /\ embedder_selected' \in MaybeEmbedder /\ llm_selected' \in MaybeEmbedder
        /\ db' \in [Names -> Collection]
    BY <1>1, <1>4 DEF IInv, TypeOK, MaybeEmbedder
  <2> QED
    BY <1>1, <1>2, <1>4, <1>5, <1>6, <2>1, LoadStep
<1>8. OnTheWay' /\ ProceduresSynced'
  BY <1>1, <1>2, <1>5, <1>7, LoadRest
<1> QED
  BY <1>7, <1>8 DEF IInv

-----------------------------------------------------------------------------
(* embed_procedures *)

\* The record of an actor that goes on with the triggers that are left.
DoneRecord(a, left) ==
    IF left = {} THEN Idle ELSE [actor[a] EXCEPT !.pc = "embed", !.todo = left, !.vec = NotSet]

\* Embedding goes on until no trigger is left.
LEMMA DoneFacts ==
    ASSUME IInv, NEW a \in Actors, NEW left \in SUBSET Procedures
    PROVE  /\ RecordOK(a, DoneRecord(a, left))
           /\ left = {} => DoneRecord(a, left).pc = "idle"
           /\ left # {} => DoneRecord(a, left).pc = "embed" /\ DoneRecord(a, left).todo = left
<1>1. actor[a] \in Actor /\ RecordOK(a, actor[a])
  BY ActorFacts
<1>2. CASE left = {}
  BY <1>2, IdleFacts DEF DoneRecord
<1>3. CASE left # {}
  <2>1. DoneRecord(a, left) \in Actor
    BY <1>1, <1>3 DEF DoneRecord, Actor, Stages, MaybeEmbedder
  <2>2. /\ DoneRecord(a, left).pc = "embed" /\ DoneRecord(a, left).todo = left
        /\ DoneRecord(a, left).boot = actor[a].boot
    BY <1>1, <1>3 DEF DoneRecord, Actor
  <2> QED
    BY <1>1, <1>3, <2>1, <2>2 DEF RecordOK
<1> QED
  BY <1>2, <1>3

\* Without a clash and a half failed change the collections fit while procedures
\* are embedded.
LEMMA EmbedMatches ==
    ASSUME IInv, ~adrift, ~clashed, NEW a \in Actors, actor[a].pc \in {"scan", "embed", "store"}
    PROVE  Matching
<1>1. \A b \in Actors \ {a} : actor[b].pc = "idle"
  BY Alone
<1>2. \A b \in Actors : ~Loading(b)
  BY <1>1 DEF Loading
<1> QED
  BY <1>2 DEF IInv, OneVectorSpace

\* An actor at embedding moves on.
LEMMA EmbeddingStep ==
    ASSUME IInv, NEW a \in Actors, actor[a].pc \in {"scan", "embed", "store"}, NEW r, RecordOK(a, r),
           r.pc \in {"idle", "down", "embed", "store"}, actor' = [actor EXCEPT ![a] = r],
           db' \in [Names -> Collection], \A c \in Names : Harmless(db[c], db'[c]),
           UNCHANGED <<embedder_selected, llm_selected, embedder, procedures, store, ops, adrift, clashed>>,
           ~clashed => /\ r.pc \in {"embed", "store"} => Embedded' \union r.todo = procedures /\ ~synced'
                       /\ synced' => Embedded' = procedures /\ r.pc = "idle"
    PROVE  IInv'
<1>1. ~adrift' /\ ~clashed =>
         /\ r.pc = "ensure" => r.new = embedder /\ r.k = 1
         /\ r.pc \notin LoadStages => Matching
         /\ Settled(a, r) => Matching
  BY EmbedMatches
<1>2. /\ TypeOK' /\ StagesOK' /\ OneAtWork' /\ Spaces' /\ OneVectorSpace'
      /\ actor'[a] = r
      /\ ~clashed => \A b \in Actors \ {a} : actor'[b].pc = "idle"
  <2>1. embedder_selected' \in MaybeEmbedder /\ llm_selected' \in MaybeEmbedder
    BY DEF IInv, TypeOK
  <2>2. actor[a].pc # "idle"
    OBVIOUS
  <2> QED
    BY <1>1, <2>1, <2>2, ActorStep
<1>3. OnTheWay'
  <2>1. SUFFICES ASSUME ~clashed'
                 PROVE  /\ \A b \in Actors : actor'[b].pc \in {"embed", "store"} =>
                              Embedded' \union actor'[b].todo = procedures'
                        /\ synced' => \A b \in Actors : actor'[b].pc = "idle"
    BY DEF OnTheWay
  <2> QED
    BY <2>1, <1>2
<1>4. ProceduresSynced'
  BY DEF ProceduresSynced
<1> QED
  BY <1>2, <1>3, <1>4 DEF IInv

\* embed_procedures fails: nothing more than was stored before is stored.
LEMMA SyncRaises ==
    ASSUME IInv, NEW a \in Actors, actor[a].pc \in {"scan", "embed", "store"}, Raises(a),
           UNCHANGED <<embedder_selected, llm_selected, embedder, db, procedures, store, ops, synced, adrift, clashed>>
    PROVE  IInv'
<1> DEFINE r == RaisedRecord(a)
<1>1. /\ RecordOK(a, r) /\ r.pc \in {"down", "idle"}
      /\ actor' = [actor EXCEPT ![a] = r]
  BY RaisedFacts DEF Put
<1> HIDE DEF r
<1>2. ~clashed => ~synced'
  BY Alone
<1>3. db' \in [Names -> Collection] /\ db' = db
  BY DEF IInv, TypeOK
<1>4. ~clashed => /\ r.pc \in {"embed", "store"} => Embedded' \union r.todo = procedures /\ ~synced'
                  /\ synced' => Embedded' = procedures /\ r.pc = "idle"
  BY <1>1, <1>2
<1> QED
  BY <1>1, <1>3, <1>4, SameDb, EmbeddingStep

\* Points of a collection are replaced.
LEMMA PointsFacts ==
    ASSUME IInv, NEW c \in Names,
           NEW ps \in SUBSET Point,
           db' = [db EXCEPT ![c].points = ps],
           \A p \in ps : \/ p \in db[c].points
                         \/ p.how # "direct"
                         \/ Alike(p.by, embedder) /\ \A a \in Actors : ~Loading(a)
    PROVE  /\ db' \in [Names -> Collection]
           /\ db'[c].points = ps
           /\ \A n \in Names \ {c} : db'[n] = db[n]
           /\ \A n \in Names : Harmless(db[n], db'[n])
<1>1. db \in [Names -> Collection] /\ db[c] \in Collection
  BY DEF IInv, TypeOK
<1> DEFINE d == [db[c] EXCEPT !.points = ps]
<1>2. d \in Collection /\ d.points = ps /\ (d.there <=> db[c].there) /\ d.size = db[c].size /\ d.alias = db[c].alias
  BY <1>1 DEF Collection
<1>3. db' = [db EXCEPT ![c] = d]
  BY <1>1
<1> HIDE DEF d
<1>4. db' \in [Names -> Collection] /\ db'[c] = d /\ \A n \in Names \ {c} : db'[n] = db[n]
  BY <1>1, <1>2, <1>3
<1>5. ASSUME NEW n \in Names PROVE Harmless(db[n], db'[n])
  <2>1. CASE n = c
    BY <2>1, <1>2, <1>4 DEF Harmless
  <2>2. CASE n # c
    BY <2>2, <1>4 DEF Harmless
  <2> QED
    BY <2>1, <2>2
<1> QED
  BY <1>2, <1>4, <1>5

\* Points of inactive procedures are deleted and the missing triggers are listed.
LEMMA ScanStep ==
    ASSUME IInv, NEW a \in Actors, Scan(a)
    PROVE  IInv'
<1>1. /\ actor[a].pc = "scan"
      /\ UNCHANGED <<embedder_selected, llm_selected, embedder, procedures, store, ops, adrift, clashed>>
  BY DEF Scan
<1>2. CASE Raises(a) /\ UNCHANGED <<db, synced>>
  BY <1>1, <1>2, SyncRaises
<1>3. CASE /\ db' = [db EXCEPT !["procedural"].points = {p \in @ : p.what \in procedures}]
           /\ Done(a, procedures \ Embedded)
  <2> DEFINE left == procedures \ Embedded
             ps == {p \in db["procedural"].points : p.what \in procedures}
             r == DoneRecord(a, left)
  <2>1. "procedural" \in Names
    BY NamesFacts
  <2>2. db["procedural"] \in Collection
    BY <2>1 DEF IInv, TypeOK
  <2>3. /\ ps \in SUBSET Point
        /\ \A p \in ps : p \in db["procedural"].points
    BY <2>2 DEF Collection
  <2>4. db' = [db EXCEPT !["procedural"].points = ps]
    BY <1>3
  <2>5. actor' = [actor EXCEPT ![a] = r] /\ (synced' <=> left = {})
    BY <1>3 DEF Done, DoneRecord, Put
  <2>6. left \in SUBSET Procedures
    BY DEF IInv, TypeOK
  <2> HIDE DEF ps
  <2>7. /\ db' \in [Names -> Collection] /\ db'["procedural"].points = ps
        /\ \A n \in Names : Harmless(db[n], db'[n])
    BY <2>1, <2>3, <2>4, PointsFacts
  <2>8. Embedded' \union left = procedures
    BY <2>7 DEF Embedded, ps
  <2> HIDE DEF left
  <2>9. RecordOK(a, r) /\ (left = {} => r.pc = "idle") /\ (left # {} => r.pc = "embed" /\ r.todo = left)
    BY <2>6, DoneFacts
  <2> HIDE DEF r
  <2>10. ~clashed => /\ r.pc \in {"embed", "store"} => Embedded' \union r.todo = procedures /\ ~synced'
                     /\ synced' => Embedded' = procedures /\ r.pc = "idle"
    BY <2>5, <2>8, <2>9
  <2> QED
    BY <1>1, <2>5, <2>7, <2>9, <2>10, EmbeddingStep
<1> QED
  BY <1>2, <1>3 DEF Scan

\* A trigger is embedded.
LEMMA EmbedStep ==
    ASSUME IInv, NEW a \in Actors, Embed(a)
    PROVE  IInv'
<1> DEFINE r == [actor[a] EXCEPT !.pc = "store", !.vec = embedder]
<1>1. /\ actor[a].pc = "embed"
      /\ UNCHANGED <<embedder_selected, llm_selected, embedder, db, procedures, store, ops, synced, adrift, clashed>>
  BY DEF Embed
<1>2. CASE Raises(a)
  BY <1>1, <1>2, SyncRaises
<1>3. CASE Put(a, r)
  <2>1. actor[a] \in Actor /\ RecordOK(a, actor[a]) /\ embedder \in Embedders
    BY ActorFacts DEF IInv, TypeOK
  <2>2. r \in Actor
    BY <2>1 DEF Actor, Stages, MaybeEmbedder
  <2>3. r.pc = "store" /\ r.boot = actor[a].boot /\ r.todo = actor[a].todo
    BY <2>1 DEF Actor
  <2>4. actor' = [actor EXCEPT ![a] = r]
    BY <1>3 DEF Put
  <2> HIDE DEF r
  <2>5. RecordOK(a, r)
    BY <2>1, <2>2, <2>3 DEF RecordOK
  <2>6. ~clashed => ~synced' /\ Embedded \union actor[a].todo = procedures
    BY <1>1, Alone DEF IInv, OnTheWay
  <2>7. Embedded' = Embedded
    BY <1>1 DEF Embedded
  <2>8. db' \in [Names -> Collection] /\ db' = db
    BY <1>1 DEF IInv, TypeOK
  <2>9. ~clashed => /\ r.pc \in {"embed", "store"} => Embedded' \union r.todo = procedures /\ ~synced'
                    /\ synced' => Embedded' = procedures /\ r.pc = "idle"
    BY <2>3, <2>6, <2>7
  <2> QED
    BY <1>1, <2>3, <2>4, <2>5, <2>8, <2>9, SameDb, EmbeddingStep
<1> QED
  BY <1>2, <1>3 DEF Embed

\* A vector that may be stored so.
Marked(vec, how) ==
    /\ how \in {"direct", "across", "import"}
    /\ how = "direct" => Alike(vec, embedder) /\ \A a \in Actors : ~Loading(a)

\* Stored tells points apart that were made across a change.
LEMMA StoredFacts ==
    ASSUME NEW vec
    PROVE  Marked(vec, Stored(vec))
  BY DEF Stored, Marked

\* A point is stored: it was made by such an embedder, or is marked.
LEMMA AddPointFacts ==
    ASSUME IInv, NEW c \in Names, NEW old, NEW what \in Procedures \union {"document"},
           NEW vec \in MaybeEmbedder, NEW how, Marked(vec, how), add_point(c, old, what, vec, how)
    PROVE  /\ db' \in [Names -> Collection]
           /\ \A n \in Names \ {c} : db'[n] = db[n]
           /\ \A n \in Names : Harmless(db[n], db'[n])
           /\ old = {} => {p.what : p \in db'[c].points} = {p.what : p \in db[c].points} \union {what}
<1> DEFINE new == [what |-> what, by |-> vec, how |-> how]
           ps == (db[c].points \ old) \union {new}
<1>1. db[c] \in Collection
  BY DEF IInv, TypeOK
<1>2. new \in Point
  BY DEF Point, Marked
<1>3. new.what = what /\ (new.how # "direct" \/ (Alike(new.by, embedder) /\ \A a \in Actors : ~Loading(a)))
  BY DEF Marked
<1>4. db' = [db EXCEPT ![c].points = ps]
  BY DEF add_point
<1> HIDE DEF new
<1>5. ps \in SUBSET Point
  BY <1>1, <1>2 DEF Collection
<1>6. \A p \in ps : \/ p \in db[c].points
                    \/ p.how # "direct"
                    \/ Alike(p.by, embedder) /\ \A a \in Actors : ~Loading(a)
  BY <1>3
<1>7. old = {} => {p.what : p \in ps} = {p.what : p \in db[c].points} \union {what}
  BY <1>3
<1> HIDE DEF ps
<1> QED
  BY <1>4, <1>5, <1>6, <1>7, PointsFacts

\* A trigger is stored.
LEMMA AddTriggerStep ==
    ASSUME IInv, NEW a \in Actors, AddTrigger(a)
    PROVE  IInv'
<1>1. /\ actor[a].pc = "store"
      /\ UNCHANGED <<embedder_selected, llm_selected, embedder, procedures, store, ops, adrift, clashed>>
  BY DEF AddTrigger
<1>2. CASE Raises(a) /\ UNCHANGED <<db, synced>>
  BY <1>1, <1>2, SyncRaises
<1>3. ASSUME NEW w \in actor[a].todo, add_point("procedural", {}, w, actor[a].vec, Stored(actor[a].vec)),
             Done(a, actor[a].todo \ {w})
      PROVE  IInv'
  <2> DEFINE left == actor[a].todo \ {w}
             r == DoneRecord(a, left)
  <2>1. actor[a] \in Actor
    BY ActorFacts
  <2>2. w \in Procedures /\ left \in SUBSET Procedures /\ actor[a].vec \in MaybeEmbedder
    BY <2>1 DEF Actor
  <2>3. "procedural" \in Names
    BY NamesFacts
  <2>4. /\ db' \in [Names -> Collection] /\ \A n \in Names : Harmless(db[n], db'[n])
        /\ Embedded' = Embedded \union {w}
    <3>1. /\ db' \in [Names -> Collection] /\ \A n \in Names : Harmless(db[n], db'[n])
          /\ {p.what : p \in db'["procedural"].points} = {p.what : p \in db["procedural"].points} \union {w}
      BY <1>3, <2>2, <2>3, StoredFacts, AddPointFacts
    <3> QED
      BY <3>1 DEF Embedded
  <2>5. actor' = [actor EXCEPT ![a] = r] /\ (synced' <=> left = {})
    BY <1>3 DEF Done, DoneRecord, Put
  <2>6. ~clashed => Embedded' \union left = procedures
    <3>1. ~clashed => Embedded \union actor[a].todo = procedures
      BY <1>1 DEF IInv, OnTheWay
    <3> QED
      BY <3>1, <2>4
  <2> HIDE DEF left
  <2>7. RecordOK(a, r) /\ (left = {} => r.pc = "idle") /\ (left # {} => r.pc = "embed" /\ r.todo = left)
    BY <2>2, DoneFacts
  <2> HIDE DEF r
  <2>8. ~clashed => /\ r.pc \in {"embed", "store"} => Embedded' \union r.todo = procedures /\ ~synced'
                    /\ synced' => Embedded' = procedures /\ r.pc = "idle"
    BY <2>5, <2>6, <2>7
  <2> QED
    BY <1>1, <2>4, <2>5, <2>7, <2>8, EmbeddingStep
<1> QED
  BY <1>2, <1>3 DEF AddTrigger

-----------------------------------------------------------------------------
(* Documents, points and restarts *)

\* Documents and points change collections harmlessly while the actors rest or
\* work on.
LEMMA DocumentStep ==
    ASSUME IInv, UNCHANGED <<embedder_selected, llm_selected, embedder, procedures, actor, adrift>>,
           store' \in Document, ops' \in Nat,
           db' \in [Names -> Collection], \A c \in Names : Harmless(db[c], db'[c]),
           clashed => clashed',
           ~clashed' => /\ synced' => synced
                        /\ Embedded' = Embedded \/ (~synced' /\ \A a \in Actors : actor[a].pc = "idle")
    PROVE  IInv'
<1>1. TypeOK' /\ StagesOK'
  BY DEF IInv, TypeOK, StagesOK
<1>2. OneAtWork'
  BY DEF IInv, OneAtWork
<1>3. actor \in [Actors -> Actor] /\ \A b \in Actors : actor[b].k \in 1 .. 3
  BY DEF IInv, TypeOK, Actor
<1>4. ~adrift' /\ ~clashed' =>
         /\ \A b \in Actors : actor'[b].pc = "ensure" =>
               /\ actor'[b].new = embedder /\ actor'[b].k \in 1 .. 3
               /\ actor'[b].k = 1 \/ (actor[b].pc = "ensure" /\ actor'[b].k = actor[b].k)
         /\ (\A b \in Actors : actor'[b].pc \notin LoadStages) => Matching
         /\ \A b \in Actors : Settled(b, actor'[b]) => Matching
  <2>1. SUFFICES ASSUME ~adrift', ~clashed'
                 PROVE  /\ \A b \in Actors : actor'[b].pc = "ensure" =>
                              /\ actor'[b].new = embedder /\ actor'[b].k \in 1 .. 3
                              /\ actor'[b].k = 1 \/ (actor[b].pc = "ensure" /\ actor'[b].k = actor[b].k)
                        /\ (\A b \in Actors : actor'[b].pc \notin LoadStages) => Matching
                        /\ \A b \in Actors : Settled(b, actor'[b]) => Matching
    OBVIOUS
  <2>2. \A b \in Actors : actor[b].pc = "ensure" => actor[b].new = embedder
    BY <2>1 DEF IInv, Spaces, Ensured
  <2>3. (\A b \in Actors : actor[b].pc \notin LoadStages) => Matching
    BY <2>1 DEF IInv, OneVectorSpace, Loading, LoadStages
  <2>4. \A b \in Actors : Settled(b, actor[b]) => Matching
    BY <2>1 DEF IInv, Spaces, SettledMatches
  <2> QED
    BY <2>2, <2>3, <2>4, <1>3
<1>5. Spaces' /\ OneVectorSpace'
  BY <1>4, SpaceStep
<1>6. OnTheWay' /\ ProceduresSynced'
  BY DEF IInv, OnTheWay, ProceduresSynced
<1> QED
  BY <1>1, <1>2, <1>5, <1>6 DEF IInv

\* The record of a document.
LEMMA DocumentFacts ==
    /\ NoDocument \in Document
    /\ ops \in Nat => ops + 1 \in Nat
    /\ \A c \in {"episodic", "declarative"} : c \in Names /\ c # "procedural"
  BY NamesFacts DEF NoDocument, MaybeEmbedder, Document

\* A document is embedded.
LEMMA EmbedDocumentStep ==
    ASSUME IInv, NEW c \in Written, EmbedDocument(c)
    PROVE  IInv'
<1>1. /\ store' = [coll |-> c, vec |-> embedder, import |-> FALSE]
      /\ UNCHANGED <<embedder_selected, llm_selected, embedder, db, procedures, actor, ops, synced, adrift, clashed>>
  BY DEF EmbedDocument
<1>2. store' \in Document
  BY <1>1, EmbedderAssumption DEF IInv, TypeOK, MaybeEmbedder, Document
<1>3. ops' \in Nat /\ db' \in [Names -> Collection] /\ db' = db /\ Embedded' = Embedded
  BY <1>1 DEF IInv, TypeOK, Embedded
<1> QED
  BY <1>1, <1>2, <1>3, SameDb, DocumentStep

\* A vector of an export is on its way.
LEMMA ingest_memoryStep ==
    ASSUME IInv, NEW e \in Exports, ingest_memory(e)
    PROVE  IInv'
<1>1. /\ store' = [coll |-> "declarative", vec |-> e, import |-> TRUE]
      /\ UNCHANGED <<embedder_selected, llm_selected, embedder, db, procedures, actor, ops, synced, adrift, clashed>>
  BY DEF ingest_memory
<1>2. store' \in Document
  BY <1>1, EmbedderAssumption DEF MaybeEmbedder, Document
<1>3. ops' \in Nat /\ db' \in [Names -> Collection] /\ db' = db /\ Embedded' = Embedded
  BY <1>1 DEF IInv, TypeOK, Embedded
<1> QED
  BY <1>1, <1>2, <1>3, SameDb, DocumentStep

\* A document is stored, in place of a point or not, or is lost.
LEMMA DocumentStored ==
    ASSUME IInv, NEW c \in {"episodic", "declarative"}, NEW old, NEW how, Marked(store.vec, how),
           add_point(c, old, "document", store.vec, how) \/ UNCHANGED db,
           store' = NoDocument,
           UNCHANGED <<embedder_selected, llm_selected, embedder, procedures, actor, ops, synced, adrift, clashed>>
    PROVE  IInv'
<1>1. store.vec \in MaybeEmbedder /\ db \in [Names -> Collection]
  BY DEF IInv, TypeOK, Document
<1>2. c \in Names /\ c # "procedural" /\ "procedural" \in Names
  BY DocumentFacts, NamesFacts
<1>3. /\ db' \in [Names -> Collection] /\ \A n \in Names : Harmless(db[n], db'[n])
      /\ db'["procedural"] = db["procedural"]
  <2>1. CASE UNCHANGED db
    BY <2>1, <1>1, SameDb
  <2>2. CASE add_point(c, old, "document", store.vec, how)
    <3>1. "document" \in Procedures \union {"document"}
      OBVIOUS
    <3> QED
      BY <2>2, <3>1, <1>1, <1>2, AddPointFacts
  <2> QED
    BY <2>1, <2>2
<1>4. Embedded' = Embedded /\ ops' \in Nat
  BY <1>3 DEF Embedded, IInv, TypeOK
<1>5. store' \in Document
  BY DocumentFacts
<1> QED
  BY <1>3, <1>4, <1>5, DocumentStep

\* StoreDocument.
LEMMA StoreDocumentStep ==
    ASSUME IInv, StoreDocument
    PROVE  IInv'
<1>1. store.coll \in {"episodic", "declarative"}
  BY DEF IInv, TypeOK, Document
<1>2. /\ add_point(store.coll, {}, "document", store.vec, Stored(store.vec)) \/ UNCHANGED db
      /\ store' = NoDocument
      /\ UNCHANGED <<embedder_selected, llm_selected, embedder, procedures, actor, ops, synced, adrift, clashed>>
  BY DEF StoreDocument
<1> QED
  BY <1>1, <1>2, StoredFacts, DocumentStored

\* edit_memory_point.
LEMMA edit_memory_pointStep ==
    ASSUME IInv, edit_memory_point
    PROVE  IInv'
<1>1. store.coll \in {"episodic", "declarative"}
  BY DEF IInv, TypeOK, Document
<1>2. PICK p \in db[store.coll].points : add_point(store.coll, {p}, "document", store.vec, Stored(store.vec))
  BY DEF edit_memory_point
<1>3. /\ store' = NoDocument
      /\ UNCHANGED <<embedder_selected, llm_selected, embedder, procedures, actor, ops, synced, adrift, clashed>>
  BY DEF edit_memory_point
<1> QED
  BY <1>1, <1>2, <1>3, StoredFacts, DocumentStored

\* The vector of an export is stored as an imported one.
LEMMA StoreImportStep ==
    ASSUME IInv, StoreImport
    PROVE  IInv'
<1>1. /\ \/ \E old \in {{}} \union {{p} : p \in db["declarative"].points} :
                add_point("declarative", old, "document", store.vec, "import")
         \/ UNCHANGED db
      /\ store' = NoDocument
      /\ UNCHANGED <<embedder_selected, llm_selected, embedder, procedures, actor, ops, synced, adrift, clashed>>
  BY DEF StoreImport
<1>2. PICK old : add_point("declarative", old, "document", store.vec, "import") \/ UNCHANGED db
  BY <1>1
<1>3. Marked(store.vec, "import")
  BY DEF Marked
<1> QED
  BY <1>1, <1>2, <1>3, DocumentStored

\* A point is deleted through the API.
LEMMA delete_memory_pointStep ==
    ASSUME IInv, NEW c \in Names, delete_memory_point(c)
    PROVE  IInv'
<1>1. PICK p \in db[c].points : db' = [db EXCEPT ![c].points = @ \ {p}]
  BY DEF delete_memory_point
<1>2. /\ actor["loop"].pc = "idle" /\ ops' = ops + 1
      /\ synced' <=> (synced /\ c # "procedural")
      /\ clashed' <=> (clashed \/ actor["route"].pc # "idle")
      /\ UNCHANGED <<embedder_selected, llm_selected, embedder, procedures, actor, store, adrift>>
  BY DEF delete_memory_point
<1> DEFINE ps == db[c].points \ {p}
<1>3. db[c] \in Collection
  BY DEF IInv, TypeOK
<1>4. ps \in SUBSET Point
  BY <1>3 DEF Collection
<1>5. db' = [db EXCEPT ![c].points = ps] /\ \A q \in ps : q \in db[c].points
  BY <1>1
<1> HIDE DEF ps
<1>6. /\ db' \in [Names -> Collection] /\ \A n \in Names \ {c} : db'[n] = db[n]
      /\ \A n \in Names : Harmless(db[n], db'[n])
  BY <1>4, <1>5, PointsFacts
<1>7. ~clashed' => /\ synced' => synced
                   /\ Embedded' = Embedded \/ (~synced' /\ \A a \in Actors : actor[a].pc = "idle")
  <2>1. CASE c = "procedural"
    BY <2>1, <1>2 DEF Actors
  <2>2. CASE c # "procedural"
    BY <2>2, <1>2, <1>6, NamesFacts DEF Embedded
  <2> QED
    BY <2>1, <2>2
<1>8. ops' \in Nat /\ store' \in Document
  BY <1>2, DocumentFacts DEF IInv, TypeOK
<1> QED
  BY <1>2, <1>6, <1>7, <1>8, DocumentStep

\* The record of the event loop of a process that starts.
LEMMA StartFacts ==
    LET r == [Idle EXCEPT !.pc = "natural", !.boot = TRUE]
    IN  r \in Actor /\ r.pc = "natural" /\ r.boot
<1>1. "natural" \in Stages
  BY DEF Stages
<1> QED
  BY <1>1, IdleFacts DEF Actor

\* A process that starts, with the collections of the last one.
LEMMA StartStep ==
    ASSUME NEW f, f = [a \in Actors |-> IF a = "loop" THEN [Idle EXCEPT !.pc = "natural", !.boot = TRUE] ELSE Idle]
    PROVE  /\ f \in [Actors -> Actor] /\ f["route"].pc = "idle" /\ ~f["route"].boot
           /\ f["loop"].pc = "natural" /\ f["loop"].boot
<1> DEFINE r == [Idle EXCEPT !.pc = "natural", !.boot = TRUE]
<1>1. r \in Actor /\ r.pc = "natural" /\ r.boot
  BY StartFacts
<1>2. f = [a \in Actors |-> IF a = "loop" THEN r ELSE Idle]
  OBVIOUS
<1> HIDE DEF r
<1>3. f["loop"] = r /\ f["route"] = Idle /\ f \in [Actors -> Actor]
  BY <1>1, <1>2, IdleFacts DEF Actors
<1> QED
  BY <1>1, <1>3, IdleFacts

\* A restart.
LEMMA BootStep ==
    ASSUME IInv, Boot
    PROVE  IInv'
<1>1. /\ ops' = ops + 1 /\ store' = NoDocument /\ ~synced'
      /\ actor' = [a \in Actors |-> IF a = "loop" THEN [Idle EXCEPT !.pc = "natural", !.boot = TRUE] ELSE Idle]
      /\ UNCHANGED <<embedder_selected, llm_selected, embedder, db, procedures, adrift, clashed>>
  BY DEF Boot
<1>2. /\ actor' \in [Actors -> Actor] /\ actor'["route"].pc = "idle" /\ ~actor'["route"].boot
      /\ actor'["loop"].pc = "natural" /\ actor'["loop"].boot
  BY <1>1, StartStep
<1>3. \A b \in Actors : actor'[b].pc \in {"idle", "natural"}
  BY <1>2 DEF Actors
<1>4. "route" \in Actors /\ "loop" \in Actors
  BY DEF Actors
<1>5. TypeOK'
  BY <1>1, <1>2, DocumentFacts DEF IInv, TypeOK
<1>6. StagesOK' /\ OneAtWork'
  BY <1>2, <1>3, <1>4 DEF StagesOK, OneAtWork
<1>7. Spaces'
  BY <1>1, <1>2, <1>3 DEF IInv, Spaces, Pure, Ensured, SettledMatches, Settled
<1>8. OneVectorSpace'
  BY <1>2, <1>4 DEF OneVectorSpace, Loading
<1>9. OnTheWay' /\ ProceduresSynced'
  BY <1>1, <1>3, RestStep
<1> QED
  BY <1>5, <1>6, <1>7, <1>8, <1>9 DEF IInv

\* The first start.
LEMMA InitInv == Init => IInv
<1>1. SUFFICES ASSUME Init PROVE IInv
  OBVIOUS
<1>2. /\ actor \in [Actors -> Actor] /\ actor["route"].pc = "idle" /\ ~actor["route"].boot
      /\ actor["loop"].pc = "natural" /\ actor["loop"].boot
  BY <1>1, StartStep DEF Init
<1>3. \A b \in Actors : actor[b].pc \in {"idle", "natural"}
  BY <1>2 DEF Actors
<1>4. "route" \in Actors /\ "loop" \in Actors
  BY DEF Actors
<1>5. db \in [Names -> Collection] /\ \A c \in Names : ~db[c].there
  BY <1>1, CollectionFacts DEF Init
<1>6. TypeOK
  BY <1>1, <1>2, <1>5, DocumentFacts, EmbedderAssumption DEF Init, TypeOK, MaybeEmbedder
<1>7. StagesOK /\ OneAtWork
  BY <1>2, <1>3, <1>4 DEF StagesOK, OneAtWork
<1>8. Spaces
  BY <1>2, <1>3, <1>5 DEF Spaces, Pure, Ensured, SettledMatches, Settled
<1>9. OneVectorSpace
  BY <1>2, <1>4 DEF OneVectorSpace, Loading
<1>10. OnTheWay /\ ProceduresSynced
  BY <1>1, <1>3 DEF Init, OnTheWay, ProceduresSynced
<1> QED
  BY <1>6, <1>7, <1>8, <1>9, <1>10 DEF IInv

\* A stuttering step.
LEMMA StutterStep ==
    ASSUME IInv, UNCHANGED vars
    PROVE  IInv'
  BY DEF IInv, vars, TypeOK, StagesOK, OneAtWork, Spaces, Pure, Ensured, Fits, SettledMatches, Matching,
         OneVectorSpace, Loading, OnTheWay, ProceduresSynced, Embedded

\* Every step preserves the invariant.
LEMMA Inductive == IInv /\ [Next]_vars => IInv'
<1>1. SUFFICES ASSUME IInv, [Next]_vars PROVE IInv'
  OBVIOUS
<1>2. CASE UNCHANGED vars
  BY <1>1, <1>2, StutterStep
<1>3. ASSUME NEW e \in Embedders, upsert_embedder_setting(e) PROVE IInv'
  BY <1>1, <1>3, upsert_embedder_settingStep
<1>4. ASSUME NEW e \in Vendors, upsert_llm_setting(e) PROVE IInv'
  BY <1>1, <1>4, upsert_llm_settingStep
<1>5. ASSUME NEW a \in Actors,
             \/ load_natural_language(a) \/ load_memory(a) \/ Ensure(a)
             \/ Scan(a) \/ Embed(a) \/ AddTrigger(a)
      PROVE  IInv'
  BY <1>1, <1>5, load_natural_languageStep, load_memoryStep, EnsureStep, ScanStep, EmbedStep, AddTriggerStep
<1>6. CASE Undo \/ Restore
  BY <1>1, <1>6, UndoStep, RestoreStep
<1>7. ASSUME NEW p \in Procedures, TogglePlugin(p) PROVE IInv'
  BY <1>1, <1>7, TogglePluginStep
<1>8. CASE wipe_collections
  BY <1>1, <1>8, WipeStep DEF wipe_collections
<1>9. ASSUME NEW c \in Names, wipe_single_collection(c) PROVE IInv'
  BY <1>1, <1>9, WipeStep DEF wipe_single_collection
<1>10. ASSUME NEW c \in Written, EmbedDocument(c) PROVE IInv'
  BY <1>1, <1>10, EmbedDocumentStep
<1>11. CASE StoreDocument \/ edit_memory_point
  BY <1>1, <1>11, StoreDocumentStep, edit_memory_pointStep
<1>14. ASSUME NEW e \in Exports, ingest_memory(e) PROVE IInv'
  BY <1>1, <1>14, ingest_memoryStep
<1>15. CASE StoreImport
  BY <1>1, <1>15, StoreImportStep
<1>12. ASSUME NEW c \in Names, delete_memory_point(c) PROVE IInv'
  BY <1>1, <1>12, delete_memory_pointStep
<1>13. CASE Boot
  BY <1>1, <1>13, BootStep
<1> QED
  BY <1>1, <1>2, <1>3, <1>4, <1>5, <1>6, <1>7, <1>8, <1>9, <1>10, <1>11, <1>12, <1>13, <1>14, <1>15 DEF Next

\* The inductive invariant holds in every state.
LEMMA Invariant == Spec => []IInv
  BY InitInv, Inductive, PTL DEF Spec

-----------------------------------------------------------------------------
\* When no change of the embedder is under way, every collection has the size and
\* the alias of ccat.embedder, and so have the embedders that made its points, apart
\* from points stored across a change and imported ones, after any number of failed
\* steps, restarts and wipes, as long as no roll back left embedder and collections
\* apart and no two actors were at work at once.  Embedders that share size and alias
\* are not told apart: check_embedding_size does not.
THEOREM OneVectorSpaceHolds == Spec => []OneVectorSpace
<1>1. IInv => OneVectorSpace
  BY DEF IInv
<1> QED
  BY <1>1, Invariant, PTL

\* After embed_procedures has finished, the procedural memory has the triggers of
\* the active plugins and no others, whatever attempts failed half way before.
THEOREM ProceduresSyncedHolds == Spec => []ProceduresSynced
<1>1. IInv => ProceduresSynced
  BY DEF IInv
<1> QED
  BY <1>1, Invariant, PTL
=============================================================================
