--------------------------- MODULE Services_proofs ---------------------------
(***************************************************************************)
(* Proofs about the services that work beside each other in the running    *)
(* cat: the sessions, the scheduler and the hooks of a chat turn while the *)
(* plugin manager syncs, and the settings database.  They share no state   *)
(* here, and each part speaks of its own specification: Spec of Sessions,  *)
(* RabbitSpec of WhiteRabbit, HookSpec of HookRace, SettingsSpec of         *)
(* Settings.                                                               *)
(***************************************************************************)
EXTENDS Sessions, WhiteRabbit, HookRace, Settings, FiniteSetTheorems, WellFoundedInduction, TLAPS

\* A set of naturals has a least element.
LEMMA LeastNatural ==
    ASSUME NEW S \in SUBSET Nat, S # {}
    PROVE  \E x \in S : \A y \in S : x <= y
<1> DEFINE R == OpToRel(<, Nat)
<1>1. IsWellFoundedOn(R, Nat)
  BY NatLessThanWellFounded
<1>2. \A x, y \in Nat : y < x => <<y, x>> \in R
  BY DEF OpToRel
<1> HIDE DEF R
<1>3. PICK x \in S : \A y \in S : ~ (<<y, x>> \in R)
  BY <1>1, WFMin
<1>4. \A y \in S : x <= y
  <2> TAKE y \in S
  <2>1. x \in Nat /\ y \in Nat /\ ~(<<y, x>> \in R)
    BY <1>3
  <2>2. ~(y < x)
    BY <2>1, <1>2
  <2> QED
    BY <2>1, <2>2
<1> QED
  BY <1>4

-----------------------------------------------------------------------------
(* SESSIONS.  Any sockets and requests, both caches, any history length.   *)

\* Stages in which the number of the actor's turn matters.
Talking ==
    MidUpdate \union
    {"human", "answer", "save", "dump", "save_reply", "dump_reply", "save_error", "dump_error"}

\* Stages after the question was appended, and after the answer was.
Asked == {"human_slice", "human_assign", "answer"}

\* Stages after the answer was appended.
Answered == {"answer_slice", "answer_assign", "save", "dump"}

\* Stages between the slice and its assignment.
Assigning == {"human_assign", "answer_assign"}

\* Where an actor may be.
Stages == Talking \union {"idle", "accept", "open", "wipe", "send", "end", "abort"}

\* Who said it, in which turn.
Messages == {"Human", "AI"} \X Nat

\* Types.
SessionTypes ==
    /\ copies \in BOOLEAN /\ forked \in BOOLEAN /\ cut \in BOOLEAN
    /\ heap \in [Objects -> Seq(Messages)]
    /\ cache \in Objects \union {None}
    /\ wm \in [Actors -> Objects \union {None}]
    /\ pc \in [Actors -> Stages]
    /\ turn \in [Actors -> Nat]
    /\ turns \in Nat
    /\ connections \in Sockets \union {None}
    /\ evictions \in Nat /\ restarts \in Nat
    /\ kept \in Nat /\ wiped \subseteq 1 .. turns
    /\ tail \in [Actors -> Seq(Messages)] /\ interfered \in BOOLEAN

\* An actor that is at work holds a working memory; with the file_system cache it
\* shares it with nobody.  Running turns have numbers of their own, and none of
\* them was over when the history was deleted.
StageInv ==
    /\ \A a \in Actors :
           /\ pc[a] = "idle" <=> wm[a] = None
           /\ pc[a] \in Talking => turn[a] \in 1 .. turns /\ turn[a] \notin wiped
    /\ \A a, b \in Actors :
           a # b /\ pc[a] \in Talking /\ pc[b] \in Talking => turn[a] # turn[b]
    /\ copies => \A a \in Actors : wm[a] # None =>
           wm[a] # cache /\ \A b \in Actors \ {a} : wm[b] # wm[a]

\* Part of the invariant as it stands.
SocketInv == NoDeadConnection

\* The message may still be written, with stages p, turns t and n turns begun.
Pending(m, p, t, n) ==
    \/ m[2] > n
    \/ \E a \in Actors : p[a] = "human" /\ m[2] = t[a]
    \/ \E a \in Actors : p[a] \in Asked /\ m = <<"AI", t[a]>>

\* No message is twice in the history.
Once(h) == \A i, j \in 1 .. Len(h) : h[i] = h[j] => i = j

\* No answer comes before its question.
Forward(h) == \A i, j \in 1 .. Len(h) : h[i][1] = "AI" /\ h[j] = <<"Human", h[i][2]>> => j < i

\* The history has no message twice, none before the one it answers and none that
\* is still to come.
Sound(h, p, t, n) == Once(h) /\ Forward(h) /\ \A i \in 1 .. Len(h) : ~Pending(h[i], p, t, n)

\* All histories, and all slices that are still to be assigned.
MessageInv ==
    /\ \A o \in Objects : Sound(heap[o], pc, turn, turns)
    /\ \A a \in Actors : Sound(tail[a], pc, turn, turns)

\* As long as nothing interfered, one actor updates an object at a time, and what
\* it assigns are the last messages of the history as it is.
TailInv ==
    ~interfered => \A a \in Actors : pc[a] \in MidUpdate =>
        /\ \A b \in Actors \ {a} : wm[b] = wm[a] => pc[b] \notin MidUpdate
        /\ pc[a] \in Assigning => tail[a] = Recent(heap[wm[a]])

\* Answers whose turn is not in T have their questions, in a history that was not
\* cut off.
Ordered(h, T) ==
    Len(h) < MaxHistory =>
        \A i \in 1 .. Len(h) :
            h[i][1] = "AI" /\ h[i][2] \notin T => Holds(h, <<"Human", h[i][2]>>)

\* The history has the message, or may have pushed it out.
Known(h, m) == Holds(h, m) \/ Len(h) >= MaxHistory

\* What a has said in its turn, it finds in its working memory.
Said(a) ==
    turn[a] \notin torn =>
        /\ pc[a] \in Asked => Known(heap[wm[a]], <<"Human", turn[a]>>)
        /\ pc[a] \in Answered => Known(heap[wm[a]], <<"AI", turn[a]>>)

\* All histories, and all running turns.
OrderInv ==
    ~interfered => (\A o \in Objects : Ordered(heap[o], torn)) /\ \A a \in Actors : Said(a)

\* As long as nothing forked there is one working memory in use.
ShareInv ==
    ~forked => \A a \in Users(wm) :
        /\ \A b \in Users(wm) \ {a} : ~copies /\ wm[b] = wm[a]
        /\ ~copies => cache \in {wm[a], None}

\* The last turn that was saved is known to everyone.
KeepInv ==
    (~forked /\ ~interfered /\ evictions = 0 /\ kept # 0) =>
        /\ cache # None /\ Known(heap[cache], <<"AI", kept>>)
        /\ \A a \in Users(wm) : Known(heap[wm[a]], <<"AI", kept>>)

\* No message of the turns T.
Clean(h, T) == \A i \in 1 .. Len(h) : h[i][2] \notin T

\* Nobody has a deleted message; the file may, until the request that deleted it
\* ends.
CleanInv ==
    ~forked /\ ~interfered =>
        /\ \A a \in Users(wm) : Clean(heap[wm[a]], wiped)
        /\ cache # None =>
              Clean(heap[cache], wiped) \/ (copies /\ \E a \in Actors : pc[a] = "end")

\* The inductive invariant of Sessions.
SessionInv ==
    /\ SessionTypes /\ StageInv /\ SocketInv /\ MessageInv /\ TailInv /\ OrderInv
    /\ ShareInv /\ KeepInv /\ CleanInv

-----------------------------------------------------------------------------
(* A history, the message appended to it and its last messages *)

\* What is in a history after an append.
LEMMA AppendHas ==
    ASSUME NEW h \in Seq(Messages), NEW m \in Messages
    PROVE  LET g == Append(h, m)
           IN  /\ g \in Seq(Messages)
               /\ \A i \in 1 .. Len(g) : g[i] = m \/ \E j \in 1 .. Len(h) : g[i] = h[j]
               /\ (Once(h) /\ \A j \in 1 .. Len(h) : h[j] # m) => Once(g)
               /\ (/\ Forward(h)
                   /\ m[1] = "Human" => \A j \in 1 .. Len(h) : h[j] # <<"AI", m[2]>>) => Forward(g)
               /\ Known(g, m)
               /\ \A x \in Messages : Known(h, x) => Known(g, x)
<1> DEFINE g == Append(h, m)
<1>1. /\ g \in Seq(Messages) /\ Len(h) \in Nat /\ Len(g) = Len(h) + 1 /\ g[Len(h) + 1] = m
      /\ \A i \in 1 .. Len(h) : g[i] = h[i] /\ h[i] \in Messages
  OBVIOUS
<1> HIDE DEF g
<1>2. \A i \in 1 .. Len(g) : i = Len(h) + 1 \/ i \in 1 .. Len(h)
  BY <1>1
<1>3. \A i \in 1 .. Len(h) : i \in 1 .. Len(g) /\ i < Len(h) + 1
  BY <1>1
<1>4. Len(g) \in Nat /\ Len(h) + 1 \in 1 .. Len(g) /\ MaxHistory \in Nat
  BY <1>1, SessionsAssumption
<1>5. \A i \in 1 .. Len(g) : g[i] = m \/ \E j \in 1 .. Len(h) : g[i] = h[j]
  BY <1>1, <1>2
<1>6. (Once(h) /\ \A j \in 1 .. Len(h) : h[j] # m) => Once(g)
  <2> SUFFICES ASSUME Once(h), \A j \in 1 .. Len(h) : h[j] # m,
                      NEW i \in 1 .. Len(g), NEW j \in 1 .. Len(g), g[i] = g[j]
               PROVE  i = j
    BY DEF Once
  <2>1. CASE i = Len(h) + 1 /\ j \in 1 .. Len(h)
    BY <2>1, <1>1
  <2>2. CASE j = Len(h) + 1 /\ i \in 1 .. Len(h)
    BY <2>2, <1>1
  <2>3. CASE i \in 1 .. Len(h) /\ j \in 1 .. Len(h)
    BY <2>3, <1>1 DEF Once
  <2> QED
    BY <2>1, <2>2, <2>3, <1>2
<1>7. ASSUME Forward(h), m[1] = "Human" => \A j \in 1 .. Len(h) : h[j] # <<"AI", m[2]>>
      PROVE  Forward(g)
  <2> SUFFICES ASSUME NEW i \in 1 .. Len(g), NEW j \in 1 .. Len(g),
                      g[i][1] = "AI", g[j] = <<"Human", g[i][2]>>
               PROVE  j < i
    BY DEF Forward
  <2>1. CASE i \in 1 .. Len(h) /\ j = Len(h) + 1
    <3>1. m = <<"Human", h[i][2]>> /\ h[i][1] = "AI" /\ h[i] \in Messages
      BY <2>1, <1>1
    <3>2. m[1] = "Human" /\ m[2] = h[i][2] /\ h[i] = <<"AI", h[i][2]>>
      BY <3>1 DEF Messages
    <3> QED
      BY <2>1, <3>2, <1>7
  <2>2. CASE i = Len(h) + 1 /\ j = Len(h) + 1
    <3>1. m = <<"Human", m[2]>> /\ m[1] = "AI"
      BY <2>2, <1>1
    <3> QED
      BY <3>1
  <2>3. CASE i = Len(h) + 1 /\ j \in 1 .. Len(h)
    BY <2>3, <1>3
  <2>4. CASE i \in 1 .. Len(h) /\ j \in 1 .. Len(h)
    BY <2>4, <1>1, <1>7 DEF Forward
  <2> QED
    BY <2>1, <2>2, <2>3, <2>4, <1>2
<1>8. Known(g, m)
  BY <1>1, <1>4 DEF Known, Holds
<1>9. ASSUME NEW x \in Messages, Known(h, x) PROVE Known(g, x)
  <2>1. CASE Holds(h, x)
    BY <2>1, <1>1, <1>3 DEF Known, Holds
  <2>2. CASE Len(h) >= MaxHistory
    BY <2>2, <1>1, <1>4 DEF Known
  <2> QED
    BY <1>9, <2>1, <2>2 DEF Known
<1> QED
  BY <1>1, <1>5, <1>6, <1>7, <1>8, <1>9 DEF g

\* The last messages are a piece of the history, all of it when it is short.
LEMMA RecentFacts ==
    ASSUME NEW h \in Seq(Messages)
    PROVE  LET g == Recent(h)
               d == IF Len(h) > MaxHistory THEN Len(h) - MaxHistory ELSE 0
           IN  /\ g \in Seq(Messages) /\ d \in Nat
               /\ \A i \in 1 .. Len(g) : i + d \in 1 .. Len(h) /\ g[i] = h[i + d]
               /\ Len(h) >= MaxHistory => Len(g) >= MaxHistory
               /\ Len(h) < MaxHistory => g = h
<1> DEFINE d == IF Len(h) > MaxHistory THEN Len(h) - MaxHistory ELSE 0
           g == Recent(h)
<1>1. MaxHistory \in Nat /\ MaxHistory > 0 /\ Len(h) \in Nat
  BY SessionsAssumption
<1>2. g = SubSeq(h, d + 1, Len(h)) /\ d \in Nat
  BY <1>1 DEF Recent
<1>3. d <= Len(h) /\ (Len(h) >= MaxHistory => Len(h) - d = MaxHistory) /\ (Len(h) < MaxHistory => d = 0)
  BY <1>1
<1> HIDE DEF d, g
<1>4. g \in Seq(Messages) /\ Len(g) = Len(h) - d /\ \A i \in 1 .. Len(g) : g[i] = h[d + i]
  BY <1>1, <1>2, <1>3
<1>5. \A i \in 1 .. Len(g) : i + d \in 1 .. Len(h) /\ g[i] = h[i + d]
  BY <1>1, <1>2, <1>3, <1>4
<1>6. Len(h) >= MaxHistory => Len(g) >= MaxHistory
  BY <1>1, <1>3, <1>4
<1>7. Len(h) < MaxHistory => g = h
  BY <1>1, <1>2, <1>3, <1>4
<1> QED
  BY <1>2, <1>4, <1>5, <1>6, <1>7 DEF d, g

\* What is in them.
LEMMA RecentHas ==
    ASSUME NEW h \in Seq(Messages)
    PROVE  LET g == Recent(h)
           IN  /\ g \in Seq(Messages)
               /\ \A i \in 1 .. Len(g) : \E j \in 1 .. Len(h) : g[i] = h[j]
               /\ Once(h) => Once(g)
               /\ Forward(h) => Forward(g)
               /\ \A x \in Messages : Known(h, x) => Known(g, x)
               /\ \A T : Ordered(h, T) => Ordered(g, T)
<1> DEFINE g == Recent(h)
<1>1. PICK d \in Nat :
          /\ g \in Seq(Messages)
          /\ \A i \in 1 .. Len(g) : i + d \in 1 .. Len(h) /\ g[i] = h[i + d]
          /\ Len(h) >= MaxHistory => Len(g) >= MaxHistory
          /\ Len(h) < MaxHistory => g = h
  BY RecentFacts
<1> HIDE DEF g
<1>2. MaxHistory \in Nat /\ Len(h) \in Nat /\ Len(g) \in Nat
  BY <1>1, SessionsAssumption
<1>3. \A i \in 1 .. Len(g) : \E j \in 1 .. Len(h) : g[i] = h[j]
  BY <1>1
<1>4. Once(h) => Once(g)
  <2> SUFFICES ASSUME Once(h), NEW i \in 1 .. Len(g), NEW j \in 1 .. Len(g), g[i] = g[j]
               PROVE  i = j
    BY DEF Once
  <2>1. i + d = j + d
    BY <1>1 DEF Once
  <2> QED
    BY <2>1, <1>2
<1>5. Forward(h) => Forward(g)
  <2> SUFFICES ASSUME Forward(h), NEW i \in 1 .. Len(g), NEW j \in 1 .. Len(g),
                      g[i][1] = "AI", g[j] = <<"Human", g[i][2]>>
               PROVE  j < i
    BY DEF Forward
  <2>1. j + d < i + d
    BY <1>1 DEF Forward
  <2> QED
    BY <2>1, <1>2
<1>6. \A x \in Messages : Known(h, x) => Known(g, x)
  <2>1. CASE Len(h) >= MaxHistory
    BY <2>1, <1>1 DEF Known
  <2>2. CASE Len(h) < MaxHistory
    BY <2>2, <1>1
  <2> QED
    BY <2>1, <2>2, <1>2
<1>7. \A T : Ordered(h, T) => Ordered(g, T)
  <2>1. CASE Len(h) >= MaxHistory
    BY <2>1, <1>1, <1>2 DEF Ordered
  <2>2. CASE Len(h) < MaxHistory
    BY <2>2, <1>1
  <2> QED
    BY <2>1, <2>2, <1>2
<1> QED
  BY <1>1, <1>3, <1>4, <1>5, <1>6, <1>7 DEF g

\* Answers are appended after their questions.
LEMMA AppendKeepsOrder ==
    ASSUME NEW h \in Seq(Messages), NEW m \in Messages, NEW T,
           Ordered(h, T),
           m[1] = "AI" /\ m[2] \notin T => Known(h, <<"Human", m[2]>>)
    PROVE  Ordered(Append(h, m), T)
<1> DEFINE g == Append(h, m)
<1>1. /\ g \in Seq(Messages) /\ Len(h) \in Nat /\ Len(g) = Len(h) + 1 /\ g[Len(h) + 1] = m
      /\ \A i \in 1 .. Len(h) : g[i] = h[i]
  OBVIOUS
<1> HIDE DEF g
<1>2. MaxHistory \in Nat
  BY SessionsAssumption
<1> SUFFICES ASSUME Len(g) < MaxHistory, NEW i \in 1 .. Len(g),
                    g[i][1] = "AI", g[i][2] \notin T
             PROVE  Holds(g, <<"Human", g[i][2]>>)
  BY DEF Ordered, g
<1>3. Len(h) < MaxHistory /\ ~(Len(h) >= MaxHistory)
  BY <1>1, <1>2
<1>4. \A x : Holds(h, x) => Holds(g, x)
  <2>1. \A j \in 1 .. Len(h) : j \in 1 .. Len(g)
    BY <1>1
  <2> QED
    BY <1>1, <2>1 DEF Holds
<1>5. CASE i = Len(h) + 1
  BY <1>1, <1>3, <1>4, <1>5 DEF Known
<1>6. CASE i \in 1 .. Len(h)
  BY <1>1, <1>3, <1>4, <1>6 DEF Ordered
<1> QED
  BY <1>1, <1>5, <1>6

-----------------------------------------------------------------------------
(* Objects and the cache *)

\* There are finitely many actors, and objects enough for each, the cache and a new one.
LEMMA ActorFacts ==
    /\ IsFiniteSet(Actors) /\ Cardinality(Actors) \in Nat
    /\ Objects = 1 .. Cardinality(Actors) + 2 /\ None \notin Objects /\ None \notin Sockets
<1>1. IsFiniteSet(Actors) /\ None \notin Nat /\ None \notin Sockets
  BY SessionsAssumption
<1>2. Cardinality(Actors) \in Nat
  BY <1>1, FS_CardinalityType
<1>3. Objects \subseteq Nat
  BY <1>2 DEF Objects
<1> QED
  BY <1>1, <1>2, <1>3 DEF Objects

\* There are more objects than references to them.
LEMMA SessionFresh ==
    ASSUME SessionTypes
    PROVE  Fresh \in Objects /\ Fresh # cache /\ \A a \in Actors : wm[a] # Fresh
<1> DEFINE n == Cardinality(Actors)
           S == Objects \ {cache}
           Free(o) == o # cache /\ \A a \in Actors : wm[a] # o
<1>1. n \in Nat /\ IsFiniteSet(Actors)
  BY ActorFacts
<1>2. IsFiniteSet(Objects) /\ Cardinality(Objects) = n + 2
  <2> DEFINE k == n + 2
  <2>1. 1 \in Int /\ k \in Int /\ ~(1 > k) /\ Objects = 1 .. k /\ k - 1 + 1 = n + 2
    BY <1>1 DEF Objects
  <2> HIDE DEF k, n
  <2> QED
    BY <2>1, FS_Interval
<1>3. IsFiniteSet(S) /\ Cardinality(S) > n
  <2>1. /\ IsFiniteSet(S)
        /\ Cardinality(S) = IF cache \in Objects THEN Cardinality(Objects) - 1
                            ELSE Cardinality(Objects)
    BY <1>2, FS_RemoveElement
  <2> HIDE DEF n, S
  <2> QED
    BY <2>1, <1>1, <1>2
<1>4. \E o \in Objects : Free(o)
  <2> SUFFICES ASSUME \A o \in Objects : ~Free(o) PROVE FALSE
    OBVIOUS
  <2> DEFINE holder == [o \in S |-> CHOOSE a \in Actors : wm[a] = o]
  <2>1. \A o \in S : holder[o] \in Actors /\ wm[holder[o]] = o
    OBVIOUS
  <2>2. holder \in [S -> Actors]
    BY <2>1
  <2> HIDE DEF holder, S, n
  <2>3. Cardinality(Actors) < Cardinality(S)
    <3>1. Cardinality(S) \in Nat
      BY <1>3, FS_CardinalityType
    <3> QED
      BY <3>1, <1>1, <1>3 DEF n
  <2>4. PICK x \in S, y \in S : x # y /\ holder[x] = holder[y]
    BY <1>1, <1>3, <2>2, <2>3, FS_PigeonHole
  <2> QED
    BY <2>1, <2>4
<1> QED
  BY <1>4 DEF Fresh

\* Two actors with a working memory are more than one user.
LEMMA TwoUsers ==
    ASSUME NEW w, NEW a \in Users(w), NEW b \in Users(w), a # b
    PROVE  Cardinality(Users(w)) > 1
<1>1. IsFiniteSet(Actors) /\ Users(w) \in SUBSET Actors
  BY ActorFacts DEF Users
<1>2. IsFiniteSet(Users(w))
  BY <1>1, FS_Subset
<1>3. IsFiniteSet({a}) /\ Cardinality({a}) = 1
  BY FS_Singleton
<1>4. IsFiniteSet({a} \cup {b}) /\ Cardinality({a} \cup {b}) = 2
  <2>1. b \notin {a}
    OBVIOUS
  <2>2. /\ IsFiniteSet({a} \cup {b})
        /\ Cardinality({a} \cup {b}) = IF b \in {a} THEN Cardinality({a}) ELSE Cardinality({a}) + 1
    BY <1>3, FS_AddElement
  <2> QED
    BY <1>3, <2>1, <2>2
<1>5. {a} \cup {b} \in SUBSET Users(w)
  OBVIOUS
<1>6. Cardinality({a} \cup {b}) <= Cardinality(Users(w)) /\ Cardinality(Users(w)) \in Nat
  BY <1>2, <1>5, FS_Subset, FS_CardinalityType
<1> QED
  BY <1>4, <1>6

\* Referenced objects keep their contents, the others are emptied; what is not
\* forked is shared.
LEMMA MemoryFacts ==
    ASSUME SessionTypes,
           NEW h \in [Objects -> Seq(Messages)],
           NEW c \in Objects \union {None},
           NEW w \in [Actors -> Objects \union {None}],
           SetMemory(h, c, w)
    PROVE  /\ cache' = c /\ wm' = w
           /\ forked' \in BOOLEAN /\ (forked => forked')
           /\ heap' \in [Objects -> Seq(Messages)]
           /\ \A o \in Objects : heap'[o] = h[o] \/ heap'[o] = <<>>
           /\ c # None => heap'[c] = h[c]
           /\ \A a \in Actors : w[a] # None => heap'[w[a]] = h[w[a]]
           /\ ~forked' => \A a, b \in Actors :
                  w[a] # None /\ w[b] # None /\ a # b => w[b] = w[a] /\ c \in {w[a], None}
<1>1. cache' = c /\ wm' = w /\ forked' \in BOOLEAN /\ (forked => forked')
  BY DEF SetMemory, SessionTypes
<1>2. /\ heap' \in [Objects -> Seq(Messages)]
      /\ \A o \in Objects : heap'[o] = h[o] \/ heap'[o] = <<>>
      /\ c # None => heap'[c] = h[c]
      /\ \A a \in Actors : w[a] # None => heap'[w[a]] = h[w[a]]
  BY DEF SetMemory
<1>3. ASSUME ~forked', NEW a \in Actors, NEW b \in Actors, w[a] # None, w[b] # None, a # b
      PROVE  w[b] = w[a] /\ c \in {w[a], None}
  <2>1. a \in Users(w) /\ b \in Users(w)
    BY <1>3 DEF Users
  <2>2. Cardinality(Users(w)) > 1
    BY <1>3, <2>1, TwoUsers
  <2> QED
    BY <1>3, <2>1, <2>2 DEF SetMemory
<1> QED
  BY <1>1, <1>2, <1>3

\* a gets the working memory of the cache, or a new object with what it contains.
LEMMA LoadFacts ==
    ASSUME SessionTypes, StageInv, NEW a \in Actors, load_working_memory_from_cache(a)
    PROVE  /\ ~cut /\ cut' = cut /\ cache' = cache
           /\ wm' \in [Actors -> Objects \union {None}] /\ wm'[a] # None
           /\ \A b \in Actors \ {a} : wm'[b] = wm[b]
           /\ forked' \in BOOLEAN /\ (forked => forked')
           /\ heap' \in [Objects -> Seq(Messages)]
           /\ \A o \in Objects : heap'[o] = <<>> \/ \E q \in Objects : heap'[o] = heap[q]
           /\ heap'[wm'[a]] = IF cache = None THEN <<>> ELSE heap[cache]
           /\ cache # None => heap'[cache] = heap[cache]
           /\ \A b \in Actors \ {a} : wm[b] # None => heap'[wm[b]] = heap[wm[b]]
           /\ copies => wm'[a] # cache /\ \A b \in Actors : wm[b] # wm'[a]
           /\ cache = None => \A b \in Actors : wm[b] # wm'[a]
           /\ ~copies /\ cache # None => wm'[a] = cache
           /\ ~forked' => \A b, c \in Actors :
                  wm'[b] # None /\ wm'[c] # None /\ b # c =>
                      wm'[c] = wm'[b] /\ cache \in {wm'[b], None}
<1> DEFINE o == IF cache # None /\ ~copies THEN cache ELSE Fresh
           h == IF cache = None THEN <<>> ELSE heap[cache]
           hp == [heap EXCEPT ![o] = h]
           w == [wm EXCEPT ![a] = o]
<1>1. ~cut /\ cut' = cut /\ SetMemory(hp, cache, w)
  BY DEF load_working_memory_from_cache
<1>2. Fresh \in Objects /\ Fresh # cache /\ \A b \in Actors : wm[b] # Fresh
  BY SessionFresh
<1>3. None \notin Objects
  BY ActorFacts
<1>4. o \in Objects /\ h \in Seq(Messages)
  BY <1>2 DEF SessionTypes
<1>5. /\ hp \in [Objects -> Seq(Messages)] /\ hp[o] = h
      /\ \A p \in Objects \ {o} : hp[p] = heap[p]
  BY <1>4 DEF SessionTypes
<1>6. /\ w \in [Actors -> Objects \union {None}] /\ w[a] = o
      /\ \A b \in Actors \ {a} : w[b] = wm[b]
  BY <1>4 DEF SessionTypes
<1>7. cache \in Objects \union {None}
  BY DEF SessionTypes
<1>8. /\ copies \/ cache = None => o = Fresh
      /\ ~copies /\ cache # None => o = cache
  OBVIOUS
<1>9. h = IF cache = None THEN <<>> ELSE heap[cache]
  OBVIOUS
<1> HIDE DEF o, h, hp, w
<1>10. /\ cache' = cache /\ wm' = w
       /\ forked' \in BOOLEAN /\ (forked => forked')
       /\ heap' \in [Objects -> Seq(Messages)]
       /\ \A p \in Objects : heap'[p] = hp[p] \/ heap'[p] = <<>>
       /\ cache # None => heap'[cache] = hp[cache]
       /\ \A b \in Actors : w[b] # None => heap'[w[b]] = hp[w[b]]
       /\ ~forked' => \A b, c \in Actors :
              w[b] # None /\ w[c] # None /\ b # c => w[c] = w[b] /\ cache \in {w[b], None}
  BY <1>1, <1>5, <1>6, <1>7, MemoryFacts
<1>11. ASSUME NEW p \in Objects
       PROVE  heap'[p] = <<>> \/ \E q \in Objects : heap'[p] = heap[q]
  BY <1>10, <1>5, <1>9, <1>7
<1>12. o # None
  BY <1>3, <1>4
<1>13. heap'[wm'[a]] = IF cache = None THEN <<>> ELSE heap[cache]
  BY <1>10, <1>6, <1>5, <1>9, <1>12
<1>14. cache # None => heap'[cache] = heap[cache]
  BY <1>10, <1>5, <1>9, <1>7
<1>15. ASSUME NEW b \in Actors \ {a}, wm[b] # None PROVE heap'[wm[b]] = heap[wm[b]]
  <2>1. heap'[wm[b]] = hp[wm[b]] /\ wm[b] \in Objects
    BY <1>15, <1>10, <1>6 DEF SessionTypes
  <2>2. CASE wm[b] = o
    BY <2>1, <2>2, <1>5, <1>8, <1>9, <1>2
  <2>3. CASE wm[b] # o
    BY <2>1, <2>3, <1>5
  <2> QED
    BY <2>2, <2>3
<1>16. /\ copies => wm'[a] # cache /\ \A b \in Actors : wm[b] # wm'[a]
       /\ cache = None => \A b \in Actors : wm[b] # wm'[a]
       /\ ~copies /\ cache # None => wm'[a] = cache
  BY <1>10, <1>6, <1>8, <1>2
<1> QED
  BY <1>1, <1>6, <1>10, <1>11, <1>12, <1>13, <1>14, <1>15, <1>16

\* The cache gets the working memory of a, or a copy of it; a may let it go.
LEMMA UpdateFacts ==
    ASSUME SessionTypes, StageInv, NEW a \in Actors, wm[a] # None,
           NEW w \in [Actors -> Objects \union {None}],
           w[a] \in {wm[a], None}, \A b \in Actors \ {a} : w[b] = wm[b],
           update_working_memory_cache(a, w)
    PROVE  /\ cut' = FALSE /\ cache' \in Objects /\ wm' = w
           /\ forked' \in BOOLEAN /\ (forked => forked')
           /\ heap' \in [Objects -> Seq(Messages)]
           /\ \A o \in Objects : heap'[o] = <<>> \/ \E q \in Objects : heap'[o] = heap[q]
           /\ heap'[cache'] = heap[wm[a]]
           /\ \A b \in Actors : w[b] # None => heap'[w[b]] = heap[w[b]]
           /\ copies => \A b \in Actors : wm[b] # cache'
           /\ ~copies => cache' = wm[a]
           /\ ~forked' => \A b, c \in Actors :
                  w[b] # None /\ w[c] # None /\ b # c => w[c] = w[b] /\ cache' \in {w[b], None}
<1> DEFINE o == IF ~copies THEN wm[a] ELSE IF cache = None THEN Fresh ELSE cache
           hp == [heap EXCEPT ![o] = heap[wm[a]]]
<1>1. cut' = FALSE /\ SetMemory(hp, o, w)
  BY DEF update_working_memory_cache
<1>2. Fresh \in Objects /\ Fresh # cache /\ \A b \in Actors : wm[b] # Fresh
  BY SessionFresh
<1>3. None \notin Objects
  BY ActorFacts
<1>4. o \in Objects /\ wm[a] \in Objects /\ heap[wm[a]] \in Seq(Messages)
  BY <1>2 DEF SessionTypes
<1>5. /\ hp \in [Objects -> Seq(Messages)] /\ hp[o] = heap[wm[a]]
      /\ \A p \in Objects \ {o} : hp[p] = heap[p]
  BY <1>4 DEF SessionTypes
<1>6. /\ ~copies => o = wm[a]
      /\ copies => \A b \in Actors : wm[b] # o
  <2>1. CASE copies /\ cache # None
    <3>1. o = cache
      BY <2>1
    <3> QED
      BY <2>1, <3>1 DEF StageInv
  <2>2. CASE copies /\ cache = None
    BY <2>2, <1>2
  <2> QED
    BY <2>1, <2>2
<1> HIDE DEF o, hp
<1>7. /\ cache' = o /\ wm' = w
      /\ forked' \in BOOLEAN /\ (forked => forked')
      /\ heap' \in [Objects -> Seq(Messages)]
      /\ \A p \in Objects : heap'[p] = hp[p] \/ heap'[p] = <<>>
      /\ o # None => heap'[o] = hp[o]
      /\ \A b \in Actors : w[b] # None => heap'[w[b]] = hp[w[b]]
      /\ ~forked' => \A b, c \in Actors :
             w[b] # None /\ w[c] # None /\ b # c => w[c] = w[b] /\ o \in {w[b], None}
  BY <1>1, <1>4, <1>5, MemoryFacts
<1>8. ASSUME NEW p \in Objects
      PROVE  heap'[p] = <<>> \/ \E q \in Objects : heap'[p] = heap[q]
  BY <1>7, <1>5, <1>4
<1>9. heap'[o] = heap[wm[a]]
  BY <1>7, <1>5, <1>4, <1>3
<1>10. ASSUME NEW b \in Actors, w[b] # None PROVE heap'[w[b]] = heap[w[b]]
  <2>1. heap'[w[b]] = hp[w[b]] /\ w[b] \in Objects /\ w[b] = wm[b]
    BY <1>10, <1>7 DEF SessionTypes
  <2>2. CASE w[b] = o
    BY <2>1, <2>2, <1>5, <1>6
  <2>3. CASE w[b] # o
    BY <2>1, <2>3, <1>5
  <2> QED
    BY <2>2, <2>3
<1> QED
  BY <1>1, <1>4, <1>6, <1>7, <1>8, <1>9, <1>10

-----------------------------------------------------------------------------
(* What most steps have in common *)

\* Only a moves.
OthersStay(a) ==
    /\ pc' \in [Actors -> Stages] /\ turn' \in [Actors -> Nat]
    /\ \A b \in Actors \ {a} : pc'[b] = pc[b] /\ turn'[b] = turn[b]

\* Histories are only copied and dropped.
OnlyCopies == \A o \in Objects : heap'[o] = <<>> \/ \E q \in Objects : heap'[o] = heap[q]

\* Goto moves one actor.
LEMMA GotoFacts ==
    ASSUME SessionTypes, NEW a \in Actors, NEW l \in Stages, Goto(a, l)
    PROVE  pc' \in [Actors -> Stages] /\ pc'[a] = l /\ \A b \in Actors \ {a} : pc'[b] = pc[b]
BY DEF SessionTypes, Goto

\* A step that begins no turn, or one that begins turn turns + 1, makes no old
\* message possible again.
LEMMA PendingShrinks ==
    ASSUME SessionTypes, NEW a \in Actors, OthersStay(a),
           \/ /\ turns' = turns
              /\ pc'[a] = "human" => pc[a] = "human" /\ turn'[a] = turn[a]
              /\ pc'[a] \in Asked => pc[a] \in {"human"} \union Asked /\ turn'[a] = turn[a]
           \/ turns' = turns + 1 /\ turn'[a] = turns + 1 /\ pc'[a] \notin Asked
    PROVE  \A m \in Messages : Pending(m, pc', turn', turns') => Pending(m, pc, turn, turns)
<1> SUFFICES ASSUME NEW m \in Messages, Pending(m, pc', turn', turns')
             PROVE  Pending(m, pc, turn, turns)
  OBVIOUS
<1>1. m[2] \in Nat /\ turns \in Nat /\ (m = <<"AI", m[2]>> \/ m[1] # "AI")
  BY DEF Messages, SessionTypes
<1>2. CASE m[2] > turns'
  BY <1>1, <1>2 DEF Pending
<1>3. CASE \E b \in Actors : pc'[b] = "human" /\ m[2] = turn'[b]
  BY <1>1, <1>3 DEF Pending, OthersStay
<1>4. CASE \E b \in Actors : pc'[b] \in Asked /\ m = <<"AI", turn'[b]>>
  <2>1. PICK b \in Actors : pc'[b] \in Asked /\ m = <<"AI", turn'[b]>>
    BY <1>4
  <2>2. CASE b = a
    <3>1. pc[a] \in {"human"} \union Asked /\ m = <<"AI", turn[a]>> /\ m[2] = turn[a]
      BY <2>1, <2>2, <1>1
    <3> QED
      BY <3>1 DEF Pending
  <2>3. CASE b # a
    BY <2>1, <2>3 DEF Pending, OthersStay
  <2> QED
    BY <2>2, <2>3
<1> QED
  BY <1>2, <1>3, <1>4 DEF Pending

\* A history stays sound while no old message becomes possible again.
LEMMA SoundStays ==
    ASSUME NEW h \in Seq(Messages), Sound(h, pc, turn, turns),
           \A m \in Messages : Pending(m, pc', turn', turns') => Pending(m, pc, turn, turns)
    PROVE  Sound(h, pc', turn', turns')
<1>1. \A i \in 1 .. Len(h) : h[i] \in Messages
  OBVIOUS
<1> QED
  BY <1>1 DEF Sound

\* Steps that only copy histories bring no message back.
LEMMA CopiesKeepMessages ==
    ASSUME SessionTypes, MessageInv, OnlyCopies, \A a \in Actors : tail'[a] \in {<<>>, tail[a]},
           \A m \in Messages : Pending(m, pc', turn', turns') => Pending(m, pc, turn, turns)
    PROVE  MessageInv'
<1>1. Sound(<<>>, pc', turn', turns')
  BY DEF Sound, Once, Forward
<1>2. \A o \in Objects : heap[o] \in Seq(Messages) /\ Sound(heap[o], pc, turn, turns)
  BY DEF MessageInv, SessionTypes
<1>3. \A o \in Objects : Sound(heap[o], pc', turn', turns')
  BY <1>2, SoundStays
<1>4. \A a \in Actors : tail[a] \in Seq(Messages) /\ Sound(tail[a], pc, turn, turns)
  BY DEF MessageInv, SessionTypes
<1>5. \A a \in Actors : Sound(tail[a], pc', turn', turns')
  BY <1>4, SoundStays
<1>6. ASSUME NEW o \in Objects PROVE Sound(heap'[o], pc', turn', turns')
  BY <1>1, <1>3 DEF OnlyCopies
<1>7. ASSUME NEW a \in Actors PROVE Sound(tail'[a], pc', turn', turns')
  BY <1>1, <1>5
<1> QED
  BY <1>6, <1>7 DEF MessageInv

\* The tail of an actor whose object nobody changes.
LEMMA TailsStay ==
    ASSUME TailInv, NEW a \in Actors, OthersStay(a), tail' = tail, interfered' = interfered,
           pc'[a] \notin MidUpdate,
           \A b \in Actors \ {a} : pc[b] \in MidUpdate => wm'[b] = wm[b] /\ heap'[wm[b]] = heap[wm[b]]
    PROVE  TailInv'
<1> SUFFICES ASSUME ~interfered, NEW b \in Actors, pc'[b] \in MidUpdate
             PROVE  /\ \A c \in Actors \ {b} : wm'[c] = wm'[b] => pc'[c] \notin MidUpdate
                    /\ pc'[b] \in Assigning => tail'[b] = Recent(heap'[wm'[b]])
  BY DEF TailInv
<1>1. b # a /\ pc'[b] = pc[b] /\ wm'[b] = wm[b] /\ heap'[wm[b]] = heap[wm[b]]
  BY DEF OthersStay
<1>2. /\ \A c \in Actors \ {b} : wm[c] = wm[b] => pc[c] \notin MidUpdate
      /\ pc[b] \in Assigning => tail[b] = Recent(heap[wm[b]])
  BY <1>1 DEF TailInv
<1>3. ASSUME NEW c \in Actors \ {b}, wm'[c] = wm'[b], pc'[c] \in MidUpdate PROVE FALSE
  <2>1. c # a /\ pc[c] \in MidUpdate
    BY <1>3 DEF OthersStay
  <2>2. wm'[c] = wm[c]
    BY <2>1
  <2> QED
    BY <1>1, <1>2, <1>3, <2>1, <2>2
<1> QED
  BY <1>1, <1>2, <1>3

\* Steps that only copy histories keep their order.
LEMMA CopiesKeepOrder ==
    ASSUME \A o \in Objects : Ordered(heap[o], torn), OnlyCopies, torn \subseteq torn'
    PROVE  \A o \in Objects : Ordered(heap'[o], torn')
<1> SUFFICES ASSUME NEW o \in Objects PROVE Ordered(heap'[o], torn')
  OBVIOUS
<1>1. CASE heap'[o] = <<>>
  BY <1>1 DEF Ordered
<1>2. ASSUME NEW q \in Objects, heap'[o] = heap[q] PROVE Ordered(heap'[o], torn')
  BY <1>2 DEF Ordered
<1> QED
  BY <1>1, <1>2 DEF OnlyCopies

-----------------------------------------------------------------------------
(* One lemma per kind of step.  SocketInv is preserved on its own. *)

\* The actor goes on in its turn, or leaves it.
LEMMA SilentStep ==
    ASSUME SessionInv, NEW a \in Actors, OthersStay(a), SocketInv',
           copies' = copies /\ heap' = heap /\ cache' = cache /\ wm' = wm /\ forked' = forked,
           turns' = turns /\ evictions' = evictions /\ restarts' = restarts,
           kept' = kept /\ wiped' = wiped /\ torn' = torn,
           tail' = tail /\ interfered' = interfered,
           cut' \in BOOLEAN, connections' \in Sockets \union {None},
           pc[a] \notin {"idle", "end"}, pc'[a] \notin {"idle", "human"} \union Asked \union MidUpdate,
           pc'[a] \in Talking => pc[a] \in Talking /\ turn'[a] = turn[a],
           pc'[a] \in {"save", "dump"} => pc[a] \in {"save", "dump"}
    PROVE  SessionInv'
<1>1. SessionTypes'
  BY DEF SessionInv, SessionTypes, OthersStay
<1>2. StageInv'
  <2>1. StageInv /\ wm \in [Actors -> Objects \union {None}]
    BY DEF SessionInv, SessionTypes
  <2>2. \A b \in Actors : pc'[b] \in Talking => pc[b] \in Talking /\ turn'[b] = turn[b]
    BY DEF OthersStay
  <2>3. \A b \in Actors : pc'[b] = "idle" <=> pc[b] = "idle"
    BY DEF OthersStay
  <2> QED
    BY <2>1, <2>2, <2>3 DEF StageInv
<1>3. MessageInv'
  <2>1. \A m \in Messages : Pending(m, pc', turn', turns') => Pending(m, pc, turn, turns)
    BY PendingShrinks DEF SessionInv
  <2>2. OnlyCopies
    BY DEF OnlyCopies
  <2> QED
    BY <2>1, <2>2, CopiesKeepMessages DEF SessionInv
<1>m. TailInv'
  BY TailsStay DEF SessionInv
<1>4. OrderInv'
  <2> SUFFICES ASSUME ~interfered'
               PROVE  (\A o \in Objects : Ordered(heap'[o], torn')) /\ \A b \in Actors : Said(b)'
    BY DEF OrderInv
  <2>1. \A o \in Objects : Ordered(heap'[o], torn')
    BY DEF SessionInv, OrderInv
  <2>2. ASSUME NEW b \in Actors PROVE Said(b)'
    <3>1. Said(b)
      BY DEF SessionInv, OrderInv
    <3>2. CASE b = a
      <4>1. pc'[a] \in Answered => pc'[a] \in {"save", "dump"} /\ pc'[a] \in Talking /\ pc[a] \in Answered
        BY DEF Talking, Answered, MidUpdate
      <4> QED
        BY <3>1, <3>2, <4>1 DEF Said
    <3>3. CASE b # a
      BY <3>1, <3>3 DEF Said, OthersStay
    <3> QED
      BY <3>2, <3>3
  <2> QED
    BY <2>1, <2>2
<1>5. ShareInv' /\ KeepInv'
  BY DEF SessionInv, ShareInv, KeepInv, Users
<1>6. CleanInv'
  <2>1. \A b \in Actors : pc[b] = "end" => pc'[b] = "end"
    BY DEF OthersStay
  <2> QED
    BY <2>1 DEF SessionInv, CleanInv, Users
<1> QED
  BY <1>1, <1>2, <1>3, <1>m, <1>4, <1>5, <1>6 DEF SessionInv

\* A StrayCat loads the working memory; with "human" a turn begins.
LEMMA LoadStep ==
    ASSUME SessionInv, NEW a \in Actors, OthersStay(a), SocketInv',
           load_working_memory_from_cache(a),
           copies' = copies /\ evictions' = evictions /\ restarts' = restarts,
           kept' = kept /\ wiped' = wiped /\ torn' = torn /\ connections' = connections,
           tail' = tail /\ interfered' = interfered,
           pc[a] \in {"idle", "open"}, pc'[a] \in {"human", "wipe", "end", "accept"},
           \/ turns' = turns /\ pc'[a] # "human"
           \/ turns' = turns + 1 /\ turn'[a] = turns + 1 /\ pc'[a] = "human"
    PROVE  SessionInv'
<1>1. SessionTypes /\ StageInv /\ None \notin Objects
  BY ActorFacts DEF SessionInv
<1>2. /\ cut' = cut /\ cache' = cache
      /\ wm' \in [Actors -> Objects \union {None}] /\ wm'[a] # None
      /\ \A b \in Actors \ {a} : wm'[b] = wm[b]
      /\ forked' \in BOOLEAN /\ (forked => forked')
      /\ heap' \in [Objects -> Seq(Messages)]
      /\ \A o \in Objects : heap'[o] = <<>> \/ \E q \in Objects : heap'[o] = heap[q]
      /\ heap'[wm'[a]] = IF cache = None THEN <<>> ELSE heap[cache]
      /\ cache # None => heap'[cache] = heap[cache]
      /\ \A b \in Actors \ {a} : wm[b] # None => heap'[wm[b]] = heap[wm[b]]
      /\ copies => wm'[a] # cache /\ \A b \in Actors : wm[b] # wm'[a]
      /\ cache = None => \A b \in Actors : wm[b] # wm'[a]
      /\ ~copies /\ cache # None => wm'[a] = cache
      /\ ~forked' => \A b, c \in Actors :
             wm'[b] # None /\ wm'[c] # None /\ b # c =>
                 wm'[c] = wm'[b] /\ cache \in {wm'[b], None}
  BY <1>1, LoadFacts
<1>3. turns \in Nat /\ turns' \in Nat /\ turns' >= turns /\ wiped \subseteq 1 .. turns
  BY <1>1 DEF SessionTypes
<1>4. SessionTypes'
  <2>1. wiped' \subseteq 1 .. turns'
    BY <1>3
  <2> QED
    BY <1>1, <1>2, <1>3, <2>1 DEF SessionTypes, OthersStay
<1>5. StageInv'
  <2>1. ASSUME NEW b \in Actors
        PROVE  /\ pc'[b] = "idle" <=> wm'[b] = None
               /\ pc'[b] \in Talking => turn'[b] \in 1 .. turns' /\ turn'[b] \notin wiped'
    <3>1. CASE b = a
      <4>1. pc'[a] \in Talking => pc'[a] = "human"
        BY DEF Talking, MidUpdate
      <4> QED
        BY <3>1, <4>1, <1>2, <1>3
    <3>2. CASE b # a
      <4>1. pc'[b] = pc[b] /\ turn'[b] = turn[b] /\ wm'[b] = wm[b]
        BY <3>2, <1>2 DEF OthersStay
      <4>2. /\ pc[b] = "idle" <=> wm[b] = None
            /\ pc[b] \in Talking => turn[b] \in 1 .. turns /\ turn[b] \notin wiped
        BY <1>1 DEF StageInv
      <4> QED
        BY <4>1, <4>2, <1>3
    <3> QED
      BY <3>1, <3>2
  <2>2. ASSUME NEW b \in Actors, NEW c \in Actors, b # c,
               pc'[b] \in Talking, pc'[c] \in Talking
        PROVE  turn'[b] # turn'[c]
    <3>1. pc'[a] \in Talking => turn'[a] = turns + 1
      BY DEF Talking, MidUpdate
    <3>2. \A d \in Actors \ {a} : pc'[d] \in Talking => turn'[d] = turn[d] /\ turn[d] \in 1 .. turns
      BY <1>1 DEF StageInv, OthersStay
    <3>3. CASE b # a /\ c # a
      BY <2>2, <3>3, <1>1 DEF StageInv, OthersStay
    <3>4. CASE b = a \/ c = a
      BY <2>2, <3>1, <3>2, <3>4, <1>3
    <3> QED
      BY <3>3, <3>4
  <2>3. ASSUME copies', NEW b \in Actors, wm'[b] # None
        PROVE  wm'[b] # cache' /\ \A c \in Actors \ {b} : wm'[c] # wm'[b]
    <3>1. CASE b = a
      BY <2>3, <3>1, <1>2
    <3>2. CASE b # a
      BY <2>3, <3>2, <1>1, <1>2 DEF StageInv
    <3> QED
      BY <3>1, <3>2
  <2> QED
    BY <2>1, <2>2, <2>3 DEF StageInv
<1>6. OnlyCopies
  BY <1>2 DEF OnlyCopies
<1>7. MessageInv'
  <2>1. \A m \in Messages : Pending(m, pc', turn', turns') => Pending(m, pc, turn, turns)
    <3>1. pc'[a] \notin Asked
      BY DEF Asked
    <3> QED
      BY <1>1, <3>1, PendingShrinks
  <2> QED
    BY <1>6, <2>1, CopiesKeepMessages DEF SessionInv
<1>m. TailInv'
  <2>1. pc'[a] \notin MidUpdate
    BY DEF MidUpdate
  <2>2. \A b \in Actors \ {a} : pc[b] \in MidUpdate => wm'[b] = wm[b] /\ heap'[wm[b]] = heap[wm[b]]
    <3>1. \A b \in Actors : pc[b] \in MidUpdate => wm[b] # None
      BY <1>1 DEF StageInv, MidUpdate
    <3> QED
      BY <3>1, <1>2
  <2> QED
    BY <2>1, <2>2, TailsStay DEF SessionInv
<1>8. OrderInv'
  <2> SUFFICES ASSUME ~interfered'
               PROVE  (\A o \in Objects : Ordered(heap'[o], torn')) /\ \A b \in Actors : Said(b)'
    BY DEF OrderInv
  <2>1. \A o \in Objects : Ordered(heap'[o], torn')
    BY <1>6, CopiesKeepOrder DEF SessionInv, OrderInv
  <2>2. ASSUME NEW b \in Actors PROVE Said(b)'
    <3>1. CASE b = a
      BY <3>1 DEF Said, Asked, Answered
    <3>2. CASE b # a
      <4>1. Said(b) /\ pc'[b] = pc[b] /\ turn'[b] = turn[b] /\ wm'[b] = wm[b]
        BY <3>2, <1>2 DEF SessionInv, OrderInv, OthersStay
      <4>2. CASE wm[b] # None
        BY <3>2, <4>1, <4>2, <1>2 DEF Said
      <4>3. CASE wm[b] = None
        BY <4>1, <4>3, <1>1 DEF Said, StageInv, Asked, Answered
      <4> QED
        BY <4>2, <4>3
    <3> QED
      BY <3>1, <3>2
  <2> QED
    BY <2>1, <2>2
<1>9. ShareInv'
  <2> SUFFICES ASSUME ~forked', NEW b \in Actors, wm'[b] # None
               PROVE  /\ \A c \in Actors \ {b} : wm'[c] # None => ~copies /\ wm'[c] = wm'[b]
                      /\ ~copies => cache \in {wm'[b], None}
    BY <1>2 DEF ShareInv, Users
  <2>1. ASSUME NEW c \in Actors \ {b}, wm'[c] # None
        PROVE  ~copies /\ wm'[c] = wm'[b]
    <3>1. wm'[c] = wm'[b]
      BY <2>1, <1>2
    <3>2. copies' = copies /\ (copies' => wm'[c] # wm'[b])
      BY <2>1, <1>5 DEF StageInv
    <3> QED
      BY <3>1, <3>2
  <2>2. ASSUME ~copies PROVE cache \in {wm'[b], None}
    <3>1. CASE b = a
      BY <2>2, <3>1, <1>2
    <3>2. CASE b # a
      BY <2>2, <3>2, <1>2 DEF SessionInv, ShareInv, Users
    <3> QED
      BY <3>1, <3>2
  <2> QED
    BY <2>1, <2>2
<1>10. KeepInv'
  <2> SUFFICES ASSUME ~forked', ~interfered, evictions = 0, kept # 0
               PROVE  /\ cache # None /\ Known(heap'[cache], <<"AI", kept>>)
                      /\ \A b \in Actors : wm'[b] # None => Known(heap'[wm'[b]], <<"AI", kept>>)
    BY <1>2 DEF KeepInv, Users
  <2>1. /\ cache # None /\ Known(heap[cache], <<"AI", kept>>)
        /\ \A b \in Actors : wm[b] # None => Known(heap[wm[b]], <<"AI", kept>>)
    BY <1>2 DEF SessionInv, KeepInv, Users
  <2>2. ASSUME NEW b \in Actors, wm'[b] # None PROVE Known(heap'[wm'[b]], <<"AI", kept>>)
    <3>1. CASE b = a
      BY <2>1, <3>1, <1>2
    <3>2. CASE b # a
      BY <2>1, <2>2, <3>2, <1>2
    <3> QED
      BY <3>1, <3>2
  <2> QED
    BY <2>1, <2>2, <1>2
<1>11. CleanInv'
  <2> SUFFICES ASSUME ~forked', ~interfered
               PROVE  /\ \A b \in Actors : wm'[b] # None => Clean(heap'[wm'[b]], wiped)
                      /\ cache # None =>
                            Clean(heap'[cache], wiped) \/ (copies /\ \E b \in Actors : pc'[b] = "end")
    BY <1>2 DEF CleanInv, Users
  <2>1. /\ \A b \in Actors : wm[b] # None => Clean(heap[wm[b]], wiped)
        /\ cache # None =>
              Clean(heap[cache], wiped) \/ (copies /\ \E b \in Actors : pc[b] = "end")
    BY <1>2 DEF SessionInv, CleanInv, Users
  <2>2. ASSUME copies, NEW b \in Actors, pc[b] = "end" PROVE FALSE
    <3>1. b # a /\ wm[b] # None /\ wm'[b] = wm[b]
      BY <2>2, <1>1, <1>2 DEF StageInv
    <3> QED
      BY <2>2, <3>1, <1>2
  <2>3. cache # None => Clean(heap[cache], wiped)
    BY <2>1, <2>2
  <2>4. ASSUME NEW b \in Actors, wm'[b] # None PROVE Clean(heap'[wm'[b]], wiped)
    <3>1. CASE b = a /\ cache = None
      <4>1. heap'[wm'[b]] = <<>>
        BY <3>1, <1>2
      <4> QED
        BY <4>1 DEF Clean
    <3>2. CASE b = a /\ cache # None
      BY <3>2, <2>3, <1>2
    <3>3. CASE b # a
      BY <2>1, <2>4, <3>3, <1>2
    <3> QED
      BY <3>1, <3>2, <3>3
  <2> QED
    BY <2>3, <2>4, <1>2
<1> QED
  BY <1>4, <1>5, <1>7, <1>m, <1>8, <1>9, <1>10, <1>11 DEF SessionInv

\* What a step that a takes with its object leaves of the invariant: a is talking
\* before and after it, nobody else moves, and the new history g has nothing that
\* is not in the old one or is the message m that a says.
LEMMA WriteStep ==
    ASSUME SessionInv, NEW a \in Actors, OthersStay(a), SocketInv', NEW m \in Messages,
           NEW g \in Seq(Messages), heap' = [heap EXCEPT ![wm[a]] = g],
           copies' = copies /\ cache' = cache /\ wm' = wm /\ forked' = forked /\ cut' = cut,
           turn' = turn /\ turns' = turns /\ evictions' = evictions /\ restarts' = restarts,
           kept' = kept /\ wiped' = wiped /\ torn' = torn /\ connections' = connections,
           tail' \in [Actors -> Seq(Messages)], interfered' \in BOOLEAN,
           interfered => interfered',
           MessageInv', TailInv',
           pc[a] \in Talking, pc'[a] \in Talking, m[2] = turn[a],
           ~interfered' =>
               /\ \A i \in 1 .. Len(g) : g[i] = m \/ \E j \in 1 .. Len(heap[wm[a]]) : g[i] = heap[wm[a]][j]
               /\ \A x \in Messages : Known(heap[wm[a]], x) => Known(g, x)
               /\ Ordered(heap[wm[a]], torn) => Ordered(g, torn)
               /\ turn[a] \notin torn =>
                     /\ pc'[a] \in Asked => Known(g, <<"Human", turn[a]>>)
                     /\ pc'[a] \in Answered => Known(g, <<"AI", turn[a]>>)
    PROVE  SessionInv'
<1> DEFINE o == wm[a]
<1>1. SessionTypes /\ StageInv /\ None \notin Objects
  BY ActorFacts DEF SessionInv
<1>2. pc[a] # "idle" /\ pc'[a] # "idle" /\ pc[a] # "end" /\ pc'[a] # "end"
  BY DEF Talking, MidUpdate
<1>3. o \in Objects /\ heap[o] \in Seq(Messages)
  BY <1>1, <1>2 DEF StageInv, SessionTypes
<1>4. turn[a] \in 1 .. turns /\ turn[a] \notin wiped /\ turns \in Nat
  BY <1>1 DEF StageInv, SessionTypes
<1>5. heap' = [heap EXCEPT ![o] = g] /\ wm[a] = o
  OBVIOUS
<1> HIDE DEF o
<1>8. heap'[o] = g /\ \A q \in Objects \ {o} : heap'[q] = heap[q]
  BY <1>3, <1>5, <1>1 DEF SessionTypes
<1>9. SessionTypes'
  <2>1. heap' \in [Objects -> Seq(Messages)]
    BY <1>1, <1>3, <1>5 DEF SessionTypes
  <2> QED
    BY <1>1, <2>1 DEF SessionTypes, OthersStay
<1>10. StageInv'
  <2>1. \A b \in Actors : (pc'[b] = "idle" <=> pc[b] = "idle") /\ (pc'[b] \in Talking <=> pc[b] \in Talking)
    BY <1>2 DEF OthersStay
  <2> QED
    BY <1>1, <2>1 DEF StageInv
<1>11. ASSUME ~interfered'
       PROVE  /\ \A i \in 1 .. Len(g) : g[i] = m \/ \E j \in 1 .. Len(heap[o]) : g[i] = heap[o][j]
              /\ \A q \in Objects, x \in Messages : Known(heap[q], x) => Known(heap'[q], x)
              /\ Ordered(heap[o], torn) => Ordered(g, torn)
              /\ turn[a] \notin torn =>
                    /\ pc'[a] \in Asked => Known(g, <<"Human", turn[a]>>)
                    /\ pc'[a] \in Answered => Known(g, <<"AI", turn[a]>>)
  BY <1>5, <1>8, <1>11
<1>15. OrderInv'
  <2> SUFFICES ASSUME ~interfered'
               PROVE  (\A q \in Objects : Ordered(heap'[q], torn)) /\ \A b \in Actors : Said(b)'
    BY DEF OrderInv
  <2>1. ASSUME NEW q \in Objects PROVE Ordered(heap'[q], torn)
    <3>1. Ordered(heap[q], torn)
      BY DEF SessionInv, OrderInv
    <3> QED
      BY <3>1, <1>8, <1>11
  <2>2. ASSUME NEW b \in Actors PROVE Said(b)'
    <3>1. CASE b = a
      BY <3>1, <1>5, <1>8, <1>11 DEF Said
    <3>2. CASE b # a /\ pc[b] \in Asked \union Answered
      <4>1. pc[b] # "idle"
        BY <3>2 DEF Asked, Answered
      <4>2. Said(b) /\ pc'[b] = pc[b] /\ wm[b] \in Objects
        BY <3>2, <4>1, <1>1 DEF SessionInv, OrderInv, OthersStay, StageInv, SessionTypes
      <4>3. <<"Human", turn[b]>> \in Messages /\ <<"AI", turn[b]>> \in Messages
        BY <1>1 DEF SessionTypes, Messages
      <4> QED
        BY <4>2, <4>3, <1>11 DEF Said
    <3>3. CASE b # a /\ pc[b] \notin Asked \union Answered
      BY <3>3 DEF Said, OthersStay
    <3> QED
      BY <3>1, <3>2, <3>3
  <2> QED
    BY <2>1, <2>2
<1>16. ShareInv'
  BY DEF SessionInv, ShareInv, Users
<1>17. KeepInv'
  <2>2. <<"AI", kept>> \in Messages
    BY <1>1 DEF SessionTypes, Messages
  <2>3. cache # None => cache \in Objects
    BY <1>1 DEF SessionTypes
  <2>4. \A b \in Actors : wm[b] # None => wm[b] \in Objects
    BY <1>1 DEF SessionTypes
  <2> QED
    BY <1>11, <2>2, <2>3, <2>4 DEF SessionInv, KeepInv, Users
<1>18. CleanInv'
  <2> SUFFICES ASSUME ~interfered' PROVE CleanInv'
    BY DEF CleanInv
  <2>1. \A q \in Objects : Clean(heap[q], wiped) => Clean(heap'[q], wiped)
    <3> SUFFICES ASSUME NEW q \in Objects, Clean(heap[q], wiped) PROVE Clean(heap'[q], wiped)
      OBVIOUS
    <3>1. CASE q = o
      BY <3>1, <1>4, <1>8, <1>11 DEF Clean
    <3>2. CASE q # o
      BY <3>2, <1>8
    <3> QED
      BY <3>1, <3>2
  <2>2. cache # None => cache \in Objects
    BY <1>1 DEF SessionTypes
  <2>3. \A b \in Actors : wm[b] # None => wm[b] \in Objects
    BY <1>1 DEF SessionTypes
  <2>4. \A b \in Actors : pc[b] = "end" => pc'[b] = "end"
    BY <1>2 DEF OthersStay
  <2> QED
    BY <2>1, <2>2, <2>3, <2>4 DEF SessionInv, CleanInv, Users
<1> QED
  BY <1>9, <1>10, <1>15, <1>16, <1>17, <1>18 DEF SessionInv

\* A question or an answer is appended to the history.
LEMMA SayStep ==
    ASSUME SessionInv, NEW a \in Actors, OthersStay(a), SocketInv', NEW m \in Messages,
           heap' = [heap EXCEPT ![wm[a]] = Append(@, m)],
           copies' = copies /\ cache' = cache /\ wm' = wm /\ forked' = forked /\ cut' = cut,
           turn' = turn /\ turns' = turns /\ evictions' = evictions /\ restarts' = restarts,
           kept' = kept /\ wiped' = wiped /\ torn' = torn /\ connections' = connections,
           tail' = tail, interfered' = (interfered \/ Interferes(a)),
           \/ m = <<"Human", turn[a]>> /\ pc[a] = "human" /\ pc'[a] = "human_slice"
           \/ m = <<"AI", turn[a]>> /\ pc[a] = "answer" /\ pc'[a] = "answer_slice"
    PROVE  SessionInv'
<1> DEFINE o == wm[a]
           g == Append(heap[o], m)
<1>1. SessionTypes /\ StageInv /\ None \notin Objects
  BY ActorFacts DEF SessionInv
<1>2. pc[a] \in Talking /\ pc'[a] \in Talking /\ pc[a] # "idle"
  BY DEF Talking, MidUpdate
<1>3. o \in Objects /\ heap[o] \in Seq(Messages)
  BY <1>1, <1>2 DEF StageInv, SessionTypes
<1>4. turn[a] \in 1 .. turns /\ m[2] = turn[a] /\ turns \in Nat /\ turn[a] \in Nat
  BY <1>1, <1>2 DEF StageInv, SessionTypes
<1>5. /\ g \in Seq(Messages)
      /\ \A i \in 1 .. Len(g) : g[i] = m \/ \E j \in 1 .. Len(heap[o]) : g[i] = heap[o][j]
      /\ (Once(heap[o]) /\ \A j \in 1 .. Len(heap[o]) : heap[o][j] # m) => Once(g)
      /\ (/\ Forward(heap[o])
          /\ m[1] = "Human" => \A j \in 1 .. Len(heap[o]) : heap[o][j] # <<"AI", m[2]>>) => Forward(g)
      /\ Known(g, m)
      /\ \A x \in Messages : Known(heap[o], x) => Known(g, x)
  BY <1>3, AppendHas
<1>6. \A T : Ordered(heap[o], T) /\ (m[1] = "AI" /\ m[2] \notin T => Known(heap[o], <<"Human", m[2]>>))
             => Ordered(g, T)
  BY <1>3, AppendKeepsOrder
<1>7. heap' = [heap EXCEPT ![o] = g] /\ o = wm[a]
  OBVIOUS
<1> HIDE DEF g, o
<1>8. heap'[o] = g /\ \A q \in Objects \ {o} : heap'[q] = heap[q]
  BY <1>3, <1>7, <1>1 DEF SessionTypes
<1>9. /\ pc[a] = "human" => pc[a] \notin Asked \union MidUpdate
      /\ pc[a] = "answer" => pc[a] \in Asked /\ pc[a] \notin MidUpdate
      /\ pc'[a] = "human_slice" => pc'[a] \in Asked \ Answered
      /\ pc'[a] = "answer_slice" => pc'[a] \in Answered \ Asked
      /\ pc'[a] \in MidUpdate /\ pc'[a] \notin Assigning
  BY DEF Asked, Answered, MidUpdate, Assigning
<1>11. \A n \in Messages : Pending(n, pc', turn', turns') => Pending(n, pc, turn, turns)
  BY <1>1, <1>9, PendingShrinks
<1>12. Pending(m, pc, turn, turns)
  BY <1>4, <1>9 DEF Pending
<1>13. ~Pending(m, pc', turn', turns')
  <2>1. ~(m[2] > turns)
    BY <1>4
  <2>2. \A b \in Actors \ {a} : pc[b] \in {"human"} \union Asked => turn[b] # turn[a]
    <3>1. {"human"} \union Asked \subseteq Talking
      BY DEF Talking, Asked, MidUpdate
    <3> QED
      BY <3>1, <1>1, <1>2 DEF StageInv
  <2>3. ASSUME NEW b \in Actors, pc'[b] = "human" PROVE m[2] # turn'[b]
    BY <2>2, <2>3, <1>4 DEF OthersStay
  <2>4. ASSUME NEW b \in Actors, pc'[b] \in Asked PROVE m # <<"AI", turn'[b]>>
    <3>1. CASE b = a
      BY <2>4, <3>1, <1>9
    <3>2. CASE b # a
      BY <2>2, <2>4, <3>2, <1>4 DEF OthersStay
    <3> QED
      BY <3>1, <3>2
  <2> QED
    BY <2>1, <2>3, <2>4 DEF Pending
<1>14. MessageInv'
  <2>1. ASSUME NEW q \in Objects PROVE Sound(heap'[q], pc', turn', turns')
    <3>1. Sound(heap[q], pc, turn, turns) /\ heap[q] \in Seq(Messages)
      BY <1>1 DEF SessionInv, MessageInv, SessionTypes
    <3>2. \A i \in 1 .. Len(heap[q]) : heap[q][i] \in Messages
      BY <3>1
    <3>3. CASE q = o
      <4>1. Once(g)
        BY <3>1, <3>3, <1>5, <1>12 DEF Sound
      <4>2. m[1] = "Human" => \A j \in 1 .. Len(heap[o]) : heap[o][j] # <<"AI", m[2]>>
        <5> SUFFICES ASSUME m[1] = "Human" PROVE Pending(<<"AI", m[2]>>, pc, turn, turns)
          BY <3>1, <3>3 DEF Sound
        <5>1. pc[a] = "human" /\ <<"AI", m[2]>>[2] = turn[a]
          BY <1>4
        <5> QED
          BY <5>1 DEF Pending
      <4>3. Forward(g)
        BY <3>1, <3>3, <4>2, <1>5 DEF Sound
      <4>4. \A i \in 1 .. Len(g) : ~Pending(g[i], pc', turn', turns')
        BY <3>1, <3>2, <3>3, <1>5, <1>11, <1>13 DEF Sound
      <4> QED
        BY <4>1, <4>3, <4>4, <3>3, <1>8 DEF Sound
    <3>4. CASE q # o
      BY <3>1, <3>4, <1>8, <1>11, SoundStays
    <3> QED
      BY <3>3, <3>4
  <2>2. ASSUME NEW b \in Actors PROVE Sound(tail'[b], pc', turn', turns')
    <3>1. Sound(tail[b], pc, turn, turns) /\ tail[b] \in Seq(Messages)
      BY <1>1 DEF SessionInv, MessageInv, SessionTypes
    <3> QED
      BY <3>1, <1>11, SoundStays
  <2> QED
    BY <2>1, <2>2 DEF MessageInv
<1>15. TailInv'
  <2> SUFFICES ASSUME ~interfered, ~Interferes(a), NEW b \in Actors, pc'[b] \in MidUpdate
               PROVE  /\ \A c \in Actors \ {b} : wm[c] = wm[b] => pc'[c] \notin MidUpdate
                      /\ pc'[b] \in Assigning => tail[b] = Recent(heap'[wm[b]])
    BY DEF TailInv
  <2>1. \A c \in Actors \ {a} : wm[c] = wm[a] => pc'[c] \notin MidUpdate
    BY DEF Interferes, OthersStay
  <2>2. CASE b = a
    BY <2>1, <2>2, <1>9
  <2>3. CASE b # a
    <3>1. pc[b] \in MidUpdate /\ pc'[b] = pc[b] /\ wm[b] # wm[a]
      BY <2>1, <2>3 DEF OthersStay
    <3>2. /\ \A c \in Actors \ {b} : wm[c] = wm[b] => pc[c] \notin MidUpdate
          /\ pc[b] \in Assigning => tail[b] = Recent(heap[wm[b]])
      BY <3>1 DEF SessionInv, TailInv
    <3>3. wm[b] \in Objects
      BY <3>1, <1>1 DEF StageInv, SessionTypes, MidUpdate
    <3> QED
      BY <3>1, <3>2, <3>3, <1>7, <1>8 DEF OthersStay
  <2> QED
    BY <2>2, <2>3
<1>16. ASSUME ~interfered'
       PROVE  /\ Ordered(heap[o], torn) => Ordered(g, torn)
              /\ turn[a] \notin torn =>
                    /\ pc'[a] \in Asked => Known(g, <<"Human", turn[a]>>)
                    /\ pc'[a] \in Answered => Known(g, <<"AI", turn[a]>>)
  <2>1. m[1] = "AI" /\ m[2] \notin torn => Known(heap[o], <<"Human", m[2]>>)
    <3>1. Said(a)
      BY <1>16 DEF SessionInv, OrderInv
    <3>2. m[1] = "AI" => pc[a] \in Asked
      BY <1>9
    <3> QED
      BY <3>1, <3>2, <1>4, <1>7 DEF Said
  <2>2. /\ pc'[a] \in Asked => m = <<"Human", turn[a]>>
        /\ pc'[a] \in Answered => m = <<"AI", turn[a]>>
    BY <1>9
  <2> QED
    BY <2>1, <2>2, <1>5, <1>6
<1>17. /\ interfered' \in BOOLEAN /\ tail' \in [Actors -> Seq(Messages)]
       /\ interfered => interfered'
  <2>1. tail \in [Actors -> Seq(Messages)] /\ interfered \in BOOLEAN
    BY <1>1 DEF SessionTypes
  <2> QED
    BY <2>1
<1>18. /\ \A i \in 1 .. Len(g) : g[i] = m \/ \E j \in 1 .. Len(heap[wm[a]]) : g[i] = heap[wm[a]][j]
       /\ \A x \in Messages : Known(heap[wm[a]], x) => Known(g, x)
  BY <1>5, <1>7
<1>19. ASSUME ~interfered'
       PROVE  /\ Ordered(heap[wm[a]], torn) => Ordered(g, torn)
              /\ turn[a] \notin torn =>
                    /\ pc'[a] \in Asked => Known(g, <<"Human", turn[a]>>)
                    /\ pc'[a] \in Answered => Known(g, <<"AI", turn[a]>>)
  BY <1>7, <1>16, <1>19
<1>20. g \in Seq(Messages) /\ heap' = [heap EXCEPT ![wm[a]] = g]
  BY <1>5, <1>7
<1> QED
  BY <1>2, <1>4, <1>14, <1>15, <1>17, <1>18, <1>19, <1>20, WriteStep

\* The last messages are taken.
LEMMA SliceStep ==
    ASSUME SessionInv, NEW a \in Actors, OthersStay(a), SocketInv',
           copies' = copies /\ heap' = heap /\ cache' = cache /\ wm' = wm /\ forked' = forked /\ cut' = cut,
           turn' = turn /\ turns' = turns /\ evictions' = evictions /\ restarts' = restarts,
           kept' = kept /\ wiped' = wiped /\ torn' = torn /\ connections' = connections,
           tail' = [tail EXCEPT ![a] = Recent(heap[wm[a]])], interfered' = interfered,
           \/ pc[a] = "human_slice" /\ pc'[a] = "human_assign"
           \/ pc[a] = "answer_slice" /\ pc'[a] = "answer_assign"
    PROVE  SessionInv'
<1> DEFINE g == heap[wm[a]]
           m == <<"AI", turn[a]>>
<1>1. SessionTypes /\ StageInv /\ None \notin Objects
  BY ActorFacts DEF SessionInv
<1>2. /\ pc[a] \in Talking /\ pc'[a] \in Talking /\ pc[a] # "idle"
      /\ pc[a] \in MidUpdate /\ pc'[a] \in MidUpdate
      /\ pc'[a] \in Asked => pc[a] \in Asked
      /\ pc'[a] \in Answered => pc[a] \in Answered
      /\ pc'[a] # "human"
  BY DEF Talking, MidUpdate, Asked, Answered
<1>3. wm[a] \in Objects /\ g \in Seq(Messages) /\ m \in Messages /\ m[2] = turn[a]
  BY <1>1, <1>2 DEF StageInv, SessionTypes, Messages
<1>4. /\ Recent(g) \in Seq(Messages)
      /\ \A i \in 1 .. Len(Recent(g)) : \E j \in 1 .. Len(g) : Recent(g)[i] = g[j]
      /\ Once(g) => Once(Recent(g))
      /\ Forward(g) => Forward(Recent(g))
  BY <1>3, RecentHas
<1>5. /\ tail' \in [Actors -> Seq(Messages)] /\ tail'[a] = Recent(g)
      /\ \A b \in Actors \ {a} : tail'[b] = tail[b]
  BY <1>1, <1>4 DEF SessionTypes
<1>6. \A n \in Messages : Pending(n, pc', turn', turns') => Pending(n, pc, turn, turns)
  BY <1>1, <1>2, PendingShrinks
<1>7. MessageInv'
  <2>1. ASSUME NEW q \in Objects PROVE Sound(heap'[q], pc', turn', turns')
    <3>1. Sound(heap[q], pc, turn, turns) /\ heap[q] \in Seq(Messages)
      BY <1>1 DEF SessionInv, MessageInv, SessionTypes
    <3> QED
      BY <3>1, <1>6, SoundStays
  <2>2. ASSUME NEW b \in Actors PROVE Sound(tail'[b], pc', turn', turns')
    <3>1. CASE b = a
      <4>1. Sound(g, pc', turn', turns')
        BY <2>1, <1>3
      <4> QED
        BY <3>1, <4>1, <1>4, <1>5 DEF Sound
    <3>2. CASE b # a
      <4>1. Sound(tail[b], pc, turn, turns) /\ tail[b] \in Seq(Messages)
        BY <1>1 DEF SessionInv, MessageInv, SessionTypes
      <4> QED
        BY <3>2, <4>1, <1>5, <1>6, SoundStays
    <3> QED
      BY <3>1, <3>2
  <2> QED
    BY <2>1, <2>2 DEF MessageInv
<1>8. TailInv'
  <2> SUFFICES ASSUME ~interfered, NEW b \in Actors, pc'[b] \in MidUpdate
               PROVE  /\ \A c \in Actors \ {b} : wm[c] = wm[b] => pc'[c] \notin MidUpdate
                      /\ pc'[b] \in Assigning => tail'[b] = Recent(heap[wm[b]])
    BY DEF TailInv
  <2>1. \A c \in Actors : pc'[c] \in MidUpdate => pc[c] \in MidUpdate
    BY <1>2 DEF OthersStay
  <2>2. /\ \A c \in Actors \ {b} : wm[c] = wm[b] => pc[c] \notin MidUpdate
        /\ pc[b] \in Assigning => tail[b] = Recent(heap[wm[b]])
    BY <2>1 DEF SessionInv, TailInv
  <2>3. CASE b = a
    BY <2>1, <2>2, <2>3, <1>5
  <2>4. CASE b # a
    BY <2>1, <2>2, <2>4, <1>5 DEF OthersStay
  <2> QED
    BY <2>3, <2>4
<1>9. ASSUME ~interfered'
      PROVE  turn[a] \notin torn =>
                 /\ pc'[a] \in Asked => Known(g, <<"Human", turn[a]>>)
                 /\ pc'[a] \in Answered => Known(g, <<"AI", turn[a]>>)
  BY <1>2, <1>9 DEF SessionInv, OrderInv, Said
<1>10. heap' = [heap EXCEPT ![wm[a]] = g]
  BY <1>1, <1>3 DEF SessionTypes
<1>11. interfered' \in BOOLEAN
  BY <1>1 DEF SessionTypes
<1>12. \A i \in 1 .. Len(g) : g[i] = m \/ \E j \in 1 .. Len(heap[wm[a]]) : g[i] = heap[wm[a]][j]
  OBVIOUS
<1>13. /\ \A x \in Messages : Known(heap[wm[a]], x) => Known(g, x)
       /\ Ordered(heap[wm[a]], torn) => Ordered(g, torn)
  OBVIOUS
<1> HIDE DEF g, m
<1> QED
  BY <1>2, <1>3, <1>5, <1>7, <1>8, <1>9, <1>10, <1>11, <1>12, <1>13, WriteStep

\* They become the history.
LEMMA AssignStep ==
    ASSUME SessionInv, NEW a \in Actors, OthersStay(a), SocketInv',
           heap' = [heap EXCEPT ![wm[a]] = tail[a]],
           copies' = copies /\ cache' = cache /\ wm' = wm /\ forked' = forked /\ cut' = cut,
           turn' = turn /\ turns' = turns /\ evictions' = evictions /\ restarts' = restarts,
           kept' = kept /\ wiped' = wiped /\ torn' = torn /\ connections' = connections,
           tail' = [tail EXCEPT ![a] = <<>>], interfered' = interfered,
           \/ pc[a] = "human_assign" /\ pc'[a] = "answer"
           \/ pc[a] = "answer_assign" /\ pc'[a] = "save"
    PROVE  SessionInv'
<1> DEFINE g == tail[a]
           o == wm[a]
           m == <<"AI", turn[a]>>
<1>1. SessionTypes /\ StageInv /\ None \notin Objects
  BY ActorFacts DEF SessionInv
<1>2. /\ pc[a] \in Talking /\ pc'[a] \in Talking /\ pc[a] # "idle"
      /\ pc[a] \in MidUpdate /\ pc[a] \in Assigning /\ pc'[a] \notin MidUpdate
      /\ pc'[a] \in Asked => pc[a] \in Asked
      /\ pc'[a] \in Answered => pc[a] \in Answered
      /\ pc'[a] # "human"
  BY DEF Talking, MidUpdate, Asked, Answered, Assigning
<1>3. /\ o \in Objects /\ heap[o] \in Seq(Messages) /\ g \in Seq(Messages)
      /\ m \in Messages /\ m[2] = turn[a]
  BY <1>1, <1>2 DEF StageInv, SessionTypes, Messages
<1>4. heap' = [heap EXCEPT ![o] = g] /\ o = wm[a]
  OBVIOUS
<1>5. /\ tail' \in [Actors -> Seq(Messages)] /\ tail'[a] = <<>>
      /\ \A b \in Actors \ {a} : tail'[b] = tail[b]
  <2>1. <<>> \in Seq(Messages) /\ tail \in [Actors -> Seq(Messages)]
    BY <1>1 DEF SessionTypes
  <2> QED
    BY <2>1
<1>6. heap'[o] = g /\ \A q \in Objects \ {o} : heap'[q] = heap[q]
  BY <1>1, <1>3, <1>4 DEF SessionTypes
<1>7. \A n \in Messages : Pending(n, pc', turn', turns') => Pending(n, pc, turn, turns)
  BY <1>1, <1>2, PendingShrinks
<1>8. \A b \in Actors : tail[b] \in Seq(Messages) /\ Sound(tail[b], pc, turn, turns)
  BY <1>1 DEF SessionInv, MessageInv, SessionTypes
<1>9. \A b \in Actors : Sound(tail[b], pc', turn', turns')
  BY <1>7, <1>8, SoundStays
<1>10. MessageInv'
  <2>1. ASSUME NEW q \in Objects PROVE Sound(heap'[q], pc', turn', turns')
    <3>1. Sound(heap[q], pc, turn, turns) /\ heap[q] \in Seq(Messages)
      BY <1>1 DEF SessionInv, MessageInv, SessionTypes
    <3>2. CASE q = o
      BY <3>2, <1>6, <1>9
    <3>3. CASE q # o
      BY <3>1, <3>3, <1>6, <1>7, SoundStays
    <3> QED
      BY <3>2, <3>3
  <2>2. ASSUME NEW b \in Actors PROVE Sound(tail'[b], pc', turn', turns')
    <3>1. Sound(<<>>, pc', turn', turns')
      BY DEF Sound, Once, Forward
    <3> QED
      BY <3>1, <1>5, <1>9
  <2> QED
    BY <2>1, <2>2 DEF MessageInv
<1>11. TailInv'
  <2> SUFFICES ASSUME ~interfered, NEW b \in Actors, pc'[b] \in MidUpdate
               PROVE  /\ \A c \in Actors \ {b} : wm[c] = wm[b] => pc'[c] \notin MidUpdate
                      /\ pc'[b] \in Assigning => tail'[b] = Recent(heap'[wm[b]])
    BY DEF TailInv
  <2>1. \A c \in Actors : pc'[c] \in MidUpdate => pc[c] \in MidUpdate /\ pc'[c] = pc[c] /\ c # a
    BY <1>2 DEF OthersStay
  <2>2. /\ \A c \in Actors \ {b} : wm[c] = wm[b] => pc[c] \notin MidUpdate
        /\ pc[b] \in Assigning => tail[b] = Recent(heap[wm[b]])
    BY <2>1 DEF SessionInv, TailInv
  <2>3. wm[b] # o
    BY <2>1, <2>2, <1>2, <1>4
  <2>4. wm[b] \in Objects
    BY <2>1, <1>1 DEF StageInv, SessionTypes, MidUpdate
  <2> QED
    BY <2>1, <2>2, <2>3, <2>4, <1>5, <1>6
<1>g. g = tail[a]
  OBVIOUS
<1> HIDE DEF g, o, m
<1>12. ASSUME ~interfered'
       PROVE  /\ \A i \in 1 .. Len(g) : \E j \in 1 .. Len(heap[o]) : g[i] = heap[o][j]
              /\ \A x \in Messages : Known(heap[o], x) => Known(g, x)
              /\ Ordered(heap[o], torn) => Ordered(g, torn)
              /\ turn[a] \notin torn =>
                    /\ pc'[a] \in Asked => Known(g, <<"Human", turn[a]>>)
                    /\ pc'[a] \in Answered => Known(g, <<"AI", turn[a]>>)
  <2>1. g = Recent(heap[o])
    BY <1>2, <1>4, <1>g, <1>12 DEF SessionInv, TailInv
  <2>2. /\ \A i \in 1 .. Len(g) : \E j \in 1 .. Len(heap[o]) : g[i] = heap[o][j]
        /\ \A x \in Messages : Known(heap[o], x) => Known(g, x)
        /\ \A T : Ordered(heap[o], T) => Ordered(g, T)
    BY <2>1, <1>3, RecentHas
  <2>3. <<"Human", turn[a]>> \in Messages /\ <<"AI", turn[a]>> \in Messages
    BY <1>1 DEF SessionTypes, Messages
  <2>4. turn[a] \notin torn =>
            /\ pc'[a] \in Asked => Known(heap[o], <<"Human", turn[a]>>)
            /\ pc'[a] \in Answered => Known(heap[o], <<"AI", turn[a]>>)
    BY <1>2, <1>4, <1>12 DEF SessionInv, OrderInv, Said
  <2> QED
    BY <2>2, <2>3, <2>4
<1>13. interfered' \in BOOLEAN /\ heap' = [heap EXCEPT ![wm[a]] = g]
  BY <1>1, <1>4 DEF SessionTypes
<1>14. ASSUME ~interfered'
       PROVE  /\ \A i \in 1 .. Len(g) : g[i] = m \/ \E j \in 1 .. Len(heap[wm[a]]) : g[i] = heap[wm[a]][j]
              /\ \A x \in Messages : Known(heap[wm[a]], x) => Known(g, x)
              /\ Ordered(heap[wm[a]], torn) => Ordered(g, torn)
              /\ turn[a] \notin torn =>
                    /\ pc'[a] \in Asked => Known(g, <<"Human", turn[a]>>)
                    /\ pc'[a] \in Answered => Known(g, <<"AI", turn[a]>>)
  BY <1>4, <1>12, <1>14
<1> QED
  BY <1>2, <1>3, <1>5, <1>10, <1>11, <1>13, <1>14, WriteStep

\* The working memory is saved, during a turn or at its end.
LEMMA UpdateStep ==
    ASSUME SessionInv, NEW a \in Actors, OthersStay(a), SocketInv',
           NEW w \in [Actors -> Objects \union {None}],
           w[a] \in {wm[a], None}, \A b \in Actors \ {a} : w[b] = wm[b],
           update_working_memory_cache(a, w),
           copies' = copies /\ turns' = turns /\ evictions' = evictions /\ restarts' = restarts,
           wiped' = wiped /\ torn' = torn /\ connections' = connections,
           tail' = tail /\ interfered' = interfered,
           pc[a] # "idle", pc'[a] \notin Talking, pc'[a] = "idle" <=> w[a] = None,
           \/ kept' = kept
           \/ kept' = turn[a] /\ turn[a] \notin torn /\ pc[a] \in {"save", "dump"} /\ w[a] # None
    PROVE  SessionInv'
<1>1. SessionTypes /\ StageInv /\ None \notin Objects
  BY ActorFacts DEF SessionInv
<1>2. wm[a] # None /\ wm[a] \in Objects
  BY <1>1 DEF StageInv, SessionTypes
<1>3. /\ cut' = FALSE /\ cache' \in Objects /\ wm' = w
      /\ forked' \in BOOLEAN /\ (forked => forked')
      /\ heap' \in [Objects -> Seq(Messages)]
      /\ \A o \in Objects : heap'[o] = <<>> \/ \E q \in Objects : heap'[o] = heap[q]
      /\ heap'[cache'] = heap[wm[a]]
      /\ \A b \in Actors : w[b] # None => heap'[w[b]] = heap[w[b]]
      /\ copies => \A b \in Actors : wm[b] # cache'
      /\ ~copies => cache' = wm[a]
      /\ ~forked' => \A b, c \in Actors :
             w[b] # None /\ w[c] # None /\ b # c => w[c] = w[b] /\ cache' \in {w[b], None}
  BY <1>1, <1>2, UpdateFacts
<1>4. \A b \in Actors : w[b] # None => w[b] = wm[b]
  OBVIOUS
<1>5. SessionTypes'
  <2>1. kept' \in Nat
    BY <1>1 DEF SessionTypes
  <2> QED
    BY <1>1, <1>3, <2>1 DEF SessionTypes, OthersStay
<1>6. StageInv'
  <2>1. \A b \in Actors : pc'[b] \in Talking => pc[b] \in Talking /\ turn'[b] = turn[b]
    BY DEF OthersStay
  <2>2. \A b \in Actors : pc'[b] = "idle" <=> w[b] = None
    BY <1>1 DEF OthersStay, StageInv
  <2>3. ASSUME copies, NEW b \in Actors, w[b] # None
        PROVE  w[b] # cache' /\ \A c \in Actors \ {b} : w[c] # w[b]
    <3>1. w[b] = wm[b] /\ wm[b] # None /\ wm[b] # cache'
      BY <2>3, <1>3, <1>4
    <3>2. \A c \in Actors \ {b} : wm[c] # wm[b]
      BY <2>3, <3>1, <1>1 DEF StageInv
    <3> QED
      BY <2>3, <3>1, <3>2, <1>4
  <2>4. \A b \in Actors : pc[b] \in Talking => turn[b] \in 1 .. turns /\ turn[b] \notin wiped
    BY <1>1 DEF StageInv
  <2>5. \A b, c \in Actors :
            b # c /\ pc[b] \in Talking /\ pc[c] \in Talking => turn[b] # turn[c]
    BY <1>1 DEF StageInv
  <2>6. /\ \A b \in Actors : pc'[b] \in Talking => turn'[b] \in 1 .. turns' /\ turn'[b] \notin wiped'
        /\ \A b, c \in Actors :
              b # c /\ pc'[b] \in Talking /\ pc'[c] \in Talking => turn'[b] # turn'[c]
    BY <2>1, <2>4, <2>5
  <2> QED
    BY <2>2, <2>3, <2>6, <1>3 DEF StageInv
<1>7. OnlyCopies
  BY <1>3 DEF OnlyCopies
<1>8. MessageInv'
  <2>1. pc'[a] # "human" /\ pc'[a] \notin Asked
    BY DEF Talking, Asked, MidUpdate
  <2>2. \A m \in Messages : Pending(m, pc', turn', turns') => Pending(m, pc, turn, turns)
    BY <1>1, <2>1, PendingShrinks
  <2> QED
    BY <1>7, <2>2, CopiesKeepMessages DEF SessionInv
<1>m. TailInv'
  <2>1. pc'[a] \notin MidUpdate
    BY DEF Talking
  <2>2. \A b \in Actors \ {a} : pc[b] \in MidUpdate => wm'[b] = wm[b] /\ heap'[wm[b]] = heap[wm[b]]
    <3>1. \A b \in Actors : pc[b] \in MidUpdate => wm[b] # None
      BY <1>1 DEF StageInv, MidUpdate
    <3> QED
      BY <3>1, <1>3
  <2> QED
    BY <2>1, <2>2, TailsStay DEF SessionInv
<1>9. OrderInv'
  <2> SUFFICES ASSUME ~interfered'
               PROVE  (\A o \in Objects : Ordered(heap'[o], torn')) /\ \A b \in Actors : Said(b)'
    BY DEF OrderInv
  <2>1. \A o \in Objects : Ordered(heap'[o], torn')
    BY <1>7, CopiesKeepOrder DEF SessionInv, OrderInv
  <2>2. ASSUME NEW b \in Actors PROVE Said(b)'
    <3>1. CASE b = a
      BY <3>1 DEF Said, Talking, Asked, Answered, MidUpdate
    <3>2. CASE b # a
      <4>1. Said(b) /\ pc'[b] = pc[b] /\ turn'[b] = turn[b] /\ wm'[b] = wm[b]
        BY <3>2, <1>3 DEF SessionInv, OrderInv, OthersStay
      <4>2. CASE wm[b] # None
        BY <3>2, <4>1, <4>2, <1>3 DEF Said
      <4>3. CASE wm[b] = None
        BY <4>1, <4>3, <1>1 DEF Said, StageInv, Asked, Answered
      <4> QED
        BY <4>2, <4>3
    <3> QED
      BY <3>1, <3>2
  <2> QED
    BY <2>1, <2>2
<1>10. ~forked' => \A b \in Actors : wm[b] # None /\ b # a => ~copies /\ wm[b] = wm[a]
  BY <1>2, <1>3 DEF SessionInv, ShareInv, Users
<1>11. ShareInv'
  <2> SUFFICES ASSUME ~forked', NEW b \in Actors, w[b] # None
               PROVE  /\ \A c \in Actors \ {b} : w[c] # None => ~copies /\ w[c] = w[b]
                      /\ ~copies => cache' \in {w[b], None}
    BY <1>3 DEF ShareInv, Users
  <2>1. ASSUME NEW c \in Actors \ {b}, w[c] # None
        PROVE  ~copies /\ w[c] = w[b]
    BY <2>1, <1>4, <1>10
  <2>2. ASSUME ~copies PROVE cache' \in {w[b], None}
    BY <2>2, <1>3, <1>4, <1>10
  <2> QED
    BY <2>1, <2>2
<1>12. KeepInv'
  <2> SUFFICES ASSUME ~forked', ~interfered, evictions = 0, kept' # 0
               PROVE  /\ cache' # None /\ Known(heap'[cache'], <<"AI", kept'>>)
                      /\ \A b \in Actors : w[b] # None => Known(heap'[w[b]], <<"AI", kept'>>)
    BY <1>3 DEF KeepInv, Users
  <2>1. Known(heap[wm[a]], <<"AI", kept'>>)
    <3>1. CASE kept' = kept
      BY <3>1, <1>2, <1>3 DEF SessionInv, KeepInv, Users
    <3>2. CASE kept' = turn[a] /\ turn[a] \notin torn /\ pc[a] \in {"save", "dump"}
      BY <3>2 DEF SessionInv, OrderInv, Said, Answered
    <3> QED
      BY <3>1, <3>2
  <2>2. ASSUME NEW b \in Actors, w[b] # None PROVE Known(heap'[w[b]], <<"AI", kept'>>)
    <3>1. heap'[w[b]] = heap[wm[b]]
      BY <2>2, <1>3, <1>4
    <3>2. wm[b] = wm[a]
      BY <2>2, <1>4, <1>10
    <3> QED
      BY <2>1, <3>1, <3>2
  <2> QED
    BY <2>1, <2>2, <1>1, <1>3
<1>13. CleanInv'
  <2> SUFFICES ASSUME ~forked', ~interfered
               PROVE  /\ \A b \in Actors : w[b] # None => Clean(heap'[w[b]], wiped)
                      /\ Clean(heap'[cache'], wiped)
    BY <1>3 DEF CleanInv, Users
  <2>1. \A b \in Actors : wm[b] # None => Clean(heap[wm[b]], wiped)
    BY <1>3 DEF SessionInv, CleanInv, Users
  <2>2. ASSUME NEW b \in Actors, w[b] # None PROVE Clean(heap'[w[b]], wiped)
    BY <2>1, <2>2, <1>3, <1>4
  <2> QED
    BY <2>1, <2>2, <1>2, <1>3
<1> QED
  BY <1>5, <1>6, <1>8, <1>m, <1>9, <1>11, <1>12, <1>13 DEF SessionInv

\* A request deletes the history.
LEMMA WipeStep ==
    ASSUME SessionInv, NEW r \in Requests, SocketInv', wipe_conversation_history(r)
    PROVE  SessionInv'
<1>1. SessionTypes /\ StageInv /\ None \notin Objects /\ r \in Actors
  BY ActorFacts DEF SessionInv, Actors
<1>2. /\ pc[r] = "wipe" /\ heap' = [heap EXCEPT ![wm[r]] = <<>>]
      /\ kept' = 0 /\ wiped' = (1 .. turns) \ Running /\ torn' = torn \union Running
      /\ copies' = copies /\ cache' = cache /\ cut' = cut /\ wm' = wm /\ forked' = forked
      /\ turn' = turn /\ turns' = turns /\ connections' = connections
      /\ evictions' = evictions /\ restarts' = restarts
      /\ tail' = tail /\ interfered' = (interfered \/ Interferes(r))
  BY DEF wipe_conversation_history, bounds
<1>3. OthersStay(r) /\ pc'[r] = "end"
  <2>1. Goto(r, "end") /\ "end" \in Stages
    BY DEF wipe_conversation_history, Stages
  <2> QED
    BY <1>1, <1>2, <2>1, GotoFacts DEF OthersStay, SessionTypes
<1>4. wm[r] \in Objects /\ wm[r] # None
  BY <1>1, <1>2 DEF StageInv, SessionTypes
<1>5. heap'[wm[r]] = <<>> /\ \A o \in Objects \ {wm[r]} : heap'[o] = heap[o]
  BY <1>1, <1>2, <1>4 DEF SessionTypes
<1>6. OnlyCopies
  BY <1>5 DEF OnlyCopies
<1>7. \A b \in Actors : pc[b] \in Talking => turn[b] \in Running
  BY DEF Talking, MidUpdate, Running
<1>8. \A b \in Actors : pc'[b] \in Talking <=> pc[b] \in Talking
  BY <1>2, <1>3 DEF OthersStay, Talking, MidUpdate
<1>9. SessionTypes'
  <2>1. heap' \in [Objects -> Seq(Messages)]
    <3>1. <<>> \in Seq(Messages) /\ heap \in [Objects -> Seq(Messages)]
      BY <1>1 DEF SessionTypes
    <3> QED
      BY <3>1, <1>2
  <2>2. wiped' \subseteq 1 .. turns' /\ kept' \in Nat
    BY <1>2
  <2> QED
    BY <1>1, <1>2, <1>3, <2>1, <2>2 DEF SessionTypes, OthersStay
<1>10. StageInv'
  <2>1. \A b \in Actors : pc'[b] = "idle" <=> pc[b] = "idle"
    BY <1>2, <1>3 DEF OthersStay
  <2>2. \A b \in Actors : pc'[b] \in Talking => turn'[b] \in 1 .. turns' /\ turn'[b] \notin wiped'
    BY <1>1, <1>2, <1>7, <1>8 DEF StageInv
  <2>3. /\ \A b, c \in Actors :
              b # c /\ pc[b] \in Talking /\ pc[c] \in Talking => turn[b] # turn[c]
        /\ \A b \in Actors : pc[b] = "idle" <=> wm[b] = None
        /\ copies => \A b \in Actors : wm[b] # None =>
              wm[b] # cache /\ \A c \in Actors \ {b} : wm[c] # wm[b]
    BY <1>1 DEF StageInv
  <2>4. /\ \A b, c \in Actors :
              b # c /\ pc'[b] \in Talking /\ pc'[c] \in Talking => turn'[b] # turn'[c]
        /\ \A b \in Actors : pc'[b] = "idle" <=> wm'[b] = None
        /\ copies' => \A b \in Actors : wm'[b] # None =>
              wm'[b] # cache' /\ \A c \in Actors \ {b} : wm'[c] # wm'[b]
    BY <1>2, <1>8, <2>1, <2>3
  <2> QED
    BY <2>2, <2>4 DEF StageInv
<1>11. MessageInv'
  <2>1. \A m \in Messages : Pending(m, pc', turn', turns') => Pending(m, pc, turn, turns)
    <3>1. pc'[r] \notin Asked /\ pc'[r] # "human"
      BY <1>3 DEF Asked
    <3> QED
      BY <1>1, <1>2, <1>3, <3>1, PendingShrinks
  <2> QED
    BY <1>1, <1>2, <1>6, <2>1, CopiesKeepMessages DEF SessionInv
<1>m. TailInv'
  <2> SUFFICES ASSUME ~interfered, ~Interferes(r), NEW b \in Actors, pc'[b] \in MidUpdate
               PROVE  /\ \A c \in Actors \ {b} : wm[c] = wm[b] => pc'[c] \notin MidUpdate
                      /\ pc'[b] \in Assigning => tail[b] = Recent(heap'[wm[b]])
    BY <1>2 DEF TailInv
  <2>1. b # r /\ pc[b] \in MidUpdate /\ pc'[b] = pc[b]
    BY <1>3 DEF OthersStay, MidUpdate
  <2>2. \A c \in Actors : pc'[c] \in MidUpdate => pc[c] \in MidUpdate
    BY <1>3 DEF OthersStay, MidUpdate
  <2>3. wm[b] # wm[r] /\ wm[b] \in Objects
    BY <1>1, <2>1 DEF Interferes, StageInv, SessionTypes, MidUpdate
  <2>4. /\ \A c \in Actors \ {b} : wm[c] = wm[b] => pc[c] \notin MidUpdate
        /\ pc[b] \in Assigning => tail[b] = Recent(heap[wm[b]])
    BY <2>1 DEF SessionInv, TailInv
  <2> QED
    BY <2>1, <2>2, <2>3, <2>4, <1>5
<1>12. OrderInv'
  <2> SUFFICES ASSUME ~interfered'
               PROVE  (\A o \in Objects : Ordered(heap'[o], torn')) /\ \A b \in Actors : Said(b)'
    BY DEF OrderInv
  <2>1. \A o \in Objects : Ordered(heap'[o], torn')
    BY <1>2, <1>6, CopiesKeepOrder DEF SessionInv, OrderInv
  <2>2. ASSUME NEW b \in Actors PROVE Said(b)'
    <3>1. CASE pc'[b] \in Talking
      <4>1. turn'[b] \in torn'
        BY <3>1, <1>2, <1>7, <1>8
      <4> QED
        BY <4>1 DEF Said
    <3>2. CASE pc'[b] \notin Talking
      BY <3>2 DEF Said, Talking, Asked, Answered, MidUpdate
    <3> QED
      BY <3>1, <3>2
  <2> QED
    BY <2>1, <2>2
<1>13. ShareInv' /\ KeepInv'
  BY <1>2 DEF SessionInv, ShareInv, KeepInv, Users
<1>14. CleanInv'
  <2> SUFFICES ASSUME ~forked, ~interfered
               PROVE  /\ \A b \in Actors : wm[b] # None => Clean(heap'[wm[b]], wiped')
                      /\ cache # None =>
                            Clean(heap'[cache], wiped') \/ (copies /\ \E b \in Actors : pc'[b] = "end")
    BY <1>2 DEF CleanInv, Users
  <2>1. Clean(heap'[wm[r]], wiped')
    BY <1>5 DEF Clean
  <2>2. \A b \in Actors : wm[b] # None => wm[b] = wm[r]
    BY <1>1, <1>4 DEF SessionInv, ShareInv, Users
  <2>3. ~copies => cache \in {wm[r], None}
    BY <1>1, <1>4 DEF SessionInv, ShareInv, Users
  <2> QED
    BY <2>1, <2>2, <2>3, <1>1, <1>3
<1> QED
  BY <1>9, <1>10, <1>11, <1>m, <1>12, <1>13, <1>14 DEF SessionInv

\* StrayCats are dropped, the cache may be emptied; nothing else is written.
LEMMA ForgetStep ==
    ASSUME SessionInv, SocketInv',
           NEW c \in {cache, None}, NEW w \in [Actors -> Objects \union {None}],
           SetMemory(heap, c, w),
           copies' = copies /\ turns' = turns /\ torn' = torn /\ interfered' = interfered,
           tail' \in [Actors -> Seq(Messages)], \A b \in Actors : tail'[b] \in {<<>>, tail[b]},
           \A b \in Actors : w[b] # None => tail'[b] = tail[b],
           pc' \in [Actors -> Stages], turn' \in [Actors -> Nat],
           \A b \in Actors :
               \/ w[b] = wm[b] /\ pc'[b] = pc[b] /\ turn'[b] = turn[b]
               \/ w[b] = None /\ pc'[b] = "idle",
           cut' \in BOOLEAN, connections' \in Sockets \union {None},
           evictions' \in Nat, restarts' \in Nat, evictions' = 0 => evictions = 0,
           kept' \in {kept, 0}, kept' # 0 /\ evictions' = 0 => c = cache,
           wiped' \in {wiped, {}},
           wiped' = {} \/ \A b \in Actors : pc[b] = "end" => pc'[b] = "end"
    PROVE  SessionInv'
<1>1. SessionTypes /\ StageInv /\ None \notin Objects
  BY ActorFacts DEF SessionInv
<1>2. c \in Objects \union {None} /\ heap \in [Objects -> Seq(Messages)]
  BY <1>1 DEF SessionTypes
<1>3. /\ cache' = c /\ wm' = w
      /\ forked' \in BOOLEAN /\ (forked => forked')
      /\ heap' \in [Objects -> Seq(Messages)]
      /\ \A o \in Objects : heap'[o] = heap[o] \/ heap'[o] = <<>>
      /\ c # None => heap'[c] = heap[c]
      /\ \A a \in Actors : w[a] # None => heap'[w[a]] = heap[w[a]]
  BY <1>1, <1>2, MemoryFacts
<1>4. \A b \in Actors : w[b] # None => w[b] = wm[b] /\ pc'[b] = pc[b] /\ turn'[b] = turn[b]
  OBVIOUS
<1>5. \A b \in Actors : pc'[b] # "idle" => pc'[b] = pc[b] /\ turn'[b] = turn[b] /\ w[b] = wm[b]
  OBVIOUS
<1>6. SessionTypes'
  <2>1. kept' \in Nat /\ wiped' \subseteq 1 .. turns'
    BY <1>1 DEF SessionTypes
  <2> QED
    BY <1>1, <1>2, <1>3, <2>1 DEF SessionTypes
<1>7. StageInv'
  <2>1. \A b \in Actors : pc'[b] \in Talking => pc[b] \in Talking /\ turn'[b] = turn[b]
    BY <1>5 DEF Talking, MidUpdate
  <2>2. \A b \in Actors : pc'[b] = "idle" <=> w[b] = None
    BY <1>1 DEF StageInv
  <2>3. ASSUME copies, NEW b \in Actors, w[b] # None
        PROVE  w[b] # c /\ \A d \in Actors \ {b} : w[d] # w[b]
    <3>1. w[b] = wm[b] /\ wm[b] # None
      BY <2>3, <1>4
    <3>2. wm[b] # cache /\ \A d \in Actors \ {b} : wm[d] # wm[b]
      BY <2>3, <3>1, <1>1 DEF StageInv
    <3> QED
      BY <2>3, <3>1, <3>2, <1>4
  <2>4. /\ \A b \in Actors : pc[b] \in Talking => turn[b] \in 1 .. turns /\ turn[b] \notin wiped
        /\ \A b, d \in Actors :
              b # d /\ pc[b] \in Talking /\ pc[d] \in Talking => turn[b] # turn[d]
    BY <1>1 DEF StageInv
  <2>5. /\ \A b \in Actors : pc'[b] \in Talking => turn'[b] \in 1 .. turns' /\ turn'[b] \notin wiped'
        /\ \A b, d \in Actors :
              b # d /\ pc'[b] \in Talking /\ pc'[d] \in Talking => turn'[b] # turn'[d]
    BY <2>1, <2>4
  <2> QED
    BY <2>2, <2>3, <2>5, <1>3 DEF StageInv
<1>8. OnlyCopies
  BY <1>3 DEF OnlyCopies
<1>9. MessageInv'
  <2>1. \A m \in Messages : Pending(m, pc', turn', turns') => Pending(m, pc, turn, turns)
    <3>1. "idle" \notin Asked
      BY DEF Asked
    <3> QED
      BY <1>5, <3>1 DEF Pending
  <2> QED
    BY <1>1, <1>8, <2>1, CopiesKeepMessages DEF SessionInv
<1>m. TailInv'
  <2> SUFFICES ASSUME ~interfered, NEW b \in Actors, pc'[b] \in MidUpdate
               PROVE  /\ \A d \in Actors \ {b} : w[d] = w[b] => pc'[d] \notin MidUpdate
                      /\ pc'[b] \in Assigning => tail'[b] = Recent(heap'[w[b]])
    BY <1>3 DEF TailInv
  <2>1. \A d \in Actors : pc'[d] \in MidUpdate =>
            pc'[d] = pc[d] /\ w[d] = wm[d] /\ wm[d] # None
    BY <1>1, <1>5 DEF MidUpdate, StageInv
  <2>2. /\ \A d \in Actors \ {b} : wm[d] = wm[b] => pc[d] \notin MidUpdate
        /\ pc[b] \in Assigning => tail[b] = Recent(heap[wm[b]])
    BY <2>1 DEF SessionInv, TailInv
  <2>3. tail'[b] = tail[b] /\ heap'[w[b]] = heap[w[b]]
    BY <2>1, <1>3
  <2> QED
    BY <2>1, <2>2, <2>3
<1>10. OrderInv'
  <2> SUFFICES ASSUME ~interfered'
               PROVE  (\A o \in Objects : Ordered(heap'[o], torn')) /\ \A b \in Actors : Said(b)'
    BY DEF OrderInv
  <2>1. \A o \in Objects : Ordered(heap'[o], torn')
    BY <1>8, CopiesKeepOrder DEF SessionInv, OrderInv
  <2>2. ASSUME NEW b \in Actors PROVE Said(b)'
    <3>1. CASE pc'[b] = "idle"
      BY <3>1 DEF Said, Asked, Answered
    <3>2. CASE pc'[b] # "idle"
      <4>1. Said(b) /\ pc'[b] = pc[b] /\ turn'[b] = turn[b] /\ wm'[b] = wm[b]
        BY <3>2, <1>3, <1>5 DEF SessionInv, OrderInv
      <4>2. wm'[b] # None
        BY <3>2, <4>1, <1>1 DEF StageInv
      <4> QED
        BY <4>1, <4>2, <1>3 DEF Said
    <3> QED
      BY <3>1, <3>2
  <2> QED
    BY <2>1, <2>2
<1>11. ShareInv'
  <2> SUFFICES ASSUME ~forked', NEW b \in Actors, w[b] # None
               PROVE  /\ \A d \in Actors \ {b} : w[d] # None => ~copies /\ w[d] = w[b]
                      /\ ~copies => c \in {w[b], None}
    BY <1>3 DEF ShareInv, Users
  <2>1. /\ \A d \in Actors \ {b} : wm[d] # None => ~copies /\ wm[d] = wm[b]
        /\ ~copies => cache \in {wm[b], None}
    BY <1>3, <1>4 DEF SessionInv, ShareInv, Users
  <2> QED
    BY <2>1, <1>4
<1>12. KeepInv'
  <2> SUFFICES ASSUME ~forked', ~interfered, evictions' = 0, kept' # 0
               PROVE  /\ c # None /\ Known(heap'[c], <<"AI", kept'>>)
                      /\ \A b \in Actors : w[b] # None => Known(heap'[w[b]], <<"AI", kept'>>)
    BY <1>3 DEF KeepInv, Users
  <2>1. /\ cache # None /\ Known(heap[cache], <<"AI", kept>>)
        /\ \A b \in Actors : wm[b] # None => Known(heap[wm[b]], <<"AI", kept>>)
    BY <1>3 DEF SessionInv, KeepInv, Users
  <2>2. kept' = kept /\ c = cache
    OBVIOUS
  <2>3. \A b \in Actors : w[b] # None => Known(heap'[w[b]], <<"AI", kept>>)
    BY <2>1, <1>3, <1>4
  <2> QED
    BY <2>1, <2>2, <2>3, <1>3
<1>13. CleanInv'
  <2> SUFFICES ASSUME ~forked', ~interfered
               PROVE  /\ \A b \in Actors : w[b] # None => Clean(heap'[w[b]], wiped')
                      /\ c # None =>
                            Clean(heap'[c], wiped') \/ (copies /\ \E b \in Actors : pc'[b] = "end")
    BY <1>3 DEF CleanInv, Users
  <2>1. /\ \A b \in Actors : wm[b] # None => Clean(heap[wm[b]], wiped)
        /\ cache # None =>
              Clean(heap[cache], wiped) \/ (copies /\ \E b \in Actors : pc[b] = "end")
    BY <1>3 DEF SessionInv, CleanInv, Users
  <2>2. \A h : Clean(h, {})
    BY DEF Clean
  <2>3. CASE wiped' = {}
    BY <2>2, <2>3
  <2>4. CASE wiped' = wiped /\ \A b \in Actors : pc[b] = "end" => pc'[b] = "end"
    <3>0. \A b \in Actors : w[b] # None => heap'[w[b]] = heap[wm[b]] /\ wm[b] # None
      BY <1>3, <1>4
    <3>1. \A b \in Actors : w[b] # None => Clean(heap'[w[b]], wiped')
      BY <2>1, <2>4, <3>0
    <3> QED
      BY <2>1, <2>4, <3>1, <1>3
  <2> QED
    BY <2>3, <2>4
<1> QED
  BY <1>6, <1>7, <1>9, <1>m, <1>10, <1>11, <1>12, <1>13 DEF SessionInv

-----------------------------------------------------------------------------
(* The actions *)

\* The table of websockets is corrected by every step that ends an endpoint.
LEMMA SocketStep ==
    ASSUME SessionTypes, SocketInv, Next
    PROVE  SocketInv'
<1> SUFFICES ASSUME connections' # None
             PROVE  pc'[connections'] \notin {"idle", "accept", "end", "abort"}
  BY DEF SocketInv, NoDeadConnection
<1> USE DEF Stages, Talking, MidUpdate
<1>1. Sockets \subseteq Actors /\ Requests \subseteq Actors /\ Sockets \intersect Requests = {}
  BY SessionsAssumption DEF Actors
<1>2. CASE Evict \/ Restart
  BY <1>2, <1>1 DEF Evict, Restart, SocketInv, NoDeadConnection, SessionTypes
<1>3. ASSUME NEW r \in Requests, HttpStart(r) \/ wipe_conversation_history(r)
      PROVE  pc'[connections'] \notin {"idle", "accept", "end", "abort"}
  <2>1. connections' = connections /\ connections # r /\ connections \in Actors
    BY <1>1, <1>3 DEF HttpStart, wipe_conversation_history, SessionTypes
  <2>2. pc'[connections] = pc[connections]
    BY <2>1, <1>3, <1>1, GotoFacts DEF HttpStart, wipe_conversation_history
  <2> QED
    BY <2>1, <2>2 DEF SocketInv, NoDeadConnection
<1>4. ASSUME NEW s \in Sockets, WsConnect(s) \/ remove_connection(s) \/ WsLoadFails(s)
      PROVE  pc'[connections'] \notin {"idle", "accept", "end", "abort"}
  <2>1. /\ WsConnect(s) /\ connections' = connections /\ Goto(s, "accept") /\ pc[s] = "idle"
    BY <1>4 DEF WsConnect, remove_connection, WsLoadFails
  <2>2. connections \in Actors /\ connections # s
    BY <2>1, <1>1 DEF SessionTypes, SocketInv, NoDeadConnection
  <2>3. pc'[connections] = pc[connections]
    BY <2>1, <2>2, <1>1, GotoFacts
  <2> QED
    BY <2>1, <2>3 DEF SocketInv, NoDeadConnection
<1>5. ASSUME NEW s \in Sockets, add_connection(s) \/ WsMessage(s) \/ Send(s)
      PROVE  pc'[connections'] \notin {"idle", "accept", "end", "abort"}
  <2>1. PICK l \in {"open", "human"} : Goto(s, l) /\ connections' \in {s, connections}
    BY <1>5 DEF add_connection, WsMessage, Send
  <2>2. pc'[s] = l /\ \A b \in Actors \ {s} : pc'[b] = pc[b]
    BY <2>1, <1>1, GotoFacts
  <2>3. connections' \in Actors
    BY <2>1, <1>1 DEF SessionTypes
  <2>4. CASE connections' = s
    BY <2>2, <2>4
  <2>5. CASE connections' # s
    BY <2>1, <2>2, <2>3, <2>5 DEF SocketInv, NoDeadConnection
  <2> QED
    BY <2>4, <2>5
<1>6. ASSUME NEW a \in Actors, TurnStep(a) \/ End(a) \/ Abort(a)
      PROVE  pc'[connections'] \notin {"idle", "accept", "end", "abort"}
  <2>1. connections' = connections
    BY <1>6 DEF TurnStep, fast_reply, Human, Answer, Say, Slice, Assign, RecallFails, AgentFails,
                Truncate, DumpFails, Save, End, Abort
  <2>2. connections \in Sockets /\ connections \in Actors
    BY <2>1, <1>1 DEF SessionTypes
  <2>3. PICK l \in Stages : Goto(a, l) /\ (a \in Sockets /\ pc[a] \notin {"end", "abort"} =>
                                               l \notin {"idle", "accept", "end", "abort"})
    BY <1>6 DEF TurnStep, fast_reply, Human, Answer, Say, Slice, Assign, RecallFails, AgentFails,
                Truncate, DumpFails, Save, End, Abort, AfterTurn, Dumping
  <2>4. pc'[a] = l /\ \A b \in Actors \ {a} : pc'[b] = pc[b]
    BY <2>3, GotoFacts
  <2>5. CASE connections = a
    BY <2>1, <2>2, <2>3, <2>4, <2>5 DEF SocketInv, NoDeadConnection
  <2>6. CASE connections # a
    BY <2>1, <2>2, <2>4, <2>6 DEF SocketInv, NoDeadConnection
  <2> QED
    BY <2>5, <2>6
<1> QED
  BY <1>2, <1>3, <1>4, <1>5, <1>6 DEF Next

\* The initial states have the invariant.
LEMMA SessionInit == Init => SessionInv
<1> SUFFICES ASSUME Init PROVE SessionInv
  OBVIOUS
<1>1. SessionTypes
  <2>1. <<>> \in Seq(Messages) /\ copies \in BOOLEAN
    BY SessionsAssumption DEF Init
  <2> QED
    BY <2>1 DEF Init, SessionTypes, Stages
<1>2. Users(wm) = {}
  BY DEF Init, Users
<1>3. StageInv /\ SocketInv
  BY DEF Init, StageInv, SocketInv, NoDeadConnection, Talking, MidUpdate
<1>4. MessageInv /\ TailInv /\ OrderInv
  <2>1. \A p, t, n : Sound(<<>>, p, t, n)
    BY DEF Sound, Once, Forward
  <2> QED
    BY <2>1 DEF Init, MessageInv, TailInv, OrderInv, Ordered, Said, MidUpdate, Asked, Answered
<1>5. ShareInv /\ KeepInv /\ CleanInv
  BY <1>2 DEF Init, ShareInv, KeepInv, CleanInv
<1> QED
  BY <1>1, <1>3, <1>4, <1>5 DEF SessionInv

\* Loading the session: a request begins, a socket connects or sends a message.
LEMMA LoadActions ==
    ASSUME SessionInv, SocketInv', NEW a \in Actors,
           (a \in Requests /\ HttpStart(a)) \/ (a \in Sockets /\ (WsConnect(a) \/ WsMessage(a)))
    PROVE  SessionInv'
<1>1. PICK l \in {"human", "wipe", "end", "accept"} :
          /\ Goto(a, l) /\ load_working_memory_from_cache(a) /\ pc[a] \in {"idle", "open"}
          /\ \/ l = "human" /\ turns' = turns + 1 /\ turn' = [turn EXCEPT ![a] = turns + 1]
             \/ l # "human" /\ turns' = turns /\ turn' = turn
          /\ copies' = copies /\ evictions' = evictions /\ restarts' = restarts
          /\ kept' = kept /\ wiped' = wiped /\ torn' = torn /\ connections' = connections
          /\ tail' = tail /\ interfered' = interfered
  BY DEF HttpStart, WsConnect, WsMessage, BeginTurn, bounds, updates, ghosts
<1>2. l \in Stages /\ SessionTypes
  BY DEF Stages, Talking, SessionInv
<1>3. pc' \in [Actors -> Stages] /\ pc'[a] = l /\ \A b \in Actors \ {a} : pc'[b] = pc[b]
  BY <1>1, <1>2, GotoFacts
<1>4. OthersStay(a)
  <2>1. turn \in [Actors -> Nat] /\ turns + 1 \in Nat
    BY <1>2 DEF SessionTypes
  <2> QED
    BY <2>1, <1>1, <1>3 DEF OthersStay
<1>5. \/ turns' = turns /\ pc'[a] # "human"
      \/ turns' = turns + 1 /\ turn'[a] = turns + 1 /\ pc'[a] = "human"
  BY <1>1, <1>2, <1>3 DEF SessionTypes
<1> QED
  BY <1>1, <1>3, <1>4, <1>5, LoadStep

\* The actions that change no history.
LEMMA SilentActions ==
    ASSUME SessionInv, SocketInv', NEW a \in Actors,
           \/ a \in Sockets /\ (add_connection(a) \/ WsLoadFails(a) \/ remove_connection(a) \/ Send(a))
           \/ fast_reply(a) \/ RecallFails(a) \/ AgentFails(a) \/ Truncate(a) \/ DumpFails(a)
    PROVE  SessionInv'
<1> USE DEF Talking, MidUpdate
<1>1. SessionTypes
  BY DEF SessionInv
<1> DEFINE Turns(l) ==
               /\ Goto(a, l) /\ pc[a] \notin {"idle", "end"}
               /\ turn' = turn \/ (turn' = [turn EXCEPT ![a] = 0] /\ l \notin Talking)
               /\ l \in Talking => pc[a] \in Talking
               /\ l \in {"save", "dump"} => pc[a] \in {"save", "dump"}
           Rest ==
               /\ cut' \in {cut, TRUE} /\ connections' \in {connections, None} \union ({a} \intersect Sockets)
               /\ copies' = copies /\ heap' = heap /\ cache' = cache /\ wm' = wm /\ forked' = forked
               /\ turns' = turns /\ evictions' = evictions /\ restarts' = restarts
               /\ kept' = kept /\ wiped' = wiped /\ torn' = torn
               /\ tail' = tail /\ interfered' = interfered
           Labels == Stages \ ({"idle", "human"} \union Asked \union MidUpdate)
<1>c. Rest
  BY DEF add_connection, WsLoadFails, remove_connection, Send, fast_reply, RecallFails,
         AgentFails, Truncate, DumpFails, memory, bounds, updates, ghosts
<1>d. \E l \in Labels : Turns(l)
  <2> USE DEF Stages, Asked
  <2>1. CASE add_connection(a) \/ WsLoadFails(a) \/ remove_connection(a)
    BY <2>1 DEF add_connection, WsLoadFails, remove_connection
  <2>2. CASE Send(a)
    BY <2>2 DEF Send
  <2>3. CASE fast_reply(a) \/ RecallFails(a)
    BY <2>3 DEF fast_reply, RecallFails
  <2>4. CASE AgentFails(a) \/ DumpFails(a)
    BY <2>4 DEF AgentFails, DumpFails, AfterTurn
  <2>5. CASE Truncate(a)
    <3>1. PICK l \in {"save", "save_reply", "save_error"} : pc[a] = l /\ Goto(a, Dumping[l])
      BY <2>5 DEF Truncate, Dumping
    <3>2. /\ Dumping[l] \in Labels /\ Dumping[l] \in Talking /\ l \in Talking
          /\ Dumping[l] \in {"save", "dump"} => l = "save"
      BY <3>1 DEF Dumping
    <3>3. turn' = turn
      BY <2>5 DEF Truncate
    <3> QED
      BY <3>1, <3>2, <3>3
  <2> QED
    BY <2>1, <2>2, <2>3, <2>4, <2>5
<1>2. PICK l \in Labels : Turns(l)
  BY <1>d
<1>3. pc' \in [Actors -> Stages] /\ pc'[a] = l /\ \A b \in Actors \ {a} : pc'[b] = pc[b]
  BY <1>1, <1>2, GotoFacts
<1>4. OthersStay(a) /\ (l \in Talking => turn'[a] = turn[a])
  <2>1. turn \in [Actors -> Nat]
    BY <1>1 DEF SessionTypes
  <2> QED
    BY <2>1, <1>2, <1>3 DEF OthersStay
<1>5. cut' \in BOOLEAN /\ connections' \in Sockets \union {None}
  BY <1>1, <1>c DEF SessionTypes
<1> HIDE DEF Talking, MidUpdate
<1>6. pc'[a] \notin {"idle", "human"} \union Asked \union MidUpdate /\ pc[a] \notin {"idle", "end"}
  BY <1>2, <1>3
<1>7. /\ pc'[a] \in Talking => pc[a] \in Talking /\ turn'[a] = turn[a]
      /\ pc'[a] \in {"save", "dump"} => pc[a] \in {"save", "dump"}
  BY <1>2, <1>3, <1>4
<1> QED
  BY <1>c, <1>4, <1>5, <1>6, <1>7, SilentStep

\* A turn appends the human message and the answer to its working memory.
LEMMA SayActions ==
    ASSUME SessionInv, SocketInv', NEW a \in Actors, Human(a) \/ Answer(a)
    PROVE  SessionInv'
<1>1. PICK m \in {<<"Human", turn[a]>>, <<"AI", turn[a]>>}, l \in {"human_slice", "answer_slice"} :
          /\ Goto(a, l) /\ heap' = [heap EXCEPT ![wm[a]] = Append(@, m)]
          /\ \/ m = <<"Human", turn[a]>> /\ pc[a] = "human" /\ l = "human_slice"
             \/ m = <<"AI", turn[a]>> /\ pc[a] = "answer" /\ l = "answer_slice"
          /\ copies' = copies /\ cache' = cache /\ wm' = wm /\ forked' = forked /\ cut' = cut
          /\ turn' = turn /\ turns' = turns /\ evictions' = evictions /\ restarts' = restarts
          /\ kept' = kept /\ wiped' = wiped /\ torn' = torn /\ connections' = connections
          /\ tail' = tail /\ interfered' = (interfered \/ Interferes(a))
  BY DEF Human, Answer, Say, bounds, ghosts
<1>2. SessionTypes /\ l \in Stages /\ m \in Messages
  BY <1>1 DEF SessionInv, Stages, Talking, MidUpdate, Messages, SessionTypes
<1>3. pc' \in [Actors -> Stages] /\ pc'[a] = l /\ \A b \in Actors \ {a} : pc'[b] = pc[b]
  BY <1>1, <1>2, GotoFacts
<1>4. OthersStay(a)
  BY <1>1, <1>2, <1>3 DEF OthersStay, SessionTypes
<1>5. \/ m = <<"Human", turn[a]>> /\ pc[a] = "human" /\ pc'[a] = "human_slice"
      \/ m = <<"AI", turn[a]>> /\ pc[a] = "answer" /\ pc'[a] = "answer_slice"
  BY <1>1, <1>3
<1> QED
  BY <1>1, <1>2, <1>4, <1>5, SayStep

\* update_history takes the last messages.
LEMMA SliceAction ==
    ASSUME SessionInv, SocketInv', NEW a \in Actors, Slice(a)
    PROVE  SessionInv'
<1>1. PICK l \in {"human_assign", "answer_assign"} :
          /\ Goto(a, l) /\ tail' = [tail EXCEPT ![a] = Recent(heap[wm[a]])]
          /\ \/ pc[a] = "human_slice" /\ l = "human_assign"
             \/ pc[a] = "answer_slice" /\ l = "answer_assign"
          /\ heap' = heap /\ interfered' = interfered
          /\ copies' = copies /\ cache' = cache /\ wm' = wm /\ forked' = forked /\ cut' = cut
          /\ turn' = turn /\ turns' = turns /\ evictions' = evictions /\ restarts' = restarts
          /\ kept' = kept /\ wiped' = wiped /\ torn' = torn /\ connections' = connections
  BY DEF Slice, memory, bounds, ghosts
<1>2. SessionTypes /\ l \in Stages
  BY <1>1 DEF SessionInv, Stages, Talking, MidUpdate
<1>3. pc' \in [Actors -> Stages] /\ pc'[a] = l /\ \A b \in Actors \ {a} : pc'[b] = pc[b]
  BY <1>1, <1>2, GotoFacts
<1>4. OthersStay(a)
  BY <1>1, <1>2, <1>3 DEF OthersStay, SessionTypes
<1> QED
  BY <1>1, <1>3, <1>4, SliceStep

\* update_history assigns them.
LEMMA AssignAction ==
    ASSUME SessionInv, SocketInv', NEW a \in Actors, Assign(a)
    PROVE  SessionInv'
<1>1. PICK l \in {"answer", "save"} :
          /\ Goto(a, l) /\ heap' = [heap EXCEPT ![wm[a]] = tail[a]]
          /\ \/ pc[a] = "human_assign" /\ l = "answer"
             \/ pc[a] = "answer_assign" /\ l = "save"
          /\ tail' = [tail EXCEPT ![a] = <<>>] /\ interfered' = interfered
          /\ copies' = copies /\ cache' = cache /\ wm' = wm /\ forked' = forked /\ cut' = cut
          /\ turn' = turn /\ turns' = turns /\ evictions' = evictions /\ restarts' = restarts
          /\ kept' = kept /\ wiped' = wiped /\ torn' = torn /\ connections' = connections
  BY DEF Assign, bounds, ghosts
<1>2. SessionTypes /\ l \in Stages
  BY <1>1 DEF SessionInv, Stages, Talking, MidUpdate
<1>3. pc' \in [Actors -> Stages] /\ pc'[a] = l /\ \A b \in Actors \ {a} : pc'[b] = pc[b]
  BY <1>1, <1>2, GotoFacts
<1>4. OthersStay(a)
  BY <1>1, <1>2, <1>3 DEF OthersStay, SessionTypes
<1> QED
  BY <1>1, <1>3, <1>4, AssignStep

\* A turn writes its working memory back to the cache.
LEMMA SaveAction ==
    ASSUME SessionInv, SocketInv', NEW a \in Actors, Save(a)
    PROVE  SessionInv'
<1>1. PICK l \in {"send", "end", "abort"} :
          /\ Goto(a, l) /\ update_working_memory_cache(a, wm) /\ pc[a] # "idle"
          /\ \/ kept' = kept
             \/ kept' = turn[a] /\ turn[a] \notin torn /\ pc[a] \in {"save", "dump"}
          /\ copies' = copies /\ turn' = turn /\ turns' = turns
          /\ evictions' = evictions /\ restarts' = restarts
          /\ wiped' = wiped /\ torn' = torn /\ connections' = connections
          /\ tail' = tail /\ interfered' = interfered
  BY DEF Save, Saving, AfterTurn, bounds, updates
<1>2. SessionTypes /\ l \in Stages /\ l \notin Talking /\ l # "idle"
  BY <1>1 DEF SessionInv, Stages, Talking, MidUpdate
<1>3. pc' \in [Actors -> Stages] /\ pc'[a] = l /\ \A b \in Actors \ {a} : pc'[b] = pc[b]
  BY <1>1, <1>2, GotoFacts
<1>4. OthersStay(a)
  BY <1>1, <1>2, <1>3 DEF OthersStay, SessionTypes
<1>5. wm \in [Actors -> Objects \union {None}] /\ wm[a] # None
  BY <1>1 DEF SessionInv, SessionTypes, StageInv
<1>6. pc'[a] \notin Talking /\ (pc'[a] = "idle" <=> wm[a] = None)
  BY <1>2, <1>3, <1>5
<1> QED
  BY <1>1, <1>4, <1>5, <1>6, UpdateStep

\* A request that is over lets go of its working memory.
LEMMA EndAction ==
    ASSUME SessionInv, SocketInv', NEW a \in Actors, End(a)
    PROVE  SessionInv'
<1> DEFINE w == [wm EXCEPT ![a] = None]
<1>1. /\ pc[a] = "end" /\ Goto(a, "idle") /\ update_working_memory_cache(a, w)
      /\ copies' = copies /\ turn' = [turn EXCEPT ![a] = 0] /\ turns' = turns
      /\ evictions' = evictions /\ restarts' = restarts /\ kept' = kept
      /\ wiped' = wiped /\ torn' = torn /\ connections' = connections
      /\ tail' = tail /\ interfered' = interfered
  BY DEF End, bounds, updates, ghosts
<1>2. SessionTypes /\ "idle" \in Stages /\ "idle" \notin Talking
  BY DEF SessionInv, Stages, Talking, MidUpdate
<1>3. pc' \in [Actors -> Stages] /\ pc'[a] = "idle" /\ \A b \in Actors \ {a} : pc'[b] = pc[b]
  BY <1>1, <1>2, GotoFacts
<1>4. OthersStay(a)
  BY <1>1, <1>2, <1>3 DEF OthersStay, SessionTypes
<1>5. /\ w \in [Actors -> Objects \union {None}] /\ w[a] = None
      /\ \A b \in Actors \ {a} : w[b] = wm[b]
  BY <1>2 DEF SessionTypes
<1> HIDE DEF w
<1>6. pc'[a] \notin Talking /\ (pc'[a] = "idle" <=> w[a] = None) /\ pc[a] # "idle"
  BY <1>1, <1>2, <1>3, <1>5
<1>7. w[a] \in {wm[a], None}
  BY <1>5
<1> QED
  BY <1>1, <1>4, <1>5, <1>6, <1>7, UpdateStep

\* Evictions, restarts and requests that are cut off.
LEMMA ForgetActions ==
    ASSUME SessionInv, SocketInv',
           Evict \/ Restart \/ \E a \in Actors : Abort(a)
    PROVE  SessionInv'
<1>1. SessionTypes /\ wm \in [Actors -> Objects \union {None}] /\ kept \in Nat
      /\ tail \in [Actors -> Seq(Messages)] /\ <<>> \in Seq(Messages)
  BY DEF SessionInv, SessionTypes
<1>2. CASE Evict
  <2>1. /\ SetMemory(heap, None, wm) /\ None \in {cache, None}
        /\ copies' = copies /\ turns' = turns /\ torn' = torn /\ pc' = pc /\ turn' = turn
        /\ cut' = cut /\ connections' = connections /\ evictions' = evictions + 1
        /\ restarts' = restarts /\ kept' = kept /\ wiped' = wiped
        /\ tail' = tail /\ interfered' = interfered
    BY <1>2 DEF Evict, updates, ghosts
  <2>2. /\ pc' \in [Actors -> Stages] /\ turn' \in [Actors -> Nat]
        /\ cut' \in BOOLEAN /\ connections' \in Sockets \union {None}
        /\ evictions' \in Nat /\ restarts' \in Nat /\ evictions' # 0
    BY <1>1, <2>1 DEF SessionTypes
  <2> QED
    BY <1>1, <2>1, <2>2, ForgetStep
<1>3. CASE Restart
  <2> DEFINE c == IF copies THEN cache ELSE None
             w == [a \in Actors |-> None]
  <2>1. /\ SetMemory(heap, c, w)
        /\ copies' = copies /\ turns' = turns /\ torn' = torn
        /\ pc' = [a \in Actors |-> "idle"] /\ turn' = [a \in Actors |-> 0]
        /\ cut' \in {cut, TRUE, FALSE} /\ connections' = None /\ evictions' = evictions
        /\ restarts' = restarts + 1 /\ kept' = IF copies THEN kept ELSE 0
        /\ wiped' = IF \E a \in Actors : pc[a] = "end" THEN {} ELSE wiped
        /\ tail' = [a \in Actors |-> <<>>] /\ interfered' = interfered
    BY <1>3 DEF Restart
  <2>2. /\ c \in {cache, None} /\ w \in [Actors -> Objects \union {None}]
        /\ \A a \in Actors : w[a] = None
        /\ copies => c = cache
    OBVIOUS
  <2> HIDE DEF c, w
  <2>3. /\ pc' \in [Actors -> Stages] /\ turn' \in [Actors -> Nat]
        /\ \A a \in Actors : pc'[a] = "idle"
        /\ cut' \in BOOLEAN /\ connections' \in Sockets \union {None}
        /\ evictions' \in Nat /\ restarts' \in Nat /\ (evictions' = 0 => evictions = 0)
    <3>1. "idle" \in Stages
      BY DEF Stages
    <3>2. pc' \in [Actors -> Stages] /\ turn' \in [Actors -> Nat] /\ \A a \in Actors : pc'[a] = "idle"
      BY <2>1, <3>1
    <3>3. cut' \in BOOLEAN /\ connections' \in Sockets \union {None}
      BY <1>1, <2>1 DEF SessionTypes
    <3>4. evictions' \in Nat /\ restarts' \in Nat /\ (evictions' = 0 => evictions = 0)
      BY <1>1, <2>1 DEF SessionTypes
    <3> QED
      BY <3>2, <3>3, <3>4
  <2>4. kept' \in {kept, 0} /\ (kept' # 0 /\ evictions' = 0 => c = cache)
    BY <2>1, <2>2
  <2>5. wiped' \in {wiped, {}} /\ (wiped' = {} \/ \A b \in Actors : pc[b] = "end" => pc'[b] = "end")
    BY <2>1
  <2>6. /\ tail' \in [Actors -> Seq(Messages)] /\ \A b \in Actors : tail'[b] \in {<<>>, tail[b]}
        /\ \A b \in Actors : w[b] # None => tail'[b] = tail[b]
    BY <1>1, <2>1, <2>2
  <2> QED
    BY <2>1, <2>2, <2>3, <2>4, <2>5, <2>6, ForgetStep
<1>4. ASSUME NEW a \in Actors, Abort(a) PROVE SessionInv'
  <2> DEFINE w == [wm EXCEPT ![a] = None]
  <2>1. /\ pc[a] = "abort" /\ SetMemory(heap, cache, w) /\ Goto(a, "idle")
        /\ copies' = copies /\ turns' = turns /\ torn' = torn
        /\ turn' = [turn EXCEPT ![a] = 0]
        /\ cut' = cut /\ connections' = connections /\ evictions' = evictions
        /\ restarts' = restarts /\ kept' = kept /\ wiped' = wiped
        /\ tail' = tail /\ interfered' = interfered
    BY <1>4 DEF Abort, bounds, updates, ghosts
  <2>2. /\ w \in [Actors -> Objects \union {None}] /\ w[a] = None
        /\ \A b \in Actors \ {a} : w[b] = wm[b]
    BY <1>1
  <2> HIDE DEF w
  <2>3. /\ pc' \in [Actors -> Stages] /\ pc'[a] = "idle"
        /\ \A b \in Actors \ {a} : pc'[b] = pc[b]
    BY <1>1, <2>1, GotoFacts DEF Stages
  <2>4. /\ turn' \in [Actors -> Nat] /\ \A b \in Actors \ {a} : turn'[b] = turn[b]
        /\ cut' \in BOOLEAN /\ connections' \in Sockets \union {None}
        /\ evictions' \in Nat /\ restarts' \in Nat
    BY <1>1, <2>1 DEF SessionTypes
  <2>5. \A b \in Actors : \/ w[b] = wm[b] /\ pc'[b] = pc[b] /\ turn'[b] = turn[b]
                          \/ w[b] = None /\ pc'[b] = "idle"
    BY <2>2, <2>3, <2>4
  <2>6. \A b \in Actors : pc[b] = "end" => pc'[b] = "end"
    BY <2>1, <2>3
  <2> QED
    BY <1>1, <2>1, <2>2, <2>3, <2>4, <2>5, <2>6, ForgetStep
<1> QED
  BY <1>2, <1>3, <1>4

\* Every step keeps the invariant.
LEMMA SessionInduction == SessionInv /\ [Next]_vars => SessionInv'
<1> SUFFICES ASSUME SessionInv, [Next]_vars PROVE SessionInv'
  OBVIOUS
<1>1. CASE UNCHANGED vars
  <2> USE <1>1 DEF vars, memory, bounds, updates, ghosts
  <2>1. SessionTypes' /\ StageInv' /\ SocketInv'
    BY DEF SessionInv, SessionTypes, StageInv, SocketInv, NoDeadConnection
  <2>2. MessageInv' /\ TailInv' /\ OrderInv'
    BY DEF SessionInv, MessageInv, TailInv, OrderInv, Said
  <2>3. ShareInv' /\ KeepInv' /\ CleanInv'
    BY DEF SessionInv, ShareInv, KeepInv, CleanInv
  <2> QED
    BY <2>1, <2>2, <2>3 DEF SessionInv
<1>2. CASE Next
  <2>1. SocketInv' /\ Sockets \subseteq Actors /\ Requests \subseteq Actors
    BY <1>2, SocketStep DEF SessionInv, Actors
  <2>2. CASE Evict \/ Restart
    BY <2>1, <2>2, ForgetActions
  <2>3. ASSUME NEW r \in Requests, HttpStart(r) \/ wipe_conversation_history(r)
        PROVE  SessionInv'
    BY <2>1, <2>3, LoadActions, WipeStep
  <2>4. ASSUME NEW s \in Sockets, WsConnect(s) \/ add_connection(s) \/ WsMessage(s)
                                  \/ WsLoadFails(s) \/ remove_connection(s) \/ Send(s)
        PROVE  SessionInv'
    <3>1. s \in Actors
      BY <2>1
    <3>2. CASE WsConnect(s) \/ WsMessage(s)
      BY <2>1, <3>1, <3>2, LoadActions
    <3>3. CASE add_connection(s) \/ WsLoadFails(s) \/ remove_connection(s) \/ Send(s)
      BY <2>1, <3>1, <3>3, SilentActions
    <3> QED
      BY <2>4, <3>2, <3>3
  <2>5. ASSUME NEW a \in Actors, TurnStep(a) \/ End(a) \/ Abort(a)
        PROVE  SessionInv'
    <3>1. CASE fast_reply(a) \/ RecallFails(a) \/ AgentFails(a) \/ Truncate(a) \/ DumpFails(a)
      BY <2>1, <3>1, SilentActions
    <3>2. CASE Human(a) \/ Answer(a)
      BY <2>1, <3>2, SayActions
    <3>3. CASE Save(a)
      BY <2>1, <3>3, SaveAction
    <3>4. CASE End(a)
      BY <2>1, <3>4, EndAction
    <3>5. CASE Abort(a)
      BY <2>1, <3>5, ForgetActions
    <3>6. CASE Slice(a) \/ Assign(a)
      BY <2>1, <3>6, SliceAction, AssignAction
    <3> QED
      BY <2>5, <3>1, <3>2, <3>3, <3>4, <3>5, <3>6 DEF TurnStep
  <2> QED
    BY <1>2, <2>2, <2>3, <2>4, <2>5 DEF Next
<1> QED
  BY <1>1, <1>2

\* The session invariant, for any sockets and requests, both caches, any history
\* length and any number of turns, evictions and restarts.
THEOREM SessionInvariant == Spec => []SessionInv
BY SessionInit, SessionInduction, PTL DEF Spec

-----------------------------------------------------------------------------

\* No message occurs twice in a working memory, no answer comes before its
\* question, and the answers of a history that was neither cut off nor deleted
\* during the turn have their questions as long as no update of a history was
\* interrupted by another change of it.
THEOREM HistoriesAreOrdered == Spec => []HistoryOrdered
<1>1. SessionInv => HistoryOrdered
  <2> SUFFICES ASSUME SessionInv, NEW o \in Objects
               PROVE  /\ \A i, j \in 1 .. Len(heap[o]) :
                             /\ heap[o][i] = heap[o][j] => i = j
                             /\ heap[o][i][1] = "AI" /\ heap[o][j] = <<"Human", heap[o][i][2]>> => j < i
                      /\ ~interfered => \A i \in 1 .. Len(heap[o]) :
                             (heap[o][i][1] = "AI" /\ heap[o][i][2] \notin torn /\ Len(heap[o]) < MaxHistory)
                                 => Holds(heap[o], <<"Human", heap[o][i][2]>>)
    BY DEF HistoryOrdered
  <2>1. Once(heap[o]) /\ Forward(heap[o]) /\ (~interfered => Ordered(heap[o], torn))
    BY DEF SessionInv, MessageInv, OrderInv, Sound
  <2> QED
    BY <2>1 DEF Once, Forward, Ordered
<1> QED
  BY <1>1, SessionInvariant, PTL

\* With one working memory in use and no update of it interrupted, the last turn
\* that was saved is in the cache.
THEOREM TheLastTurnIsKept == Spec => []LastTurnKept
<1>1. SessionInv => LastTurnKept
  BY DEF SessionInv, KeepInv, Known, LastTurnKept
<1> QED
  BY <1>1, SessionInvariant, PTL

\* With one working memory in use and no update of it interrupted, a deleted
\* conversation stays deleted.
THEOREM DeletedTurnsStayAway == Spec => []WipeSticks
<1>1. SessionInv => WipeSticks
  BY DEF SessionInv, CleanInv, Clean, WipeSticks, WipeHolds, Quiet
<1> QED
  BY <1>1, SessionInvariant, PTL

\* The table of websockets only has a socket that handle_messages still serves.
THEOREM TheTableIsLive == Spec => []NoDeadConnection
<1>1. SessionInv => NoDeadConnection
  BY DEF SessionInv, SocketInv
<1> QED
  BY <1>1, SessionInvariant, PTL

-----------------------------------------------------------------------------
(* THE SCHEDULER.  Any jobs, misfire grace and bound on instances.         *)

\* Ids that callers pass and ids that are generated.
JobIds ==
    ({"given"} \X GivenIds)
        \union ((Functions \union {"send_ws_message"}) \X {"at", "interval", "cron"}
                   \X ({Second(t) : t \in Nat} \union Periods \union {0}))

\* An instant or none.
Times == Nat \union {NoTime}

\* Records of the store.
Job == [id : JobIds, call : Nat, start : Nat, every : Nat, end : Nat, next : Times]

\* Records of the pool.
Submission == [id : JobIds, call : Nat, todo : SUBSET Nat, at : Times]

\* Records of the history of runs.
Outcome == [call : Nat, due : Nat, what : {"run", "missed", "skipped"}, when : Times]

\* Types.
RabbitTypes ==
    /\ clock \in 0 .. MaxTime /\ calls \in 0 .. MaxCalls
    /\ store \subseteq Job /\ pool \subseteq Submission /\ outcome \subseteq Outcome
    /\ asked \in [1 .. MaxCalls -> Times] /\ removed \subseteq 1 .. calls

\* The one run of a one-shot job.
Date(c) == asked[c] + UtcOffset

\* A job has an accepted call and fires on its grid; one-shot jobs fire at their date.
JobOK(j) ==
    /\ j.call \in 1 .. calls
    /\ j.next # NoTime => j.next <= j.end
    /\ j.every = 0 => j.start <= j.end /\ j.next \in {NoTime, j.start}
    /\ asked[j.call] # NoTime => j.every = 0 /\ j.start = Date(j.call)

\* A submission waits for due runs, or one of them is running.
SubmissionOK(e) ==
    /\ e.call \in 1 .. calls /\ e.todo \subseteq 0 .. clock
    /\ e.at = NoTime => e.todo # {}
    /\ asked[e.call] # NoTime => e.todo \subseteq {Date(e.call)}

\* Outcomes are of due runs; one-shot jobs ran within the grace of their date.
OutcomeOK(o) ==
    /\ o.call \in 1 .. calls /\ o.due \in 0 .. clock
    /\ o.what = "run" /\ asked[o.call] # NoTime =>
           Date(o.call) <= o.when /\ o.when <= Date(o.call) + Grace

\* All records.
RecordsInv ==
    /\ \A j \in store : JobOK(j)
    /\ \A e \in pool : SubmissionOK(e)
    /\ \A o \in outcome : OutcomeOK(o)

\* Ids and calls name one job, and not a removed one.
StoreInv ==
    /\ \A j, k \in store : j.id = k.id \/ j.call = k.call => j = k
    /\ \A j \in store : j.call \notin removed

\* The run of call c at t was handed to the pool, or skipped.
Given(c, t) ==
    \/ \E e \in pool : e.call = c /\ t \in e.todo
    \/ \E o \in outcome : o.call = c /\ o.due = t

\* A call whose job is gone had a run.
LostInv == \A c \in 1 .. calls : c \in removed \/ (\E j \in store : j.call = c) \/ \E t \in Nat : Given(c, t)

\* The runs to come are later than those there were; a one-shot job in the store
\* has had none.
LaterInv ==
    \A j \in store, t \in Nat :
        Given(j.call, t) => j.every # 0 /\ (j.next # NoTime => t < j.next)

\* No run is twice among those that wait and those that are over.
OnceInv ==
    /\ \A o, p \in outcome : o.call = p.call /\ o.due = p.due => o = p
    /\ \A e, f \in pool : e.call = f.call /\ e.todo \intersect f.todo # {} => e = f
    /\ \A e \in pool, o \in outcome : e.call = o.call => o.due \notin e.todo

\* The inductive invariant of WhiteRabbit.
RabbitInv == RabbitTypes /\ RecordsInv /\ StoreInv /\ LostInv /\ LaterInv /\ OnceInv

-----------------------------------------------------------------------------
(* Instants *)

\* Min returns it.
LEMMA MinFacts ==
    ASSUME NEW S \in SUBSET Nat, S # {}
    PROVE  Min(S) \in S /\ \A y \in S : Min(S) <= y
BY LeastNatural DEF Min

\* Max returns the greatest element of a bounded set.
LEMMA MaxFacts ==
    ASSUME NEW n \in Nat, NEW S \in SUBSET (0 .. n), S # {}
    PROVE  Max(S) \in S /\ \A y \in S : y <= Max(S)
<1> DEFINE T == {n - y : y \in S}
<1>1. T \in SUBSET Nat /\ T # {}
  <2>1. \A y \in S : n - y \in Nat
    OBVIOUS
  <2> QED
    BY <2>1
<1>2. PICK x \in T : \A y \in T : x <= y
  BY <1>1, LeastNatural
<1>3. PICK z \in S : x = n - z
  BY <1>2
<1>4. \A y \in S : y <= z
  <2> TAKE y \in S
  <2>1. n - y \in T
    OBVIOUS
  <2>2. n - z <= n - y
    BY <2>1, <1>2, <1>3
  <2> QED
    BY <2>2
<1> QED
  BY <1>3, <1>4 DEF Max

\* What the constants are assumed to be.
LEMMA RabbitConstants ==
    /\ Delays \subseteq Nat /\ Periods \subseteq Nat \ {0} /\ Ends \subseteq Nat
    /\ Never \in Nat /\ MaxTime \in Nat /\ UtcOffset \in Nat /\ Never > MaxTime + UtcOffset
    /\ MaxCalls \in Nat /\ Grace \in Nat /\ NoTime \in Int /\ NoTime \notin Nat /\ NoTime < 0
BY RabbitAssumption DEF Grace, NoTime

\* A date trigger gives its date, another one an instant that is still to come.
LEMMA FirstFireFacts ==
    ASSUME NEW j \in Job, NEW now \in Nat
    PROVE  /\ FirstFire(j, now) \in Times
           /\ j.every = 0 => FirstFire(j, now) = j.start
           /\ j.every # 0 /\ FirstFire(j, now) # NoTime =>
                  now < FirstFire(j, now) /\ FirstFire(j, now) <= j.end
<1> DEFINE grid == {t \in j.start .. j.end : t > now /\ (t - j.start) % j.every = 0}
<1>1. j.start \in Nat /\ j.end \in Nat
  BY DEF Job
<1>2. CASE j.every = 0
  BY <1>1, <1>2 DEF FirstFire, Times
<1>3. CASE j.every # 0 /\ grid = {}
  BY <1>3 DEF FirstFire, Times
<1>4. CASE j.every # 0 /\ grid # {}
  <2>1. \A t \in grid : t \in Nat /\ t > now /\ t <= j.end
    BY <1>1
  <2>2. FirstFire(j, now) = Min(grid)
    BY <1>4 DEF FirstFire
  <2> HIDE DEF grid
  <2>3. Min(grid) \in grid
    BY <1>4, <2>1, MinFacts
  <2> QED
    BY <1>4, <2>1, <2>2, <2>3 DEF Times
<1> QED
  BY <1>2, <1>3, <1>4

\* The runs that SubmitDue hands to the pool.
DueTimes(j) ==
    {t \in j.next .. Min({clock, j.end}) :
        t = j.next \/ (j.every # 0 /\ (t - j.next) % j.every = 0)}

\* The run times of a due job are over or now, and the next one is later.
LEMMA DueFacts ==
    ASSUME RabbitTypes, NEW j \in Job, j.next # NoTime, j.next <= clock, j.next <= j.end
    PROVE  LET due == DueTimes(j)
               next == FireAfter(j, Max(due))
           IN  /\ due \in SUBSET (0 .. clock) /\ j.next \in due /\ j.next \in Nat
               /\ \A t \in due : j.next <= t
               /\ j.every = 0 => due = {j.next} /\ next = NoTime
               /\ next \in Times
               /\ next # NoTime => next <= j.end /\ \A t \in due : t < next
<1> DEFINE due == DueTimes(j)
           m == Min({clock, j.end})
           next == FireAfter(j, Max(due))
<1>1. /\ j.next \in Nat /\ j.end \in Nat /\ j.every \in Nat /\ clock \in Nat
      /\ NoTime \notin Nat
  BY RabbitConstants DEF Job, Times, RabbitTypes
<1>2. m \in {clock, j.end} /\ m <= clock
  BY <1>1, MinFacts
<1>3. m \in Nat /\ j.next <= m
  BY <1>1, <1>2
<1> DEFINE Hit(t) == t = j.next \/ (j.every # 0 /\ (t - j.next) % j.every = 0)
<1>9. due = {t \in j.next .. m : Hit(t)}
  BY DEF DueTimes
<1>10. Hit(j.next) /\ (j.every = 0 => \A t : Hit(t) => t = j.next)
  OBVIOUS
<1> HIDE DEF m, Hit, due
<1>4. /\ due \in SUBSET (0 .. clock) /\ j.next \in due
      /\ \A t \in due : j.next <= t
      /\ j.every = 0 => due = {j.next}
  <2>1. \A t \in due : t \in 0 .. clock /\ j.next <= t
    BY <1>1, <1>2, <1>3, <1>9
  <2>2. j.next \in due
    BY <1>1, <1>3, <1>9, <1>10
  <2>3. j.every = 0 => due = {j.next}
    BY <2>2, <1>9, <1>10
  <2> QED
    BY <2>1, <2>2, <2>3
<1>5. Max(due) \in due /\ \A t \in due : t <= Max(due)
  BY <1>1, <1>4, MaxFacts
<1>6. Max(due) \in Nat
  <2>1. Max(due) \in 0 .. clock
    BY <1>4, <1>5
  <2> QED
    BY <2>1, <1>1
<1>7. /\ j.every = 0 => next = NoTime
      /\ next \in Times
      /\ next # NoTime => next <= j.end /\ next = Max(due) + j.every /\ j.every > 0
  BY <1>1, <1>6 DEF FireAfter, Times
<1>8. next # NoTime => \A t \in due : t < next
  BY <1>1, <1>4, <1>5, <1>6, <1>7
<1> QED
  BY <1>1, <1>4, <1>7, <1>8 DEF due

-----------------------------------------------------------------------------
(* The steps *)

\* A new job: its id is not in use and its call is the next one.
LEMMA AddStep ==
    ASSUME RabbitInv, NEW k \in Job, NEW want \in Times,
           calls < MaxCalls, k.id \notin Ids, k.call = calls + 1, calls' = calls + 1,
           k.next # NoTime => k.next <= k.end,
           k.every = 0 => k.start <= k.end /\ k.next \in {NoTime, k.start},
           want # NoTime => k.every = 0 /\ k.start = want + UtcOffset,
           store' = store \union {k}, asked' = [asked EXCEPT ![calls + 1] = want],
           clock' = clock /\ pool' = pool /\ removed' = removed /\ outcome' = outcome
    PROVE  RabbitInv'
<1>1. /\ RabbitTypes /\ calls \in Nat /\ MaxCalls \in Nat /\ calls + 1 \in 1 .. MaxCalls
      /\ asked \in [1 .. MaxCalls -> Times]
  BY RabbitConstants DEF RabbitInv, RabbitTypes
<1>2. /\ \A c \in 1 .. calls : asked'[c] = asked[c] /\ c \in 1 .. calls'
      /\ asked'[calls + 1] = want /\ calls + 1 \in 1 .. calls'
      /\ calls + 1 \notin 1 .. calls
  BY <1>1
<1>3. RabbitTypes'
  <2>1. asked' \in [1 .. MaxCalls -> Times]
    BY <1>1
  <2>2. removed' \subseteq 1 .. calls' /\ calls' \in 0 .. MaxCalls
    BY <1>1, <1>2 DEF RabbitTypes
  <2> QED
    BY <1>1, <2>1, <2>2 DEF RabbitTypes
<1>4. /\ \A j \in store : j.call \in 1 .. calls
      /\ \A e \in pool : e.call \in 1 .. calls
      /\ \A o \in outcome : o.call \in 1 .. calls
  BY DEF RabbitInv, RecordsInv, JobOK, SubmissionOK, OutcomeOK
<1>5. RecordsInv'
  <2>1. ASSUME NEW j \in store' PROVE JobOK(j)'
    <3>1. CASE j = k
      BY <3>1, <1>2 DEF JobOK, Date
    <3>2. CASE j \in store
      BY <3>2, <1>2, <1>4 DEF RabbitInv, RecordsInv, JobOK, Date
    <3> QED
      BY <3>1, <3>2
  <2>2. ASSUME NEW e \in pool PROVE SubmissionOK(e)'
    BY <2>2, <1>2, <1>4 DEF RabbitInv, RecordsInv, SubmissionOK, Date
  <2>3. ASSUME NEW o \in outcome PROVE OutcomeOK(o)'
    BY <2>3, <1>2, <1>4 DEF RabbitInv, RecordsInv, OutcomeOK, Date
  <2> QED
    BY <2>1, <2>2, <2>3 DEF RecordsInv
<1>6. StoreInv'
  <2>1. \A j \in store : j.id # k.id /\ j.call # k.call
    BY <1>2, <1>4 DEF Ids
  <2>2. k.call \notin removed
    BY <1>1, <1>2 DEF RabbitTypes
  <2> QED
    BY <2>1, <2>2 DEF RabbitInv, StoreInv
<1>7. \A c, t : Given(c, t)' <=> Given(c, t)
  BY DEF Given
<1>8. LostInv'
  <2> SUFFICES ASSUME NEW c \in 1 .. calls'
               PROVE  c \in removed \/ (\E j \in store' : j.call = c) \/ \E t \in Nat : Given(c, t)'
    BY DEF LostInv
  <2>1. CASE c = calls + 1
    BY <2>1
  <2>2. CASE c \in 1 .. calls
    BY <2>2, <1>7 DEF RabbitInv, LostInv
  <2> QED
    BY <2>1, <2>2, <1>1
<1>9. LaterInv'
  <2> SUFFICES ASSUME NEW j \in store', NEW t \in Nat, Given(j.call, t)'
               PROVE  j.every # 0 /\ (j.next # NoTime => t < j.next)
    BY DEF LaterInv
  <2>1. CASE j = k
    BY <2>1, <1>2, <1>4, <1>7 DEF Given
  <2>2. CASE j \in store
    BY <2>2, <1>7 DEF RabbitInv, LaterInv
  <2> QED
    BY <2>1, <2>2
<1>10. OnceInv'
  BY DEF RabbitInv, OnceInv
<1> QED
  BY <1>3, <1>5, <1>6, <1>8, <1>9, <1>10 DEF RabbitInv

\* A job of the store is given another next run time, or removed through the API.
LEMMA ManageStep ==
    ASSUME RabbitInv, NEW j \in store, NEW n \in Times,
           n # NoTime => n <= j.end /\ (j.every = 0 => n = j.start)
                         /\ \A t \in Nat : Given(j.call, t) => t < n,
           \/ store' = (store \ {j}) \union {[j EXCEPT !.next = n]} /\ removed' = removed
           \/ store' = store \ {j} /\ removed' = removed \union {j.call},
           clock' = clock /\ pool' = pool /\ calls' = calls /\ asked' = asked /\ outcome' = outcome
    PROVE  RabbitInv'
<1> DEFINE k == [j EXCEPT !.next = n]
<1>1. RabbitTypes /\ j \in Job /\ JobOK(j)
  BY DEF RabbitInv, RabbitTypes, RecordsInv
<1>2. /\ k \in Job /\ k.id = j.id /\ k.call = j.call /\ k.start = j.start /\ k.every = j.every
      /\ k.end = j.end /\ k.next = n
  BY <1>1 DEF Job
<1> HIDE DEF k
<1>3. \/ store' = (store \ {j}) \union {k} /\ removed' = removed
      \/ store' = store \ {j} /\ removed' = removed \union {j.call}
  BY DEF k
<1>4. RabbitTypes'
  <2>1. removed' \subseteq 1 .. calls' /\ store' \subseteq Job
    BY <1>1, <1>2, <1>3 DEF RabbitTypes, JobOK
  <2> QED
    BY <1>1, <2>1 DEF RabbitTypes
<1>5. RecordsInv'
  <2>1. JobOK(k)
    BY <1>1, <1>2 DEF JobOK
  <2>2. \A i \in store' : JobOK(i)
    BY <1>3, <2>1 DEF RabbitInv, RecordsInv
  <2> QED
    BY <2>2 DEF RabbitInv, RecordsInv, JobOK, SubmissionOK, OutcomeOK, Date
<1>6. StoreInv'
  <2>1. \A i \in store \ {j} : i.id # j.id /\ i.call # j.call
    BY DEF RabbitInv, StoreInv
  <2>2. \A i \in store : i.call \notin removed
    BY DEF RabbitInv, StoreInv
  <2>3. \A h, i \in store \ {j} : h.id = i.id \/ h.call = i.call => h = i
    BY DEF RabbitInv, StoreInv
  <2>4. \A h, i \in store' : h.id = i.id \/ h.call = i.call => h = i
    BY <1>2, <1>3, <2>1, <2>3
  <2>5. \A i \in store' : i.call \notin removed'
    BY <1>2, <1>3, <2>1, <2>2
  <2> QED
    BY <2>4, <2>5 DEF StoreInv
<1>7. \A c, t : Given(c, t)' <=> Given(c, t)
  BY DEF Given
<1>8. LostInv'
  <2> SUFFICES ASSUME NEW c \in 1 .. calls
               PROVE  c \in removed' \/ (\E i \in store' : i.call = c) \/ \E t \in Nat : Given(c, t)'
    BY DEF LostInv
  <2>1. CASE c = j.call
    BY <2>1, <1>2, <1>3
  <2>2. CASE c # j.call
    BY <2>2, <1>3, <1>7 DEF RabbitInv, LostInv
  <2> QED
    BY <2>1, <2>2
<1>9. LaterInv'
  <2> SUFFICES ASSUME NEW i \in store', NEW t \in Nat, Given(i.call, t)'
               PROVE  i.every # 0 /\ (i.next # NoTime => t < i.next)
    BY DEF LaterInv
  <2>1. CASE i = k
    <3>1. Given(j.call, t)
      BY <2>1, <1>2, <1>7
    <3>2. j.every # 0
      BY <3>1 DEF RabbitInv, LaterInv
    <3> QED
      BY <2>1, <3>1, <3>2, <1>2
  <2>2. CASE i \in store
    BY <2>2, <1>7 DEF RabbitInv, LaterInv
  <2> QED
    BY <2>1, <2>2, <1>3
<1>10. OnceInv'
  BY DEF RabbitInv, OnceInv
<1> QED
  BY <1>4, <1>5, <1>6, <1>8, <1>9, <1>10 DEF RabbitInv

\* The scheduler hands the due runs of a job to the pool, or skips them.
LEMMA SubmitStep ==
    ASSUME RabbitInv, NEW j \in store, SubmitDue(j)
    PROVE  RabbitInv'
<1> DEFINE due == DueTimes(j)
           next == FireAfter(j, Max(due))
           k == [j EXCEPT !.next = next]
           e == [id |-> j.id, call |-> j.call, todo |-> due, at |-> NoTime]
           skipped == {[call |-> j.call, due |-> t, what |-> "skipped", when |-> NoTime] : t \in due}
<1>1. /\ RabbitTypes /\ j \in Job /\ JobOK(j) /\ j.next # NoTime /\ j.next <= clock
      /\ clock \in Nat /\ NoTime \notin Nat /\ NoTime \in Times
  BY RabbitConstants DEF RabbitInv, RabbitTypes, RecordsInv, SubmitDue, Times
<1>2. /\ \/ pool' = pool \union {e} /\ outcome' = outcome
         \/ pool' = pool /\ outcome' = outcome \union skipped
      /\ store' = (store \ {j}) \union (IF next = NoTime THEN {} ELSE {k})
      /\ clock' = clock /\ calls' = calls /\ asked' = asked /\ removed' = removed
  BY DEF SubmitDue, DueTimes
<1>3. /\ due \in SUBSET (0 .. clock) /\ j.next \in due /\ j.next \in Nat
      /\ \A t \in due : j.next <= t
      /\ j.every = 0 => due = {j.next} /\ next = NoTime
      /\ next \in Times
      /\ next # NoTime => next <= j.end /\ \A t \in due : t < next
  BY <1>1, DueFacts DEF JobOK
<1>4. \A t \in due : t \in Nat /\ t \in 0 .. clock
  BY <1>1, <1>3
<1> HIDE DEF due, next
<1>5. /\ k \in Job /\ k.id = j.id /\ k.call = j.call /\ k.start = j.start /\ k.every = j.every
      /\ k.end = j.end /\ k.next = next
  BY <1>1, <1>3 DEF Job
<1>6. /\ e \in Submission /\ e.call = j.call /\ e.todo = due /\ e.at = NoTime
  BY <1>1, <1>4 DEF Job, Submission
<1>7. \A o \in skipped : o.call = j.call /\ o.due \in due /\ o.what = "skipped"
                         /\ o = [call |-> j.call, due |-> o.due, what |-> "skipped", when |-> NoTime]
  OBVIOUS
<1>8. skipped \subseteq Outcome
  BY <1>1, <1>4 DEF Job, Outcome
<1>9. \A t \in due : \E o \in skipped : o.call = j.call /\ o.due = t
  <2> SUFFICES ASSUME NEW t \in due PROVE \E o \in skipped : o.call = j.call /\ o.due = t
    OBVIOUS
  <2> DEFINE o == [call |-> j.call, due |-> t, what |-> "skipped", when |-> NoTime]
  <2>1. o \in skipped /\ o.call = j.call /\ o.due = t
    OBVIOUS
  <2> QED
    BY <2>1
<1> HIDE DEF k, e, skipped
<1>10. RabbitTypes'
  BY <1>1, <1>2, <1>5, <1>6, <1>8 DEF RabbitTypes
<1>11. \A c, t : Given(c, t)' <=> Given(c, t) \/ (c = j.call /\ t \in due)
  BY <1>2, <1>6, <1>7, <1>9 DEF Given
<1>12. \A t \in due : ~Given(j.call, t)
  <2> SUFFICES ASSUME NEW t \in due, Given(j.call, t) PROVE FALSE
    OBVIOUS
  <2>1. t < j.next
    BY <1>1, <1>4 DEF RabbitInv, LaterInv
  <2> QED
    BY <2>1, <1>3, <1>4
<1>13. RecordsInv'
  <2>1. ASSUME NEW i \in store' PROVE JobOK(i)'
    <3>1. CASE i = k /\ next # NoTime
      BY <3>1, <1>1, <1>2, <1>3, <1>5 DEF JobOK, Date
    <3>2. CASE i \in store
      BY <3>2, <1>2 DEF RabbitInv, RecordsInv, JobOK, Date
    <3> QED
      BY <1>2, <3>1, <3>2
  <2>2. ASSUME NEW f \in pool' PROVE SubmissionOK(f)'
    <3>1. CASE f = e
      <4>1. asked[j.call] # NoTime => due = {Date(j.call)}
        BY <1>1, <1>3 DEF JobOK
      <4> QED
        BY <3>1, <4>1, <1>1, <1>2, <1>3, <1>6 DEF SubmissionOK, JobOK, Date
    <3>2. CASE f \in pool
      BY <3>2, <1>2 DEF RabbitInv, RecordsInv, SubmissionOK, Date
    <3> QED
      BY <1>2, <3>1, <3>2
  <2>3. ASSUME NEW o \in outcome' PROVE OutcomeOK(o)'
    <3>1. CASE o \in skipped
      BY <3>1, <1>1, <1>2, <1>4, <1>7 DEF OutcomeOK, JobOK
    <3>2. CASE o \in outcome
      BY <3>2, <1>2 DEF RabbitInv, RecordsInv, OutcomeOK, Date
    <3> QED
      BY <1>2, <3>1, <3>2
  <2> QED
    BY <2>1, <2>2, <2>3 DEF RecordsInv
<1>14. \A i \in store \ {j} : i.id # j.id /\ i.call # j.call
  BY DEF RabbitInv, StoreInv
<1>15. StoreInv'
  <2>1. \A h, i \in store : h.id = i.id \/ h.call = i.call => h = i
    BY DEF RabbitInv, StoreInv
  <2>2. \A i \in store : i.call \notin removed
    BY DEF RabbitInv, StoreInv
  <2>3. store' \subseteq (store \ {j}) \union {k}
    BY <1>2
  <2>4. \A h, i \in store' : h.id = i.id \/ h.call = i.call => h = i
    BY <1>5, <1>14, <2>1, <2>3
  <2>5. \A i \in store' : i.call \notin removed
    BY <1>5, <2>2, <2>3
  <2> QED
    BY <1>2, <2>4, <2>5 DEF StoreInv
<1>16. LostInv'
  <2> SUFFICES ASSUME NEW c \in 1 .. calls
               PROVE  c \in removed \/ (\E i \in store' : i.call = c) \/ \E t \in Nat : Given(c, t)'
    BY <1>2 DEF LostInv
  <2>1. CASE c = j.call
    BY <2>1, <1>3, <1>11
  <2>2. CASE c # j.call
    BY <2>2, <1>2, <1>11 DEF RabbitInv, LostInv
  <2> QED
    BY <2>1, <2>2
<1>17. LaterInv'
  <2> SUFFICES ASSUME NEW i \in store', NEW t \in Nat, Given(i.call, t)'
               PROVE  i.every # 0 /\ (i.next # NoTime => t < i.next)
    BY DEF LaterInv
  <2>1. CASE i = k /\ next # NoTime
    <3>1. j.every # 0 /\ next \in Nat /\ j.next < next
      BY <2>1, <1>3, <1>4 DEF Times
    <3>2. CASE t \in due
      BY <2>1, <3>1, <3>2, <1>3, <1>5
    <3>3. CASE Given(j.call, t)
      <4>1. t < j.next
        BY <3>3, <1>1 DEF RabbitInv, LaterInv
      <4> QED
        BY <2>1, <3>1, <4>1, <1>3, <1>5
    <3> QED
      BY <2>1, <3>2, <3>3, <1>5, <1>11
  <2>2. CASE i \in store \ {j}
    BY <2>2, <1>11, <1>14 DEF RabbitInv, LaterInv
  <2> QED
    BY <1>2, <2>1, <2>2
<1>18. OnceInv'
  <2>1. ASSUME NEW o \in outcome', NEW p \in outcome', o.call = p.call, o.due = p.due
        PROVE  o = p
    <3>1. CASE o \in outcome /\ p \in outcome
      BY <2>1, <3>1 DEF RabbitInv, OnceInv
    <3>2. CASE o \in skipped /\ p \in skipped
      BY <2>1, <3>2, <1>7
    <3>3. CASE (o \in skipped /\ p \in outcome) \/ (p \in skipped /\ o \in outcome)
      BY <2>1, <3>3, <1>7, <1>12 DEF Given
    <3> QED
      BY <1>2, <3>1, <3>2, <3>3
  <2>2. ASSUME NEW f \in pool', NEW g \in pool', f.call = g.call, f.todo \intersect g.todo # {}
        PROVE  f = g
    <3>1. CASE f \in pool /\ g \in pool
      BY <2>2, <3>1 DEF RabbitInv, OnceInv
    <3>2. CASE (f = e /\ g \in pool) \/ (g = e /\ f \in pool)
      BY <2>2, <3>2, <1>6, <1>12 DEF Given
    <3> QED
      BY <1>2, <3>1, <3>2
  <2>3. ASSUME NEW f \in pool', NEW o \in outcome', f.call = o.call, o.due \in f.todo
        PROVE  FALSE
    <3>1. CASE f \in pool /\ o \in outcome
      BY <2>3, <3>1 DEF RabbitInv, OnceInv
    <3>2. CASE f = e /\ o \in outcome
      BY <2>3, <3>2, <1>6, <1>12 DEF Given
    <3>3. CASE f \in pool /\ o \in skipped
      BY <2>3, <3>3, <1>7, <1>12 DEF Given
    <3> QED
      BY <1>2, <3>1, <3>2, <3>3
  <2> QED
    BY <2>1, <2>2, <2>3 DEF OnceInv
<1> QED
  BY <1>10, <1>13, <1>15, <1>16, <1>17, <1>18 DEF RabbitInv

\* A submission of the pool loses at most one run, which then has its outcome.
LEMMA PoolStep ==
    ASSUME RabbitInv, NEW e \in pool, NEW f \in Submission, NEW X \in SUBSET Outcome,
           f.call = e.call, f.todo \subseteq e.todo,
           pool' = (pool \ {e}) \union (IF f.at = NoTime /\ f.todo = {} THEN {} ELSE {f}),
           outcome' = outcome \union X,
           \A o \in X : o.call = e.call /\ o.due \in e.todo /\ o.due \notin f.todo /\ OutcomeOK(o),
           \A o, p \in X : o = p,
           \A t \in e.todo \ f.todo : \E o \in X : o.due = t,
           clock' = clock /\ store' = store /\ calls' = calls /\ asked' = asked /\ removed' = removed
    PROVE  RabbitInv'
<1>1. RabbitTypes /\ SubmissionOK(e) /\ pool' \subseteq (pool \ {e}) \union {f} /\ e \in Submission
  BY DEF RabbitInv, RecordsInv, RabbitTypes
<1>2. RabbitTypes'
  BY <1>1 DEF RabbitTypes
<1>3. RecordsInv'
  <2>1. ASSUME NEW g \in pool' PROVE SubmissionOK(g)
    <3>1. CASE g = f /\ ~(f.at = NoTime /\ f.todo = {})
      BY <3>1, <1>1 DEF SubmissionOK
    <3>2. CASE g \in pool
      BY <3>2 DEF RabbitInv, RecordsInv
    <3> QED
      BY <3>1, <3>2
  <2>2. \A o \in outcome' : OutcomeOK(o)
    BY DEF RabbitInv, RecordsInv
  <2> QED
    BY <2>1, <2>2 DEF RabbitInv, RecordsInv, JobOK, SubmissionOK, OutcomeOK, Date
<1>4. StoreInv'
  BY DEF RabbitInv, StoreInv
<1>5. ASSUME NEW c, NEW t PROVE Given(c, t)' <=> Given(c, t)
  <2>1. ASSUME Given(c, t)' PROVE Given(c, t)
    <3>1. CASE \E g \in pool' : g.call = c /\ t \in g.todo
      BY <3>1, <1>1 DEF Given
    <3>2. CASE \E o \in outcome' : o.call = c /\ o.due = t
      BY <3>2 DEF Given
    <3> QED
      BY <2>1, <3>1, <3>2 DEF Given
  <2>2. ASSUME Given(c, t) PROVE Given(c, t)'
    <3>1. CASE \E g \in pool : g.call = c /\ t \in g.todo
      <4>1. PICK g \in pool : g.call = c /\ t \in g.todo
        BY <3>1
      <4>2. CASE g # e
        BY <4>1, <4>2 DEF Given
      <4>3. CASE g = e /\ t \in f.todo
        BY <4>1, <4>3 DEF Given
      <4>4. CASE g = e /\ t \notin f.todo
        BY <4>1, <4>4 DEF Given
      <4> QED
        BY <4>2, <4>3, <4>4
    <3>2. CASE \E o \in outcome : o.call = c /\ o.due = t
      BY <3>2 DEF Given
    <3> QED
      BY <2>2, <3>1, <3>2 DEF Given
  <2> QED
    BY <2>1, <2>2
<1>6. LostInv'
  BY <1>5 DEF RabbitInv, LostInv
<1>7. LaterInv'
  BY <1>5 DEF RabbitInv, LaterInv
<1>8. OnceInv'
  <2>1. ASSUME NEW o \in outcome', NEW p \in outcome', o.call = p.call, o.due = p.due
        PROVE  o = p
    <3>1. CASE o \in outcome /\ p \in outcome
      BY <2>1, <3>1 DEF RabbitInv, OnceInv
    <3>2. CASE o \in X /\ p \in X
      BY <3>2
    <3>3. CASE (o \in X /\ p \in outcome) \/ (p \in X /\ o \in outcome)
      BY <2>1, <3>3 DEF RabbitInv, OnceInv
    <3> QED
      BY <3>1, <3>2, <3>3
  <2>2. ASSUME NEW g \in pool', NEW h \in pool', g.call = h.call, g.todo \intersect h.todo # {}
        PROVE  g = h
    <3>1. CASE g \in pool \ {e} /\ h \in pool \ {e}
      BY <2>2, <3>1 DEF RabbitInv, OnceInv
    <3>2. CASE (g = f /\ h \in pool \ {e}) \/ (h = f /\ g \in pool \ {e})
      BY <2>2, <3>2 DEF RabbitInv, OnceInv
    <3> QED
      BY <1>1, <3>1, <3>2
  <2>3. ASSUME NEW g \in pool', NEW o \in outcome', g.call = o.call, o.due \in g.todo
        PROVE  FALSE
    <3>1. CASE g \in pool \ {e} /\ o \in outcome
      BY <2>3, <3>1 DEF RabbitInv, OnceInv
    <3>2. CASE g = f /\ o \in outcome
      BY <2>3, <3>2 DEF RabbitInv, OnceInv
    <3>3. CASE g \in pool \ {e} /\ o \in X
      BY <2>3, <3>3 DEF RabbitInv, OnceInv
    <3>4. CASE g = f /\ o \in X
      BY <2>3, <3>4
    <3> QED
      BY <1>1, <3>1, <3>2, <3>3, <3>4
  <2> QED
    BY <2>1, <2>2, <2>3 DEF OnceInv
<1> QED
  BY <1>2, <1>3, <1>4, <1>6, <1>7, <1>8 DEF RabbitInv

-----------------------------------------------------------------------------
(* The actions *)

\* AddJob with a record that keeps the rules.
LEMMA AddJobAction ==
    ASSUME RabbitInv, NEW id \in JobIds, NEW start \in Nat, NEW every \in Nat, NEW end \in Nat,
           NEW want \in Times,
           every = 0 => start <= end,
           want # NoTime => every = 0 /\ start = want + UtcOffset,
           AddJob(id, start, every, end, want)
    PROVE  RabbitInv'
<1> DEFINE j == [id |-> id, call |-> calls + 1, start |-> start, every |-> every,
                 end |-> end, next |-> NoTime]
           k == [j EXCEPT !.next = FirstFire(j, clock)]
<1>1. CASE UNCHANGED rabbitVars
  BY <1>1 DEF rabbitVars, RabbitInv, RabbitTypes, RecordsInv, StoreInv, LostInv, LaterInv, OnceInv,
              JobOK, SubmissionOK, OutcomeOK, Date, Given
<1>2. CASE id \notin Ids
  <2>1. /\ calls < MaxCalls /\ store' = store \union {k} /\ calls' = calls + 1
        /\ asked' = [asked EXCEPT ![calls + 1] = want]
        /\ clock' = clock /\ pool' = pool /\ removed' = removed /\ outcome' = outcome
    BY <1>2 DEF AddJob
  <2>2. clock \in Nat /\ calls + 1 \in Nat /\ NoTime \in Times
    BY RabbitConstants DEF RabbitInv, RabbitTypes, Times
  <2>3. j \in Job
    BY <2>2 DEF Job
  <2>4. /\ j.id = id /\ j.call = calls + 1 /\ j.start = start /\ j.every = every /\ j.end = end
    OBVIOUS
  <2>5. k = [j EXCEPT !.next = FirstFire(j, clock)]
    OBVIOUS
  <2> HIDE DEF j, k
  <2>6. /\ FirstFire(j, clock) \in Times
        /\ every = 0 => FirstFire(j, clock) = start
        /\ every # 0 /\ FirstFire(j, clock) # NoTime => FirstFire(j, clock) <= end
    BY <2>2, <2>3, <2>4, FirstFireFacts
  <2>7. /\ k \in Job /\ k.id = id /\ k.call = calls + 1 /\ k.start = start /\ k.every = every
        /\ k.end = end /\ k.next = FirstFire(j, clock)
    BY <2>3, <2>4, <2>5, <2>6 DEF Job
  <2> QED
    BY <1>2, <2>1, <2>6, <2>7, AddStep
<1> QED
  BY <1>1, <1>2 DEF AddJob

\* The schedule methods add one job, or fail on a taken id.
LEMMA ScheduleAction == RabbitInv /\ ScheduleCall => RabbitInv'
<1> SUFFICES ASSUME RabbitInv, ScheduleCall PROVE RabbitInv'
  OBVIOUS
<1>1. /\ clock \in Nat /\ clock <= MaxTime /\ NoTime \in Times
      /\ Delays \subseteq Nat /\ Periods \subseteq Nat \ {0} /\ Ends \subseteq Nat
      /\ Never \in Nat /\ MaxTime \in Nat /\ UtcOffset \in Nat /\ Never > MaxTime + UtcOffset
  BY RabbitConstants DEF RabbitInv, RabbitTypes, Times
<1>2. ASSUME NEW delay \in Delays, clock + delay <= MaxTime
      PROVE  /\ Schedule(delay) \in Nat /\ Schedule(delay) <= Never
             /\ clock + delay \in Times /\ Schedule(delay) = clock + delay + UtcOffset
  BY <1>1, <1>2 DEF Schedule, Times
<1>3. ASSUME NEW given \in GivenIds \union {NoId}, NEW g \in JobIds
      PROVE  JobId(given, g) \in JobIds
  BY DEF JobId, JobIds
<1>4. ASSUME NEW delay \in Delays, schedule_chat_message(delay) PROVE RabbitInv'
  <2> DEFINE id == <<"send_ws_message", "at", Second(Schedule(delay))>>
  <2>1. clock + delay <= MaxTime /\ AddJob(id, Schedule(delay), 0, Never, clock + delay)
    BY <1>4 DEF schedule_chat_message
  <2>2. Schedule(delay) \in Nat
    BY <2>1, <1>2
  <2>3. id \in JobIds
    BY <2>2 DEF JobIds
  <2> HIDE DEF id
  <2> QED
    BY <2>1, <2>3, <1>1, <1>2, AddJobAction
<1>5. ASSUME NEW f \in Functions, NEW given \in GivenIds \union {NoId}, NEW delay \in Delays,
             schedule_job(f, given, delay)
      PROVE  RabbitInv'
  <2> DEFINE g == <<f, "at", Second(Schedule(delay))>>
             id == JobId(given, g)
  <2>1. clock + delay <= MaxTime /\ AddJob(id, Schedule(delay), 0, Never, clock + delay)
    BY <1>5 DEF schedule_job
  <2>2. Schedule(delay) \in Nat
    BY <2>1, <1>2
  <2>3. g \in JobIds
    BY <2>2 DEF JobIds
  <2> HIDE DEF g
  <2>4. id \in JobIds
    BY <2>3, <1>3
  <2> HIDE DEF id
  <2> QED
    BY <2>1, <2>4, <1>1, <1>2, AddJobAction
<1>6. ASSUME NEW f \in Functions, NEW given \in GivenIds \union {NoId},
             NEW every \in Periods, NEW end \in Ends,
             schedule_interval_job(f, given, every, end) \/ schedule_cron_job(f, given, every, end)
      PROVE  RabbitInv'
  <2>1. every \in Nat /\ every # 0 /\ end \in Nat /\ clock + every \in Nat
    BY <1>1
  <2>2. <<f, "interval", every>> \in JobIds /\ <<f, "cron", 0>> \in JobIds
    BY DEF JobIds
  <2>3. CASE schedule_interval_job(f, given, every, end)
    <3> DEFINE id == JobId(given, <<f, "interval", every>>)
    <3>1. id \in JobIds /\ AddJob(id, clock + every, every, end, NoTime)
      BY <2>2, <2>3, <1>3 DEF schedule_interval_job
    <3> HIDE DEF id
    <3> QED
      BY <3>1, <2>1, <1>1, AddJobAction
  <2>4. CASE schedule_cron_job(f, given, every, end)
    <3> DEFINE id == JobId(given, <<f, "cron", 0>>)
    <3>1. id \in JobIds /\ AddJob(id, 0, every, end, NoTime)
      BY <2>2, <2>4, <1>3 DEF schedule_cron_job
    <3> HIDE DEF id
    <3> QED
      BY <3>1, <2>1, <1>1, AddJobAction
  <2> QED
    BY <1>6, <2>3, <2>4
<1> QED
  BY <1>4, <1>5, <1>6 DEF ScheduleCall

\* A run that was handed over was due.
LEMMA GivenIsPast ==
    ASSUME RabbitInv, NEW c, NEW t, Given(c, t)
    PROVE  t \in 0 .. clock
BY DEF RabbitInv, RecordsInv, SubmissionOK, OutcomeOK, Given

\* An id of the store names a job.
LEMMA JobOfId ==
    ASSUME NEW id \in Ids
    PROVE  JobOf(id) \in store /\ JobOf(id).id = id
BY DEF Ids, JobOf

\* pause_job, resume_job and remove_job.
LEMMA ManageAction ==
    ASSUME RabbitInv, NEW id \in Ids, pause_job(id) \/ resume_job(id) \/ remove_job(id)
    PROVE  RabbitInv'
<1> DEFINE j == JobOf(id)
           n == FirstFire(j, clock)
<1>1. j \in store
  BY JobOfId
<1>2. j \in Job /\ clock \in Nat /\ NoTime \in Times
  BY <1>1, RabbitConstants DEF RabbitInv, RabbitTypes, Times
<1> HIDE DEF j
<1>3. CASE pause_job(id)
  <2>1. /\ store' = (store \ {j}) \union {[j EXCEPT !.next = NoTime]} /\ removed' = removed
        /\ clock' = clock /\ pool' = pool /\ calls' = calls /\ asked' = asked /\ outcome' = outcome
    BY <1>3 DEF pause_job, j
  <2> QED
    BY <2>1, <1>1, <1>2, ManageStep
<1>4. CASE remove_job(id)
  <2>1. /\ store' = store \ {j} /\ removed' = removed \union {j.call}
        /\ clock' = clock /\ pool' = pool /\ calls' = calls /\ asked' = asked /\ outcome' = outcome
    BY <1>4 DEF remove_job, j
  <2> QED
    BY <2>1, <1>1, <1>2, ManageStep
<1>5. CASE resume_job(id)
  <2>1. /\ \/ /\ store' = (store \ {j}) \union {[j EXCEPT !.next = n]} /\ removed' = removed
              /\ n # NoTime
           \/ store' = store \ {j} /\ removed' = removed \union {j.call}
        /\ clock' = clock /\ pool' = pool /\ calls' = calls /\ asked' = asked /\ outcome' = outcome
    BY <1>5 DEF resume_job, j
  <2>2. /\ n \in Times
        /\ j.every = 0 => n = j.start
        /\ j.every # 0 /\ n # NoTime => clock < n /\ n <= j.end
    BY <1>2, FirstFireFacts
  <2>3. j.every = 0 => j.start <= j.end
    BY <1>1 DEF RabbitInv, RecordsInv, JobOK
  <2> HIDE DEF n
  <2>4. ASSUME n # NoTime, NEW t \in Nat, Given(j.call, t) PROVE t < n
    <3>1. t <= clock /\ j.every # 0
      BY <2>4, <1>1, <1>2, GivenIsPast DEF RabbitInv, LaterInv
    <3>2. n \in Nat
      BY <2>2, <2>4 DEF Times
    <3> QED
      BY <2>2, <2>4, <3>1, <3>2, <1>2
  <2> QED
    BY <2>1, <2>2, <2>3, <2>4, <1>1, ManageStep
<1> QED
  BY <1>3, <1>4, <1>5

\* A pool thread starts a run, or misses it.
LEMMA StartRunAction ==
    ASSUME RabbitInv, NEW e \in pool, StartRun(e)
    PROVE  RabbitInv'
<1> DEFINE t == Min(e.todo)
<1>1. /\ RabbitTypes /\ e \in Submission /\ SubmissionOK(e) /\ e.at = NoTime
      /\ clock \in Nat /\ NoTime \notin Nat /\ NoTime \in Times /\ Grace \in Nat /\ UtcOffset \in Nat
  BY RabbitConstants DEF RabbitInv, RabbitTypes, RecordsInv, StartRun, Times
<1>2. e.todo \in SUBSET Nat /\ e.todo # {}
  BY <1>1 DEF SubmissionOK, Submission
<1>3. t \in e.todo /\ t \in Nat /\ t <= clock
  <2>1. t \in e.todo
    BY <1>2, MinFacts
  <2>2. t \in 0 .. clock
    BY <2>1, <1>1 DEF SubmissionOK
  <2> QED
    BY <2>1, <2>2, <1>1
<1> HIDE DEF t
<1>4. PICK what \in {"run", "missed"} :
          /\ clock - t > Grace => what = "missed"
          /\ pool' = (pool \ {e}) \union _job_ended_listener(
                [e EXCEPT !.todo = @ \ {t}, !.at = IF what = "run" THEN t ELSE NoTime])
          /\ outcome' = outcome \union
                {[call |-> e.call, due |-> t, what |-> what,
                  when |-> IF what = "run" /\ asked[e.call] # NoTime THEN clock ELSE NoTime]}
  BY DEF StartRun, t
<1> DEFINE f == [e EXCEPT !.todo = @ \ {t}, !.at = IF what = "run" THEN t ELSE NoTime]
           o == [call |-> e.call, due |-> t, what |-> what,
                 when |-> IF what = "run" /\ asked[e.call] # NoTime THEN clock ELSE NoTime]
<1>5. /\ clock' = clock /\ store' = store /\ calls' = calls /\ asked' = asked
      /\ removed' = removed
  BY DEF StartRun
<1>6. f \in Submission /\ f.call = e.call /\ f.todo = e.todo \ {t}
  BY <1>1, <1>2, <1>3 DEF Submission, Times
<1>7. pool' = (pool \ {e}) \union (IF f.at = NoTime /\ f.todo = {} THEN {} ELSE {f})
  BY <1>4 DEF _job_ended_listener
<1>8. /\ o \in Outcome /\ o.call = e.call /\ o.due = t /\ o.what = what
      /\ what = "run" /\ asked[e.call] # NoTime => o.when = clock
      /\ outcome' = outcome \union {o}
  BY <1>1, <1>3, <1>4 DEF Outcome, Submission, Times
<1> HIDE DEF f, o
<1>9. OutcomeOK(o)
  <2>1. o.call \in 1 .. calls /\ o.due \in 0 .. clock
    BY <1>1, <1>3, <1>8 DEF SubmissionOK
  <2>2. ASSUME o.what = "run", asked[o.call] # NoTime
        PROVE  Date(o.call) <= o.when /\ o.when <= Date(o.call) + Grace
    <3>1. t = Date(e.call) /\ o.when = clock
      BY <2>2, <1>1, <1>3, <1>8 DEF SubmissionOK
    <3>2. ~(clock - t > Grace)
      BY <2>2, <1>4, <1>8
    <3> QED
      BY <3>1, <3>2, <1>1, <1>3, <1>8
  <2> QED
    BY <2>1, <2>2 DEF OutcomeOK
<1> DEFINE X == {o}
<1>10. /\ X \in SUBSET Outcome /\ outcome' = outcome \union X
       /\ \A p \in X : p.call = e.call /\ p.due \in e.todo /\ p.due \notin f.todo /\ OutcomeOK(p)
       /\ \A p, q \in X : p = q
       /\ \A u \in e.todo \ f.todo : \E p \in X : p.due = u
  BY <1>3, <1>6, <1>8, <1>9
<1>11. f \in Submission /\ f.call = e.call /\ f.todo \subseteq e.todo
  BY <1>6
<1> HIDE DEF X
<1> QED
  BY <1>5, <1>7, <1>10, <1>11, PoolStep

\* A run ends.
LEMMA EndRunAction ==
    ASSUME RabbitInv, NEW e \in pool, EndRun(e)
    PROVE  RabbitInv'
<1> DEFINE f == [e EXCEPT !.at = NoTime]
<1>1. e \in Submission /\ NoTime \in Times
  BY RabbitConstants DEF RabbitInv, RabbitTypes, Times
<1>2. f \in Submission /\ f.call = e.call /\ f.todo = e.todo
  BY <1>1 DEF Submission
<1>3. /\ pool' = (pool \ {e}) \union (IF f.at = NoTime /\ f.todo = {} THEN {} ELSE {f})
      /\ clock' = clock /\ store' = store /\ calls' = calls /\ asked' = asked
      /\ removed' = removed /\ outcome' = outcome \union {}
  BY DEF EndRun, _job_ended_listener, history
<1> HIDE DEF f
<1> DEFINE X == {}
<1>4. /\ X \in SUBSET Outcome /\ outcome' = outcome \union X
      /\ \A o \in X : o.call = e.call /\ o.due \in e.todo /\ o.due \notin f.todo /\ OutcomeOK(o)
      /\ \A o, p \in X : o = p
      /\ \A t \in e.todo \ f.todo : \E o \in X : o.due = t
  BY <1>2, <1>3
<1> HIDE DEF X
<1> QED
  BY <1>2, <1>3, <1>4, PoolStep

\* Time passes.
LEMMA TickAction == RabbitInv /\ Tick => RabbitInv'
<1> SUFFICES ASSUME RabbitInv, Tick PROVE RabbitInv'
  OBVIOUS
<1>1. /\ clock' = clock + 1 /\ clock < MaxTime /\ clock \in Nat /\ MaxTime \in Nat
      /\ store' = store /\ pool' = pool /\ calls' = calls
      /\ asked' = asked /\ removed' = removed /\ outcome' = outcome
  BY RabbitConstants DEF Tick, history, RabbitInv, RabbitTypes
<1>2. \A t \in 0 .. clock : t \in 0 .. clock'
  BY <1>1
<1>3. RabbitTypes'
  BY <1>1 DEF RabbitInv, RabbitTypes
<1>4. RecordsInv'
  <2>1. \A e \in pool : SubmissionOK(e)'
    BY <1>1, <1>2 DEF RabbitInv, RecordsInv, SubmissionOK, Date
  <2>2. \A o \in outcome : OutcomeOK(o)'
    BY <1>1, <1>2 DEF RabbitInv, RecordsInv, OutcomeOK, Date
  <2>3. \A j \in store : JobOK(j)'
    BY <1>1 DEF RabbitInv, RecordsInv, JobOK, Date
  <2> QED
    BY <1>1, <2>1, <2>2, <2>3 DEF RecordsInv
<1>5. StoreInv' /\ LostInv' /\ LaterInv' /\ OnceInv'
  BY <1>1 DEF RabbitInv, StoreInv, LostInv, LaterInv, OnceInv, Given
<1> QED
  BY <1>3, <1>4, <1>5 DEF RabbitInv

\* The empty scheduler has the invariant.
LEMMA RabbitStart == RabbitInit => RabbitInv
<1> SUFFICES ASSUME RabbitInit PROVE RabbitInv
  OBVIOUS
<1>1. RabbitTypes
  BY RabbitConstants DEF RabbitInit, RabbitTypes, Times
<1>2. RecordsInv /\ StoreInv /\ LaterInv /\ OnceInv
  BY DEF RabbitInit, RecordsInv, StoreInv, LaterInv, OnceInv
<1>3. LostInv
  BY DEF RabbitInit, LostInv
<1> QED
  BY <1>1, <1>2, <1>3 DEF RabbitInv

\* Every step keeps the invariant.
LEMMA RabbitInduction == RabbitInv /\ [RabbitNext]_rabbitVars => RabbitInv'
<1> SUFFICES ASSUME RabbitInv, [RabbitNext]_rabbitVars PROVE RabbitInv'
  OBVIOUS
<1>1. CASE UNCHANGED rabbitVars
  BY <1>1 DEF rabbitVars, RabbitInv, RabbitTypes, RecordsInv, StoreInv, LostInv, LaterInv, OnceInv,
              JobOK, SubmissionOK, OutcomeOK, Date, Given
<1>2. CASE ScheduleCall
  BY <1>2, ScheduleAction
<1>3. CASE ManageCall
  BY <1>3, ManageAction DEF ManageCall
<1>4. CASE Scheduler
  BY <1>4, SubmitStep DEF Scheduler
<1>5. CASE Worker
  BY <1>5, StartRunAction, EndRunAction DEF Worker
<1>6. CASE Tick
  BY <1>6, TickAction
<1> QED
  BY <1>1, <1>2, <1>3, <1>4, <1>5, <1>6 DEF RabbitNext

\* The scheduler's invariant, for any functions, ids, delays, periods, end dates,
\* misfire grace and bound on instances.
THEOREM RabbitInvariant == RabbitSpec => []RabbitInv
BY RabbitStart, RabbitInduction, PTL DEF RabbitSpec

-----------------------------------------------------------------------------

\* The runs the properties speak of.
LEMMA GivenIsHandled ==
    ASSUME RabbitInv, NEW c, NEW t
    PROVE  t \in Waiting(c) \union {o.due : o \in Handled(c)} <=> Given(c, t)
BY DEF Waiting, Handled, InPool, Given

\* No call disappears because of another one, and a removed call does not come back.
THEOREM NoCallIsLost == RabbitSpec => []NoJobLost
<1>1. RabbitInv => NoJobLost
  <2> SUFFICES ASSUME RabbitInv, NEW c \in Calls
               PROVE  /\ Cardinality(InStore(c)) + (IF c \in removed THEN 1 ELSE 0) <= 1
                      /\ InStore(c) = {} /\ c \notin removed =>
                            Waiting(c) \union {o.due : o \in Handled(c)} # {}
    BY DEF NoJobLost
  <2>1. CASE InStore(c) = {}
    <3>1. Cardinality(InStore(c)) = 0
      BY <2>1, FS_EmptySet
    <3>2. c \notin removed => \E t \in Nat : Given(c, t)
      BY <2>1 DEF RabbitInv, LostInv, InStore, Calls
    <3>3. c \notin removed => Waiting(c) \union {o.due : o \in Handled(c)} # {}
      BY <3>2, GivenIsHandled
    <3> QED
      BY <3>1, <3>3
  <2>2. CASE InStore(c) # {}
    <3>1. PICK j \in store : j.call = c
      BY <2>2 DEF InStore
    <3>2. InStore(c) = {j} /\ c \notin removed
      BY <3>1 DEF RabbitInv, StoreInv, InStore
    <3>3. Cardinality(InStore(c)) = 1
      BY <3>2, FS_Singleton
    <3> QED
      BY <2>2, <3>2, <3>3
  <2> QED
    BY <2>1, <2>2
<1> QED
  BY <1>1, RabbitInvariant, PTL

\* Each instant of a trigger is handed to the pool at most once.
THEOREM InstantsAreHandedOnce == RabbitSpec => []EachInstantOnce
<1>1. RabbitInv => EachInstantOnce
  <2> SUFFICES ASSUME RabbitInv, NEW c \in Calls
               PROVE  /\ \A j \in InStore(c) : j.next # NoTime =>
                             \A t \in Waiting(c) \union {o.due : o \in Handled(c)} : t < j.next
                      /\ \A o, p \in Handled(c) : o.due = p.due => o = p
                      /\ Waiting(c) \intersect {o.due : o \in Handled(c)} = {}
    BY DEF EachInstantOnce
  <2>1. ASSUME NEW j \in InStore(c), j.next # NoTime,
               NEW t \in Waiting(c) \union {o.due : o \in Handled(c)}
        PROVE  t < j.next
    <3>1. Given(c, t) /\ clock \in Nat
      BY GivenIsHandled DEF RabbitInv, RabbitTypes
    <3>2. t \in Nat
      BY <3>1, GivenIsPast
    <3> QED
      BY <2>1, <3>1, <3>2 DEF RabbitInv, LaterInv, InStore
  <2>2. \A o, p \in Handled(c) : o.due = p.due => o = p
    BY DEF RabbitInv, OnceInv, Handled
  <2>3. Waiting(c) \intersect {o.due : o \in Handled(c)} = {}
    BY DEF RabbitInv, OnceInv, Handled, Waiting, InPool
  <2> QED
    BY <2>1, <2>2, <2>3
<1> QED
  BY <1>1, RabbitInvariant, PTL

\* A one-shot job that is run starts within the misfire grace of the time that was
\* asked for, moved by the offset of local time.
OffsetRuns ==
    \A o \in outcome :
        o.what = "run" /\ asked[o.call] # NoTime =>
            asked[o.call] + UtcOffset <= o.when /\ o.when <= asked[o.call] + UtcOffset + Grace

\* A run of a one-shot job is late by the offset of local time, and by that only.
THEOREM RunsAreOffset == RabbitSpec => []OffsetRuns
<1>1. RabbitInv => OffsetRuns
  BY DEF RabbitInv, RecordsInv, OutcomeOK, OffsetRuns, Date
<1> QED
  BY <1>1, RabbitInvariant, PTL

\* So on a host whose local time is UTC it starts when its caller asked for it.
THEOREM RunsStartWhenAsked == ASSUME UtcOffset = 0 PROVE RabbitSpec => []RunsWhenAsked
<1>1. RabbitInv => RunsWhenAsked
  <2> SUFFICES ASSUME RabbitInv, NEW o \in outcome, o.what = "run", asked[o.call] # NoTime
               PROVE  asked[o.call] <= o.when /\ o.when <= asked[o.call] + Grace
    BY DEF RunsWhenAsked
  <2>1. asked[o.call] \in Nat
    <3>1. o.call \in 1 .. calls /\ calls \in 0 .. MaxCalls /\ asked \in [1 .. MaxCalls -> Times]
      BY DEF RabbitInv, RabbitTypes, RecordsInv, OutcomeOK
    <3>2. o.call \in 1 .. MaxCalls
      BY <3>1, RabbitAssumption
    <3> QED
      BY <3>1, <3>2 DEF Times
  <2>2. Date(o.call) = asked[o.call]
    BY <2>1 DEF Date
  <2> QED
    BY <2>2 DEF RabbitInv, RecordsInv, OutcomeOK
<1> QED
  BY <1>1, RabbitInvariant, PTL

-----------------------------------------------------------------------------
(* HOOKS.  Any plugins, priorities and number of syncs.                    *)

\* Sorted by descending priority.
Descending(s) == \A i, j \in 1 .. Len(s) : i < j => Priority[s[i]] >= Priority[s[j]]

\* Sorted by descending priority; no item is there twice.
Neat(s) == Descending(s) /\ IsInjective(s)

\* What a syncer's operation can look like.
SyncRecords ==
    [pc : {"idle", "load", "find", "activate", "save", "fill", "append", "sort", "delete"},
     left : SUBSET Plugins, at : Plugins \union {Nothing}, dict : Nat, keys : SUBSET Plugins,
     removing : Plugins \union {Nothing}, into : Nat, unsorted : Seq(Plugins), crossed : BOOLEAN]

\* Types.
HookTypes ==
    /\ installed \subseteq Plugins /\ active \subseteq Plugins /\ saved \subseteq Plugins
    /\ dict \in Gens /\ plugins \in [Gens -> SUBSET Plugins]
    /\ gen \in Gens /\ hooks \in [Gens -> Seq(Plugins)] /\ hasKey \in [Gens -> BOOLEAN]
    /\ sync \in [Syncers -> SyncRecords]
    /\ overlapped \subseteq 1 .. gen
    /\ using \in 1 .. gen /\ idx \in Nat \ {0} /\ ran \in Seq(Plugins)

\* A sync is filling a list, or sorting one.
Making(s) == sync[s].pc \in {"fill", "append"}

\* A sync is sorting a list.
Sorting(s) == sync[s].pc = "sort"

\* An operation that no other one runs beside.
Lone(s) == Busy(s) /\ ~sync[s].crossed

\* Two operations at once know of each other, and so does the generation they are in.
CrossInv ==
    /\ \A s, o \in Syncers : s # o /\ Busy(s) /\ Busy(o) => sync[s].crossed
    /\ \A s \in Syncers : Busy(s) /\ sync[s].crossed => gen \in overlapped
    /\ \A s \in Syncers : sync[s].pc = "append" => sync[s].at \in Plugins
    /\ \A s \in Syncers : Sorting(s) =>
           /\ sync[s].into \in 1 .. gen
           /\ sync[s].crossed => sync[s].into \in overlapped
           /\ ~sync[s].crossed => sync[s].into = gen

\* What a sync that runs alone has seen is still so.
LoneOK(s) ==
    /\ Making(s) => /\ sync[s].dict = dict /\ sync[s].keys = plugins[dict]
                    /\ sync[s].left \subseteq plugins[dict]
                    /\ IsInjective(hooks[gen])
                    /\ Range(hooks[gen]) \intersect sync[s].left = {}
                    /\ Range(hooks[gen]) \subseteq plugins[dict] \intersect active
    /\ sync[s].pc = "append" => /\ sync[s].at \in plugins[dict] \intersect active
                                /\ sync[s].at \notin Range(hooks[gen]) \union sync[s].left
                                /\ hasKey[gen]
    /\ Sorting(s) => /\ IsInjective(sync[s].unsorted)
                     /\ Range(sync[s].unsorted) \subseteq plugins[dict] \intersect active
    /\ sync[s].pc \in {"find", "activate", "fill", "append", "sort"} =>
           active \subseteq saved \union {CorePlugin}
    /\ sync[s].pc \in {"save", "fill", "append", "sort"} => sync[s].removing \notin active

\* Every sync that overlaps with no other.
LoneInv == \A s \in Syncers : Lone(s) => LoneOK(s)

\* Of the lists that no two operations had a hand in, the newest is the one being made.
ListsInv ==
    /\ \A g \in 1 .. gen :
           g \notin overlapped /\ (g < gen \/ \A s \in Syncers : ~Making(s) /\ ~Sorting(s)) => Neat(hooks[g])
    /\ \A g \in Gens : g > gen => hooks[g] = <<>>

\* What is in the newest list is known to the manager, and active.
KnownInv ==
    gen \notin overlapped =>
        /\ ~partial => Range(hooks[gen]) \subseteq plugins[dict]
        /\ (\A s \in Syncers : sync[s].pc # "save") =>
               Range(hooks[gen]) \subseteq active \intersect (saved \union {CorePlugin})
        /\ \A s \in Syncers : sync[s].pc = "delete" => sync[s].removing \notin Range(hooks[gen])

\* Nobody changes the list that the turn uses.
Fixed ==
    /\ using < gen \/ \A s \in Syncers : ~Making(s)
    /\ \A s \in Syncers : Sorting(s) => sync[s].into # using

\* A turn has called a prefix of its list; nobody changes a list taken in peace.
TurnInv ==
    /\ stage \in {"check", "take"} => idx = 1 /\ ran = <<>>
    /\ clean /\ ~tangled /\ stage \in {"pipe", "done"} =>
           /\ Fixed /\ Neat(hooks[using])
           /\ idx = Len(ran) + 1 /\ Len(ran) <= Len(hooks[using])
           /\ \A i \in 1 .. Len(ran) : ran[i] = hooks[using][i]
           /\ stage = "done" => Len(ran) = Len(hooks[using])

\* What a sync may still put in its list.
Awaited(s) == sync[s].left \union (IF sync[s].pc = "append" THEN {sync[s].at} ELSE {})

\* The manager knows the hooks of a list, and what is still put in it.
ListKnown ==
    /\ Range(hooks[using]) \subseteq plugins[dict]
    /\ \A s \in Syncers :
           /\ Making(s) /\ using = gen => Awaited(s) \subseteq plugins[dict]
           /\ Sorting(s) /\ sync[s].into = using => Range(sync[s].unsorted) \subseteq plugins[dict]

\* Until the manager loses a plugin, it knows what the turn calls.
LogInv ==
    /\ stage = "aborted" => touched \/ tangled
    /\ ~touched /\ stage \in {"check", "take", "pipe"} => ~partial
    /\ ~touched /\ ~tangled /\ stage = "pipe" => ListKnown

\* The inductive invariant of HookRace.
HookInv == HookTypes /\ CrossInv /\ LoneInv /\ ListsInv /\ KnownInv /\ TurnInv /\ LogInv

-----------------------------------------------------------------------------
(* Sorting *)

\* Item i goes before item j.
Before(s, i, j) == Priority[s[i]] > Priority[s[j]] \/ (Priority[s[i]] = Priority[s[j]] /\ i < j)

\* f puts the items of s in order.
Sorts(f, s) ==
    /\ IsInjective(f)
    /\ \A i, j \in DOMAIN s : i < j => Before(s, f[i], f[j])

\* A list can be sorted: the item that r - 1 others go before goes to place r.
LEMMA SortExists ==
    ASSUME NEW s \in Seq(Plugins)
    PROVE  \E f \in [DOMAIN s -> DOMAIN s] : Sorts(f, s)
<1> DEFINE n == Len(s)
           D == 1 .. n
           above == [i \in D |-> {j \in D : j = i \/ Before(s, j, i)}]
           rank == [i \in D |-> Cardinality(above[i])]
<1>1. n \in Nat /\ DOMAIN s = D /\ \A i \in D : s[i] \in Plugins /\ Priority[s[i]] \in Nat
  BY HookAssumption
<1>2. IsFiniteSet(D) /\ Cardinality(D) = n
  <2>1. IsFiniteSet(D) /\ Cardinality(D) = IF 1 > n THEN 0 ELSE n - 1 + 1
    BY <1>1, FS_Interval
  <2> QED
    BY <2>1, <1>1
<1>3. \A i, j \in D : i = j \/ Before(s, i, j) \/ Before(s, j, i)
  BY <1>1 DEF Before
<1>4. \A i \in D : above[i] \in SUBSET D /\ i \in above[i]
  BY <1>1
<1>5. \A i \in D : IsFiniteSet(above[i]) /\ rank[i] \in D /\ rank[i] \in Nat
  <2> TAKE i \in D
  <2> HIDE DEF above
  <2>1. IsFiniteSet(above[i]) /\ Cardinality(above[i]) <= n /\ Cardinality(above[i]) \in Nat
    BY <1>2, <1>4, FS_Subset, FS_CardinalityType
  <2>2. Cardinality(above[i]) # 0
    BY <1>4, <2>1, FS_EmptySet
  <2> QED
    BY <2>1, <2>2, <1>1
<1>6. \A i, j \in D : Before(s, i, j) => rank[i] < rank[j]
  <2> SUFFICES ASSUME NEW i \in D, NEW j \in D, Before(s, i, j)
               PROVE  rank[i] < rank[j]
    OBVIOUS
  <2>1. above[i] \in SUBSET above[j] /\ j \notin above[i]
    <3>1. \A k \in D : Before(s, k, i) => Before(s, k, j)
      BY <1>1 DEF Before
    <3>2. i # j /\ ~Before(s, j, i)
      BY <1>1 DEF Before
    <3> QED
      BY <3>1, <3>2
  <2> HIDE DEF above, D
  <2>2. Cardinality(above[i]) <= Cardinality(above[j]) /\ Cardinality(above[i]) # Cardinality(above[j])
    BY <2>1, <1>4, <1>5, FS_Subset
  <2>3. rank[i] = Cardinality(above[i]) /\ rank[j] = Cardinality(above[j]) /\ rank[i] \in Nat /\ rank[j] \in Nat
    BY <1>5 DEF D
  <2> QED
    BY <2>2, <2>3
<1>7. rank \in Injection(D, D)
  <2>1. rank \in [D -> D]
    BY <1>5
  <2>2. ASSUME NEW i \in D, NEW j \in D, rank[i] = rank[j] PROVE i = j
    <3> HIDE DEF rank, above, D
    <3>1. rank[i] \in Nat /\ rank[j] \in Nat
      BY <1>5
    <3>2. ~Before(s, i, j) /\ ~Before(s, j, i)
      BY <3>1, <2>2, <1>6
    <3> QED
      BY <3>2, <1>3
  <2> QED
    BY <2>1, <2>2 DEF Injection, IsInjective
<1> HIDE DEF rank, above
<1>8. rank \in Surjection(D, D)
  BY <1>2, <1>7, FS_Injection
<1> DEFINE f == [r \in D |-> CHOOSE i \in D : rank[i] = r]
<1>9. \A r \in D : f[r] \in D /\ rank[f[r]] = r
  BY <1>8 DEF Surjection
<1> HIDE DEF f
<1>10. f \in [D -> D]
  BY <1>9 DEF f
<1>11. IsInjective(f)
  BY <1>9, <1>10 DEF IsInjective
<1>12. ASSUME NEW i \in D, NEW j \in D, i < j PROVE Before(s, f[i], f[j])
  <2>1. rank[f[i]] = i /\ rank[f[j]] = j /\ f[i] \in D /\ f[j] \in D
    BY <1>9
  <2>2. ~(rank[f[j]] < rank[f[i]]) /\ f[i] # f[j]
    BY <2>1, <1>12, <1>1
  <2>3. ~Before(s, f[j], f[i])
    BY <2>1, <2>2, <1>6
  <2> QED
    BY <2>1, <2>2, <2>3, <1>3
<1> QED
  BY <1>1, <1>10, <1>11, <1>12 DEF Sorts

\* The sorted list has the items of the list, by descending priority.
LEMMA SortFacts ==
    ASSUME NEW s \in Seq(Plugins)
    PROVE  /\ ByPriority(s) \in Seq(Plugins) /\ Descending(ByPriority(s))
           /\ Range(ByPriority(s)) \subseteq Range(s)
           /\ IsInjective(s) => Neat(ByPriority(s))
<1> DEFINE f == CHOOSE g \in [DOMAIN s -> DOMAIN s] : Sorts(g, s)
           D == 1 .. Len(s)
<1>1. Len(s) \in Nat /\ DOMAIN s = D /\ \A i \in D : s[i] \in Plugins /\ Priority[s[i]] \in Nat
  BY HookAssumption
<1>2. f \in [D -> D] /\ Sorts(f, s)
  BY <1>1, SortExists
<1>3. ByPriority(s) = [i \in D |-> s[f[i]]]
  BY <1>1 DEF ByPriority, Sorts, Before
<1> HIDE DEF f
<1>4. \A i \in D : ByPriority(s)[i] = s[f[i]] /\ f[i] \in D
  BY <1>2, <1>3
<1>5. ByPriority(s) \in Seq(Plugins) /\ Len(ByPriority(s)) = Len(s) /\ DOMAIN ByPriority(s) = D
  <2>1. \A i \in D : s[f[i]] \in Plugins
    BY <1>1, <1>4
  <2>2. [i \in D |-> s[f[i]]] \in Seq(Plugins)
    BY <2>1, <1>1
  <2> QED
    BY <2>2, <1>1, <1>3
<1>6. Descending(ByPriority(s))
  <2> SUFFICES ASSUME NEW i \in D, NEW j \in D, i < j PROVE Priority[s[f[i]]] >= Priority[s[f[j]]]
    BY <1>4, <1>5 DEF Descending
  <2>1. Before(s, f[i], f[j])
    BY <1>1, <1>2 DEF Sorts
  <2> QED
    BY <2>1, <1>1, <1>4 DEF Before
<1>7. Range(ByPriority(s)) \subseteq Range(s)
  BY <1>1, <1>4, <1>5 DEF Range
<1>8. ASSUME IsInjective(s) PROVE IsInjective(ByPriority(s))
  BY <1>1, <1>2, <1>4, <1>5, <1>8 DEF IsInjective, Sorts
<1> QED
  BY <1>5, <1>6, <1>7, <1>8 DEF Neat

\* Each plugin is in the list that is made at the start once.
LEMMA StartingList ==
    SetToSeq(Plugins) \in Seq(Plugins) /\ IsInjective(SetToSeq(Plugins))
<1> DEFINE n == Cardinality(Plugins)
<1>1. n \in Nat /\ Bijection(1 .. n, Plugins) # {}
  BY HookAssumption, FS_CardinalityType DEF ExistsBijection
<1>2. PICK b \in [1 .. n -> Plugins] : IsInjective(b)
  BY <1>1 DEF Bijection, Injection
<1>3. SetToSeq(Plugins) \in [1 .. n -> Plugins] /\ IsInjective(SetToSeq(Plugins))
  BY <1>2 DEF SetToSeq
<1> QED
  BY <1>1, <1>3

-----------------------------------------------------------------------------
(* The steps *)

\* The items of the lists the actions build.
LEMMA ListFacts ==
    ASSUME NEW s \in Seq(Plugins)
    PROVE  /\ Range(<<>>) = {} /\ IsInjective(<<>>) /\ Neat(<<>>)
           /\ \A i \in 1 .. Len(s) : s[i] \in Range(s)
           /\ \A p \in Plugins :
                 /\ Append(s, p) \in Seq(Plugins)
                 /\ Range(Append(s, p)) = Range(s) \union {p}
                 /\ IsInjective(s) /\ p \notin Range(s) => IsInjective(Append(s, p))
<1>1. Range(<<>>) = {} /\ IsInjective(<<>>) /\ Neat(<<>>)
  BY DEF Range, IsInjective, Neat, Descending
<1>2. \A i \in 1 .. Len(s) : s[i] \in Range(s)
  BY DEF Range
<1>3. ASSUME NEW p \in Plugins
      PROVE  /\ Append(s, p) \in Seq(Plugins)
             /\ Range(Append(s, p)) = Range(s) \union {p}
             /\ IsInjective(s) /\ p \notin Range(s) => IsInjective(Append(s, p))
  <2> DEFINE t == Append(s, p)
  <2>1. /\ t \in Seq(Plugins) /\ DOMAIN t = 1 .. Len(s) + 1 /\ DOMAIN s = 1 .. Len(s) /\ Len(s) \in Nat
        /\ t[Len(s) + 1] = p /\ \A i \in 1 .. Len(s) : t[i] = s[i]
    OBVIOUS
  <2> HIDE DEF t
  <2>2. \A i \in DOMAIN t : i = Len(s) + 1 \/ i \in 1 .. Len(s)
    BY <2>1
  <2>3. 1 .. Len(s) \subseteq DOMAIN t /\ Len(s) + 1 \in DOMAIN t
    BY <2>1
  <2>4. Range(t) \subseteq Range(s) \union {p}
    BY <2>1, <2>2 DEF Range
  <2>5. Range(s) \union {p} \subseteq Range(t)
    BY <2>1, <2>3 DEF Range
  <2>6. ASSUME IsInjective(s), p \notin Range(s) PROVE IsInjective(t)
    <3> SUFFICES ASSUME NEW i \in DOMAIN t, NEW j \in DOMAIN t, t[i] = t[j] PROVE i = j
      BY DEF IsInjective
    <3>1. CASE i \in 1 .. Len(s) /\ j \in 1 .. Len(s)
      BY <3>1, <2>1, <2>6 DEF IsInjective
    <3>2. CASE i = Len(s) + 1 /\ j \in 1 .. Len(s)
      BY <3>2, <2>1, <2>6, <1>2
    <3>3. CASE i \in 1 .. Len(s) /\ j = Len(s) + 1
      BY <3>3, <2>1, <2>6, <1>2
    <3> QED
      BY <3>1, <3>2, <3>3, <2>2
  <2> QED
    BY <2>1, <2>4, <2>5, <2>6 DEF t
<1> QED
  BY <1>1, <1>2, <1>3

\* What To does.
LEMMA ToFacts ==
    ASSUME sync \in [Syncers -> SyncRecords], NEW s \in Syncers, NEW r \in SyncRecords, To(s, r)
    PROVE  /\ sync' \in [Syncers -> SyncRecords] /\ sync'[s] = r
           /\ \A o \in Syncers : o # s => sync'[o] = sync[o]
BY DEF To

\* The records that the actions build.
LEMMA RecordFacts ==
    /\ Idle \in SyncRecords
    /\ Idle.pc = "idle" /\ Idle.removing = Nothing /\ Idle.crossed = FALSE
    /\ \A l \in {"load", "find", "activate", "save", "delete"}, ps \in SUBSET Plugins,
          q \in Plugins \union {Nothing} :
          /\ [Idle EXCEPT !.pc = l] \in SyncRecords
          /\ [Idle EXCEPT !.pc = l, !.left = ps] \in SyncRecords
          /\ [Idle EXCEPT !.pc = l, !.removing = q] \in SyncRecords
<1>1. Idle \in SyncRecords /\ Idle.pc = "idle" /\ Idle.removing = Nothing /\ Idle.crossed = FALSE
  <2>1. <<>> \in Seq(Plugins)
    OBVIOUS
  <2> QED
    BY <2>1 DEF SyncRecords, Idle
<1> QED
  BY <1>1 DEF SyncRecords

\* The manager and the turn start in the invariant.
LEMMA HookStart == HookInit => HookInv
<1> SUFFICES ASSUME HookInit PROVE HookInv
  OBVIOUS
<1> DEFINE s == ByPriority(SetToSeq(Plugins))
<1>1. s \in Seq(Plugins) /\ Neat(s)
  BY StartingList, SortFacts
<1>2. MaxSyncs \in Nat /\ 1 \in Gens /\ <<>> \in Seq(Plugins) /\ \A g \in Gens : g \in Nat
  BY HookAssumption DEF Gens
<1>3. hooks \in [Gens -> Seq(Plugins)] /\ hooks[1] = s /\ \A g \in Gens : g > 1 => hooks[g] = <<>>
  BY <1>1, <1>2 DEF HookInit
<1>4. Range(s) \subseteq Plugins
  BY <1>1 DEF Range
<1> HIDE DEF s
<1>5. Idle \in SyncRecords
  BY DEF Idle, SyncRecords
<1>6. \A t \in Syncers : sync[t] = Idle /\ Idle.pc = "idle"
  BY DEF HookInit, Idle
<1>7. HookTypes
  BY <1>2, <1>3, <1>5 DEF HookInit, HookTypes
<1>8. CrossInv /\ LoneInv
  BY <1>6 DEF CrossInv, LoneInv, Busy, Lone, Sorting, Making
<1>9. ListsInv
  <2>1. gen = 1
    BY DEF HookInit
  <2>2. \A g \in 1 .. gen : g = 1
    BY <2>1
  <2> QED
    BY <2>1, <2>2, <1>1, <1>3 DEF ListsInv
<1>10. KnownInv
  <2>1. gen = 1 /\ plugins[dict] = Plugins /\ active = Plugins /\ saved = Plugins
    BY <1>2 DEF HookInit
  <2> QED
    BY <2>1, <1>3, <1>4, <1>6 DEF KnownInv
<1>11. TurnInv /\ LogInv
  BY DEF HookInit, TurnInv, LogInv
<1> QED
  BY <1>7, <1>8, <1>9, <1>10, <1>11 DEF HookInv

\* An operation begins, maybe beside others: then nothing more is said of the newest
\* list.
LEMMA StartStep ==
    ASSUME HookInv, NEW s \in Syncers, NEW r \in SyncRecords, Starts(s, r),
           r.pc \in {"load", "save", "delete"},
           active' \subseteq Plugins, dict' \in Gens,
           r.pc = "load" => partial' /\ touched',
           r.pc # "load" => dict' = dict /\ (partial' <=> partial) /\ (touched' <=> touched),
           r.pc = "save" => r.removing \notin active',
           r.pc # "save" => active' = active,
           r.pc = "delete" => r.removing \notin active,
           plugins' = plugins,
           UNCHANGED <<installed, saved, listVars, turnVars>>
    PROVE  HookInv'
<1>1. /\ installed' = installed /\ plugins' = plugins /\ saved' = saved
      /\ gen' = gen /\ hooks' = hooks /\ (hasKey' = hasKey) /\ stage' = stage /\ using' = using /\ idx' = idx
      /\ ran' = ran /\ (clean' = clean) /\ (tangled' = tangled)
  BY DEF listVars, turnVars
<1>2. /\ HookTypes /\ gen \in Gens /\ gen \in 1 .. gen /\ using \in 1 .. gen
      /\ sync \in [Syncers -> SyncRecords]
  BY HookAssumption DEF HookInv, HookTypes, Gens
<1> DEFINE many == Others(s) # {}
           q == [r EXCEPT !.crossed = many]
<1>3. /\ ~Busy(s)
      /\ overlapped' = IF many THEN overlapped \union {gen} ELSE overlapped
      /\ sync' = [o \in Syncers |-> IF o = s THEN q
                                    ELSE IF Busy(o) THEN [sync[o] EXCEPT !.crossed = TRUE] ELSE sync[o]]
  BY DEF Starts
<1>4. /\ q \in SyncRecords /\ q.pc = r.pc /\ q.removing = r.removing /\ (q.crossed <=> many)
      /\ \A o \in Syncers : LET c == [sync[o] EXCEPT !.crossed = TRUE]
                            IN  /\ c \in SyncRecords /\ c.pc = sync[o].pc /\ c.into = sync[o].into
                                /\ c.unsorted = sync[o].unsorted /\ c.left = sync[o].left
                                /\ c.at = sync[o].at /\ c.removing = sync[o].removing /\ c.crossed
  BY <1>2 DEF SyncRecords
<1>5. /\ sync' \in [Syncers -> SyncRecords] /\ sync'[s].pc = r.pc /\ sync'[s].removing = r.removing
      /\ sync'[s].crossed <=> many
  BY <1>2, <1>3, <1>4
<1>6. \A o \in Syncers : o # s =>
         /\ sync'[o].pc = sync[o].pc /\ sync'[o].into = sync[o].into
         /\ sync'[o].unsorted = sync[o].unsorted /\ sync'[o].left = sync[o].left
         /\ sync'[o].at = sync[o].at /\ sync'[o].removing = sync[o].removing
         /\ sync[o].pc # "idle" => sync'[o].crossed
  BY <1>2, <1>3, <1>4 DEF Busy
<1>7. \A o \in Syncers : o # s => (sync[o].pc # "idle" => many)
  BY DEF Others, Busy
<1> HIDE DEF many, q
<1>8. HookTypes'
  BY <1>1, <1>2, <1>3, <1>5 DEF HookTypes
<1>9. CrossInv'
  <2>1. ASSUME NEW t \in Syncers, NEW o \in Syncers, t # o, Busy(t)', Busy(o)' PROVE sync'[t].crossed
    BY <2>1, <1>5, <1>6, <1>7 DEF Busy
  <2>2. ASSUME NEW t \in Syncers, Busy(t)', sync'[t].crossed PROVE gen \in overlapped'
    <3>1. many
      BY <2>2, <1>5, <1>6, <1>7 DEF Busy
    <3> QED
      BY <3>1, <1>3
  <2>3. \A t \in Syncers : sync'[t].pc = "append" => sync'[t].at \in Plugins
    BY <1>5, <1>6 DEF HookInv, CrossInv
  <2>4. ASSUME NEW t \in Syncers, sync'[t].pc = "sort"
        PROVE  sync'[t].into \in 1 .. gen /\ sync'[t].crossed /\ sync'[t].into \in overlapped'
    <3>1. t # s /\ sync[t].pc = "sort" /\ sync'[t].into = sync[t].into /\ sync'[t].crossed
      BY <2>4, <1>5, <1>6
    <3>2. many /\ overlapped' = overlapped \union {gen}
      BY <3>1, <1>7, <1>3
    <3> QED
      BY <3>1, <3>2 DEF HookInv, CrossInv, Sorting
  <2> QED
    BY <2>1, <2>2, <2>3, <2>4, <1>1 DEF CrossInv, Sorting
<1>10. LoneInv'
  <2> SUFFICES ASSUME NEW t \in Syncers, Lone(t)', t = s
               PROVE  (sync'[t].pc = "save" => sync'[t].removing \notin active')
    BY <1>5, <1>6 DEF LoneInv, LoneOK, Lone, Busy, Making, Sorting
  <2> QED
    BY <1>5
<1>11. ListsInv'
  <2>1. ASSUME NEW g \in 1 .. gen, g \notin overlapped',
               g < gen \/ \A t \in Syncers : sync'[t].pc \notin {"fill", "append", "sort"}
        PROVE  Neat(hooks[g])
    <3>1. g \notin overlapped
      BY <2>1, <1>3
    <3>2. g < gen \/ \A t \in Syncers : sync[t].pc \notin {"fill", "append", "sort"}
      BY <2>1, <1>3, <1>6 DEF Busy
    <3> QED
      BY <3>1, <3>2 DEF HookInv, ListsInv, Making, Sorting
  <2> QED
    BY <2>1, <1>1 DEF HookInv, ListsInv, Making, Sorting, Neat, Descending
<1>12. KnownInv'
  <2> SUFFICES ASSUME ~many PROVE KnownInv'
    BY <1>1, <1>3 DEF KnownInv
  <2>1. \A t \in Syncers : sync[t].pc = "idle"
    BY <1>3, <1>7 DEF Busy
  <2>2. \A t \in Syncers : t # s => sync'[t].pc = "idle"
    BY <2>1, <1>6
  <2>3. overlapped' = overlapped
    BY <1>3
  <2> QED
    BY <1>1, <1>5, <2>1, <2>2, <2>3 DEF HookInv, KnownInv
<1>13. TurnInv'
  <2>1. Fixed => Fixed'
    BY <1>1, <1>5, <1>6 DEF Fixed, Making, Sorting
  <2> QED
    BY <1>1, <2>1 DEF HookInv, TurnInv, Neat, Descending
<1>14. LogInv'
  <2>1. dict' = dict /\ ListKnown => ListKnown'
    BY <1>1, <1>5, <1>6 DEF ListKnown, Awaited, Making, Sorting
  <2> QED
    BY <1>1, <2>1 DEF HookInv, LogInv
<1> QED
  BY <1>8, <1>9, <1>10, <1>11, <1>12, <1>13, <1>14 DEF HookInv

\* A sync begins with a list of its own and leaves the others as they are.
LEMMA ResetStep ==
    ASSUME HookInv, NEW s \in Syncers, NEW q \in Plugins \union {Nothing}, Reset(s, q),
           sync[s].pc \in {"save", "find"}, saved' \subseteq Plugins,
           Lone(s) => active \subseteq saved' \union {CorePlugin} /\ q \notin active,
           UNCHANGED <<installed, dict, plugins, active, turnVars, touched>>
    PROVE  HookInv'
<1>1. /\ installed' = installed /\ dict' = dict /\ plugins' = plugins /\ active' = active
      /\ gen' = gen + 1 /\ hooks' = hooks /\ partial' = FALSE /\ (hasKey' = hasKey) /\ (touched' = touched)
      /\ stage' = stage /\ using' = using /\ idx' = idx
      /\ ran' = ran /\ (clean' = clean) /\ (tangled' = tangled)
      /\ overlapped' = IF sync[s].crossed THEN overlapped \union {gen + 1} ELSE overlapped
  BY DEF Reset, turnVars
<1>2. /\ HookTypes /\ gen \in Gens /\ gen \in Nat /\ MaxSyncs \in Nat /\ gen' \in Gens /\ gen' > gen
      /\ using \in 1 .. gen /\ sync \in [Syncers -> SyncRecords] /\ dict \in Gens
      /\ plugins[dict] \in SUBSET Plugins /\ gen <= MaxSyncs /\ dict \in Nat
      /\ sync[s].crossed \in BOOLEAN
  <2>1. /\ HookTypes /\ gen \in Gens /\ gen <= MaxSyncs /\ MaxSyncs \in Nat /\ using \in 1 .. gen
        /\ sync \in [Syncers -> SyncRecords] /\ dict \in Gens /\ plugins[dict] \in SUBSET Plugins
    BY HookAssumption DEF HookInv, HookTypes, Reset
  <2>2. gen \in Nat /\ dict \in Nat
    BY <2>1 DEF Gens
  <2>3. gen + 1 \in Gens /\ gen + 1 > gen
    BY <2>1, <2>2 DEF Gens
  <2>4. sync[s].crossed \in BOOLEAN
    BY <2>1 DEF SyncRecords
  <2> QED
    BY <2>1, <2>2, <2>3, <2>4, <1>1
<1> DEFINE r == [[Idle EXCEPT !.pc = "fill", !.left = plugins[dict], !.dict = dict,
                              !.keys = plugins[dict], !.removing = q] EXCEPT !.crossed = sync[s].crossed]
<1>3. /\ r \in SyncRecords /\ r.pc = "fill" /\ r.left = plugins[dict] /\ r.dict = dict
      /\ r.keys = plugins[dict] /\ r.removing = q /\ (r.crossed <=> sync[s].crossed) /\ r.at = Nothing
  <2>1. Idle \in SyncRecords
    BY RecordFacts
  <2> QED
    BY <1>2, <2>1 DEF SyncRecords, Idle
<1>4. To(s, r)
  BY DEF Reset, On
<1> HIDE DEF r
<1>5. /\ sync' \in [Syncers -> SyncRecords] /\ sync'[s] = r
      /\ \A o \in Syncers : o # s => sync'[o] = sync[o]
  BY <1>2, <1>3, <1>4, ToFacts
<1>6. hooks[gen'] = <<>> /\ Range(<<>>) = {} /\ IsInjective(<<>>) /\ <<>> \in Seq(Plugins)
  BY <1>2, ListFacts DEF HookInv, ListsInv, HookTypes
<1>7. \A o \in Syncers : o # s /\ Busy(o) => sync[o].crossed /\ sync[s].crossed
  BY DEF HookInv, CrossInv, Busy
<1>8. Busy(s)
  BY DEF Busy
<1>9. sync[s].crossed => gen \in overlapped
  BY <1>8 DEF HookInv, CrossInv
<1>10. HookTypes'
  BY <1>1, <1>2, <1>5 DEF HookTypes
<1>11. CrossInv'
  <2>1. ASSUME NEW t \in Syncers, NEW o \in Syncers, t # o, Busy(t)', Busy(o)' PROVE sync'[t].crossed
    BY <2>1, <1>3, <1>5, <1>7 DEF Busy
  <2>2. ASSUME NEW t \in Syncers, Busy(t)', sync'[t].crossed PROVE gen' \in overlapped'
    BY <2>2, <1>1, <1>3, <1>5, <1>7 DEF Busy
  <2>3. \A t \in Syncers : sync'[t].pc = "append" => sync'[t].at \in Plugins
    BY <1>3, <1>5 DEF HookInv, CrossInv
  <2>4. ASSUME NEW t \in Syncers, sync'[t].pc = "sort"
        PROVE  sync'[t].into \in 1 .. gen' /\ sync'[t].crossed /\ sync'[t].into \in overlapped'
    <3>1. t # s /\ sync'[t] = sync[t] /\ sync[t].pc = "sort"
      BY <2>4, <1>3, <1>5
    <3>2. sync[t].crossed
      BY <3>1, <1>7 DEF Busy
    <3>3. sync[t].into \in 1 .. gen /\ sync[t].into \in overlapped
      BY <3>1, <3>2 DEF HookInv, CrossInv, Sorting
    <3> QED
      BY <3>1, <3>2, <3>3, <1>1, <1>2
  <2> QED
    BY <2>1, <2>2, <2>3, <2>4 DEF CrossInv, Sorting
<1>12. LoneInv'
  <2> SUFFICES ASSUME NEW t \in Syncers, Lone(t)'
               PROVE  LoneOK(t)'
    BY DEF LoneInv
  <2>1. t = s /\ ~sync[s].crossed
    BY <1>3, <1>5, <1>7 DEF Lone, Busy
  <2>2. Lone(s)
    BY <2>1, <1>8 DEF Lone
  <2> QED
    BY <2>1, <2>2, <1>1, <1>3, <1>5, <1>6 DEF LoneOK, Making, Sorting, Lone
<1>13. ListsInv'
  <2>1. ASSUME NEW g \in 1 .. gen', g \notin overlapped',
               g < gen' \/ \A t \in Syncers : ~Making(t)'
        PROVE  Neat(hooks[g])
    <3>1. g \in 1 .. gen /\ g \notin overlapped
      BY <2>1, <1>1, <1>2, <1>3, <1>5 DEF Making
    <3>2. CASE g < gen
      BY <3>1, <3>2 DEF HookInv, ListsInv
    <3>3. CASE g = gen
      <4>1. ~sync[s].crossed
        BY <3>1, <3>3, <1>9
      <4>2. \A t \in Syncers : ~Making(t) /\ ~Sorting(t)
        BY <4>1, <1>7 DEF Making, Sorting, Busy
      <4> QED
        BY <3>1, <4>2 DEF HookInv, ListsInv
    <3> QED
      BY <3>1, <3>2, <3>3, <1>2
  <2>2. \A g \in Gens : g > gen' => hooks[g] = <<>>
    <3>1. \A g \in Gens : g > gen' => g > gen
      BY <1>1, <1>2 DEF Gens
    <3> QED
      BY <3>1 DEF HookInv, ListsInv
  <2> QED
    BY <2>1, <2>2, <1>1 DEF ListsInv, Neat, Descending
<1>14. KnownInv'
  BY <1>1, <1>6 DEF KnownInv
<1>15. TurnInv'
  <2>1. using < gen'
    BY <1>1, <1>2
  <2>2. Fixed => Fixed'
    BY <2>1, <1>1, <1>3, <1>5 DEF Fixed, Making, Sorting
  <2> QED
    BY <2>2, <1>1 DEF HookInv, TurnInv, Neat, Descending
<1>16. LogInv'
  <2>1. using # gen'
    BY <1>1, <1>2
  <2>2. ListKnown => ListKnown'
    BY <2>1, <1>1, <1>3, <1>5 DEF ListKnown, Awaited, Making, Sorting
  <2> QED
    BY <1>1, <2>2 DEF HookInv, LogInv
<1> QED
  BY <1>10, <1>11, <1>12, <1>13, <1>14, <1>15, <1>16 DEF HookInv

\* Steps of find_plugins, and a sync that ends in an error: the lists stay as they are.
LEMMA SearchStep ==
    ASSUME HookInv, NEW s \in Syncers, NEW r \in SyncRecords, To(s, r), Busy(s),
           r.pc \in {"find", "activate", "save", "idle"},
           r.pc # "idle" => (r.crossed <=> sync[s].crossed),
           active' \subseteq Plugins, dict' = dict, plugins' \in [Gens -> SUBSET Plugins],
           plugins[dict] \subseteq plugins'[dict],
           Lone(s) => /\ sync[s].pc \in {"load", "find", "activate"}
                      /\ r.pc # "save" => saved \intersect active \subseteq active'
                      /\ r.pc # "save" /\ CorePlugin \in active => CorePlugin \in active'
                      /\ active' \subseteq saved \union {CorePlugin}
                      /\ r.pc = "save" => r.removing \notin active',
           UNCHANGED <<installed, saved, listVars, overlapped, partial, turnVars, touched>>
    PROVE  HookInv'
<1>1. /\ installed' = installed /\ saved' = saved /\ overlapped' = overlapped
      /\ gen' = gen /\ hooks' = hooks /\ (hasKey' = hasKey) /\ stage' = stage /\ using' = using /\ idx' = idx
      /\ ran' = ran /\ (clean' = clean) /\ (tangled' = tangled) /\ (partial' = partial) /\ (touched' = touched)
  BY DEF listVars, turnVars
<1>2. HookTypes /\ gen \in Gens /\ using \in 1 .. gen /\ sync \in [Syncers -> SyncRecords] /\ dict \in Gens
  BY DEF HookInv, HookTypes
<1>3. /\ sync' \in [Syncers -> SyncRecords] /\ sync'[s] = r
      /\ \A o \in Syncers : o # s => sync'[o] = sync[o]
  BY <1>2, ToFacts
<1>4. \A o \in Syncers : o # s /\ Busy(o) => sync[o].crossed /\ sync[s].crossed
  BY DEF HookInv, CrossInv
<1>5. sync[s].crossed => gen \in overlapped
  BY DEF HookInv, CrossInv
<1>6. HookTypes'
  BY <1>1, <1>2, <1>3 DEF HookTypes
<1>7. CrossInv'
  <2>1. \A t, o \in Syncers : t # o /\ Busy(t)' /\ Busy(o)' => sync'[t].crossed
    BY <1>3, <1>4 DEF Busy
  <2>2. \A t \in Syncers : Busy(t)' /\ sync'[t].crossed => gen \in overlapped
    BY <1>3, <1>5 DEF Busy, HookInv, CrossInv
  <2>3. \A t \in Syncers : sync'[t].pc = "append" => sync'[t].at \in Plugins
    BY <1>3 DEF HookInv, CrossInv
  <2>4. \A t \in Syncers : sync'[t].pc = "sort" => t # s /\ sync'[t] = sync[t]
    BY <1>3
  <2> QED
    BY <2>1, <2>2, <2>3, <2>4, <1>1 DEF HookInv, CrossInv, Sorting
<1>8. LoneInv'
  <2> SUFFICES ASSUME NEW t \in Syncers, Lone(t)'
               PROVE  LoneOK(t)'
    BY DEF LoneInv
  <2>1. t = s /\ r.pc # "idle" /\ ~sync[s].crossed
    BY <1>3, <1>4 DEF Lone, Busy
  <2>2. Lone(s)
    BY <2>1 DEF Lone
  <2> QED
    BY <2>1, <2>2, <1>1, <1>3 DEF LoneOK, Making, Sorting
<1>9. ListsInv'
  <2>1. ASSUME NEW g \in 1 .. gen, g \notin overlapped,
               g < gen \/ \A t \in Syncers : sync'[t].pc \notin {"fill", "append", "sort"}
        PROVE  Neat(hooks[g])
    <3>1. CASE g < gen
      BY <2>1, <3>1 DEF HookInv, ListsInv
    <3>2. CASE ~(g < gen)
      <4>1. g = gen
        BY <3>2, <1>2 DEF Gens
      <4>2. Lone(s)
        BY <4>1, <2>1, <1>5 DEF Lone
      <4>3. \A t \in Syncers : sync[t].pc \notin {"fill", "append", "sort"}
        BY <4>2, <1>4 DEF Lone, Busy
      <4> QED
        BY <2>1, <4>3 DEF HookInv, ListsInv, Making, Sorting
    <3> QED
      BY <3>1, <3>2
  <2> QED
    BY <2>1, <1>1 DEF HookInv, ListsInv, Making, Sorting, Neat, Descending
<1>10. KnownInv'
  <2> SUFFICES ASSUME gen \notin overlapped PROVE KnownInv'
    BY <1>1 DEF KnownInv
  <2>1. Lone(s)
    BY <1>5 DEF Lone
  <2>2. \A t \in Syncers : t # s => sync[t].pc = "idle" /\ sync'[t].pc = "idle"
    BY <2>1, <1>3, <1>4 DEF Lone, Busy
  <2>3. Range(hooks[gen]) \subseteq active \intersect (saved \union {CorePlugin})
    BY <2>1, <2>2 DEF HookInv, KnownInv
  <2>4. ~partial => Range(hooks[gen]) \subseteq plugins'[dict]
    BY DEF HookInv, KnownInv
  <2>5. r.pc # "save" => Range(hooks[gen]) \subseteq active' \intersect (saved \union {CorePlugin})
    BY <2>1, <2>3
  <2> QED
    BY <1>1, <1>3, <2>2, <2>4, <2>5 DEF KnownInv
<1>11. TurnInv'
  <2>1. Fixed => Fixed'
    BY <1>1, <1>3 DEF Fixed, Making, Sorting
  <2> QED
    BY <1>1, <2>1 DEF HookInv, TurnInv, Neat, Descending
<1>12. LogInv'
  <2>1. ListKnown => ListKnown'
    BY <1>1, <1>3 DEF ListKnown, Awaited, Making, Sorting
  <2> QED
    BY <1>1, <2>1 DEF HookInv, LogInv
<1> QED
  BY <1>6, <1>7, <1>8, <1>9, <1>10, <1>11, <1>12 DEF HookInv

\* A sync fills the newest list, which becomes t, and goes on as r.
LEMMA FillStep ==
    ASSUME HookInv, NEW s \in Syncers, NEW r \in SyncRecords, To(s, r), Making(s), r.pc \in {"fill", "append"},
           r.crossed <=> sync[s].crossed, r.dict = sync[s].dict, r.keys = sync[s].keys,
           r.removing = sync[s].removing, r.pc = "append" => r.at \in Plugins,
           r.left \subseteq Awaited(s), r.pc = "append" => r.at \in Awaited(s),
           NEW t \in Seq(Plugins), hooks' = [hooks EXCEPT ![gen] = t],
           Range(t) \subseteq Range(hooks[gen]) \union Awaited(s),
           hasKey' \in [Gens -> BOOLEAN],
           Lone(s) => /\ IsInjective(t) /\ Range(t) \intersect r.left = {}
                      /\ Range(t) \subseteq plugins[dict] \intersect active
                      /\ r.left \subseteq sync[s].left
                      /\ r.pc = "append" => /\ r.at \in plugins[dict] \intersect active
                                            /\ r.at \notin Range(t) \union r.left
                                            /\ hasKey'[gen],
           UNCHANGED <<pluginVars, gen, overlapped, partial, turnVars, touched>>
    PROVE  HookInv'
<1>1. /\ installed' = installed /\ saved' = saved /\ overlapped' = overlapped /\ active' = active
      /\ dict' = dict /\ plugins' = plugins
      /\ gen' = gen /\ stage' = stage /\ using' = using /\ idx' = idx
      /\ ran' = ran /\ (clean' = clean) /\ (tangled' = tangled) /\ (partial' = partial) /\ (touched' = touched)
  BY DEF pluginVars, turnVars
<1>2. /\ HookTypes /\ gen \in Gens /\ gen \in Nat /\ using \in 1 .. gen /\ sync \in [Syncers -> SyncRecords]
      /\ dict \in Gens /\ using \in Gens /\ \A g \in 1 .. gen : g \in Gens
  <2>1. /\ HookTypes /\ gen \in Gens /\ using \in 1 .. gen /\ sync \in [Syncers -> SyncRecords] /\ dict \in Gens
    BY DEF HookInv, HookTypes
  <2> QED
    BY <2>1, HookAssumption DEF Gens
<1>3. /\ sync' \in [Syncers -> SyncRecords] /\ sync'[s] = r
      /\ \A o \in Syncers : o # s => sync'[o] = sync[o]
  BY <1>2, ToFacts
<1>4. Busy(s)
  BY DEF Making, Busy
<1>5. \A o \in Syncers : o # s /\ Busy(o) => sync[o].crossed /\ sync[s].crossed
  BY <1>4 DEF HookInv, CrossInv
<1>6. sync[s].crossed => gen \in overlapped
  BY <1>4 DEF HookInv, CrossInv
<1>7. /\ hooks' \in [Gens -> Seq(Plugins)] /\ hooks'[gen] = t
      /\ \A g \in Gens : g # gen => hooks'[g] = hooks[g]
  BY <1>2 DEF HookTypes
<1>8. HookTypes'
  BY <1>1, <1>2, <1>3, <1>7 DEF HookTypes
<1>9. CrossInv'
  <2>1. \A u, o \in Syncers : u # o /\ Busy(u)' /\ Busy(o)' => sync'[u].crossed
    BY <1>3, <1>5 DEF Busy
  <2>2. \A u \in Syncers : Busy(u)' /\ sync'[u].crossed => gen \in overlapped
    BY <1>3, <1>6 DEF Busy, HookInv, CrossInv
  <2>3. \A u \in Syncers : sync'[u].pc = "append" => sync'[u].at \in Plugins
    BY <1>3 DEF HookInv, CrossInv
  <2>4. \A u \in Syncers : sync'[u].pc = "sort" => u # s /\ sync'[u] = sync[u]
    BY <1>3
  <2> QED
    BY <2>1, <2>2, <2>3, <2>4, <1>1 DEF HookInv, CrossInv, Sorting
<1>10. LoneInv'
  <2> SUFFICES ASSUME NEW u \in Syncers, Lone(u)'
               PROVE  LoneOK(u)'
    BY DEF LoneInv
  <2>1. u = s /\ ~sync[s].crossed
    BY <1>3, <1>5 DEF Lone, Busy
  <2>2. Lone(s)
    BY <2>1, <1>4 DEF Lone
  <2>3. LoneOK(s)
    BY <2>2 DEF HookInv, LoneInv
  <2> QED
    BY <2>1, <2>2, <2>3, <1>1, <1>3, <1>7 DEF LoneOK, Making, Sorting
<1>11. ListsInv'
  <2>1. ASSUME NEW g \in 1 .. gen, g \notin overlapped, g < gen PROVE Neat(hooks'[g])
    <3>1. Neat(hooks[g])
      BY <2>1 DEF HookInv, ListsInv
    <3>2. hooks'[g] = hooks[g]
      BY <2>1, <1>2, <1>7
    <3> QED
      BY <3>1, <3>2
  <2>2. \A g \in Gens : g > gen => hooks'[g] = <<>>
    BY <1>2, <1>7 DEF HookInv, ListsInv, Gens
  <2>3. Making(s)'
    BY <1>3 DEF Making
  <2> QED
    BY <2>1, <2>2, <2>3, <1>1 DEF ListsInv, Neat, Descending
<1>12. KnownInv'
  <2> SUFFICES ASSUME gen \notin overlapped PROVE KnownInv'
    BY <1>1 DEF KnownInv
  <2>1. Lone(s)
    BY <1>4, <1>6 DEF Lone
  <2>2. \A u \in Syncers : u # s => sync[u].pc = "idle" /\ sync'[u].pc = "idle"
    BY <2>1, <1>3, <1>5 DEF Lone, Busy
  <2>3. active \subseteq saved \union {CorePlugin}
    BY <2>1 DEF HookInv, LoneInv, LoneOK, Making
  <2> QED
    BY <1>1, <1>3, <1>7, <2>1, <2>2, <2>3 DEF KnownInv
<1>13. TurnInv'
  <2>1. Fixed => Fixed' /\ hooks'[using] = hooks[using]
    <3> SUFFICES ASSUME Fixed PROVE Fixed' /\ hooks'[using] = hooks[using]
      OBVIOUS
    <3>1. using < gen /\ \A u \in Syncers : Sorting(u) => sync[u].into # using
      BY DEF Fixed
    <3>2. Fixed'
      BY <3>1, <1>1, <1>3 DEF Fixed, Sorting
    <3> QED
      BY <3>1, <3>2, <1>2, <1>7
  <2> QED
    BY <1>1, <2>1 DEF HookInv, TurnInv, Neat, Descending
<1>14. LogInv'
  <2>1. ListKnown => ListKnown'
    <3> SUFFICES ASSUME ListKnown PROVE ListKnown'
      OBVIOUS
    <3>1. Range(hooks'[using]) \subseteq plugins[dict]
      <4>1. CASE using = gen
        BY <4>1, <1>7 DEF ListKnown
      <4>2. CASE using # gen
        BY <4>2, <1>2, <1>7 DEF ListKnown
      <4> QED
        BY <4>1, <4>2
    <3>2. ASSUME NEW u \in Syncers
          PROVE  /\ Making(u)' /\ using = gen =>
                        Awaited(u)' \subseteq plugins[dict]
                 /\ Sorting(u)' /\ sync'[u].into = using => Range(sync'[u].unsorted) \subseteq plugins[dict]
      <4>1. CASE u = s
        <5>1. Awaited(s)' \subseteq Awaited(s)
          BY <1>3 DEF Awaited
        <5> QED
          BY <4>1, <5>1, <1>3 DEF ListKnown, Sorting
      <4>2. CASE u # s
        BY <4>2, <1>3 DEF ListKnown, Awaited, Sorting, Making
      <4> QED
        BY <4>1, <4>2
    <3> QED
      BY <3>1, <3>2, <1>1 DEF ListKnown
  <2> QED
    BY <1>1, <2>1 DEF HookInv, LogInv
<1> QED
  BY <1>8, <1>9, <1>10, <1>11, <1>12, <1>13, <1>14 DEF HookInv

\* Filling, or an error instead.
LEMMA FillActions ==
    ASSUME HookInv, NEW s \in Syncers, NEW p \in Plugins, Fill(s, p) \/ FillAppend(s) \/ SyncRaises(s)
    PROVE  HookInv'
<1>1. /\ HookTypes /\ gen \in Gens /\ hooks[gen] \in Seq(Plugins) /\ hooks \in [Gens -> Seq(Plugins)]
      /\ sync \in [Syncers -> SyncRecords] /\ sync[s] \in SyncRecords /\ dict \in Gens
      /\ plugins \in [Gens -> SUBSET Plugins] /\ active \subseteq Plugins
  BY DEF HookInv, HookTypes
<1>2. UNCHANGED <<pluginVars, gen, overlapped, partial, turnVars, touched>>
  BY DEF Fill, FillAppend, SyncRaises, listVars
<1>3. Busy(s) /\ Making(s)
  BY DEF Fill, FillAppend, SyncRaises, Busy, Making
<1>4. Lone(s) => LoneOK(s)
  BY DEF HookInv, LoneInv
<1>6. ASSUME To(s, Idle), hooks' = hooks, hasKey' = hasKey, ~Lone(s) PROVE HookInv'
  <2>1. Idle \in SyncRecords /\ Idle.pc = "idle"
    BY RecordFacts
  <2>2. /\ dict' = dict /\ plugins' = plugins /\ active' = active
        /\ UNCHANGED <<installed, saved, listVars, overlapped, partial, turnVars, touched>>
    BY <1>2, <1>6 DEF pluginVars, listVars
  <2> QED
    BY <1>1, <1>3, <1>6, <2>1, <2>2, SearchStep
<1>7. CASE Fill(s, p)
  <2> DEFINE r == IF p \in active /\ p \in ready[sync[s].dict]
                  THEN [sync[s] EXCEPT !.pc = "append", !.at = p, !.left = @ \ {p}]
                  ELSE [sync[s] EXCEPT !.left = @ \ {p}]
  <2>1. To(s, r) /\ sync[s].pc = "fill" /\ p \in sync[s].left /\ hooks' = hooks
    BY <1>7 DEF Fill
  <2>2. r.pc = "append" => p \in active /\ hasKey' = [hasKey EXCEPT ![gen] = TRUE]
    BY <1>7, <2>1, <1>1 DEF Fill, SyncRecords
  <2>3. /\ r \in SyncRecords /\ r.pc \in {"fill", "append"} /\ (r.crossed <=> sync[s].crossed)
        /\ r.dict = sync[s].dict /\ r.keys = sync[s].keys /\ r.removing = sync[s].removing
        /\ r.left = sync[s].left \ {p} /\ (r.pc = "append" => r.at = p)
    BY <1>1, <2>1 DEF SyncRecords
  <2> HIDE DEF r
  <2>4. r.pc = "append" => r.at \in Plugins /\ r.at \in Awaited(s)
    BY <2>1, <2>3 DEF Awaited
  <2>5. r.left \subseteq Awaited(s) /\ Range(hooks[gen]) \subseteq Range(hooks[gen]) \union Awaited(s)
    BY <2>3 DEF Awaited
  <2>6. hooks' = [hooks EXCEPT ![gen] = hooks[gen]]
    BY <2>1, <1>1
  <2>7. Lone(s) => /\ IsInjective(hooks[gen]) /\ Range(hooks[gen]) \intersect r.left = {}
                   /\ Range(hooks[gen]) \subseteq plugins[dict] \intersect active
                   /\ r.left \subseteq sync[s].left
                   /\ r.pc = "append" => /\ r.at \in plugins[dict] \intersect active
                                         /\ r.at \notin Range(hooks[gen]) \union r.left
    BY <1>3, <1>4, <2>1, <2>2, <2>3 DEF LoneOK
  <2>8. Lone(s) /\ r.pc = "append" => hasKey'[gen]
    <3> SUFFICES ASSUME r.pc = "append" PROVE hasKey'[gen]
      OBVIOUS
    <3>1. hasKey \in [Gens -> BOOLEAN]
      BY DEF HookInv, HookTypes
    <3> QED
      BY <2>2, <3>1, <1>1
  <2>9. hasKey' \in [Gens -> BOOLEAN]
    BY <1>7, <1>1 DEF Fill, HookInv, HookTypes
  <2> QED
    BY <1>1, <1>2, <1>3, <2>1, <2>3, <2>4, <2>5, <2>6, <2>7, <2>8, <2>9, FillStep
<1>8. CASE FillAppend(s) /\ ~hasKey[gen]
  <2>1. To(s, Idle) /\ hooks' = hooks /\ hasKey' = hasKey /\ sync[s].pc = "append"
    BY <1>8 DEF FillAppend
  <2>2. ~Lone(s)
    BY <1>4, <1>8, <2>1 DEF LoneOK
  <2> QED
    BY <2>1, <2>2, <1>6
<1>9. CASE FillAppend(s) /\ hasKey[gen]
  <2> DEFINE q == sync[s].at
             t == Append(hooks[gen], q)
             r == [sync[s] EXCEPT !.pc = "fill", !.at = Nothing]
  <2>1. To(s, r) /\ sync[s].pc = "append" /\ hooks' = [hooks EXCEPT ![gen] = t]
    BY <1>9, <1>1 DEF FillAppend
  <2>2. q \in Plugins
    BY <2>1 DEF HookInv, CrossInv
  <2>3. /\ t \in Seq(Plugins) /\ Range(t) = Range(hooks[gen]) \union {q}
        /\ IsInjective(hooks[gen]) /\ q \notin Range(hooks[gen]) => IsInjective(t)
    BY <1>1, <2>2, ListFacts
  <2>4. /\ r \in SyncRecords /\ r.pc = "fill" /\ (r.crossed <=> sync[s].crossed)
        /\ r.dict = sync[s].dict /\ r.keys = sync[s].keys /\ r.removing = sync[s].removing
        /\ r.left = sync[s].left
    BY <1>1, <2>1 DEF SyncRecords
  <2>5. q \in Awaited(s) /\ r.left \subseteq Awaited(s)
    BY <2>1, <2>4 DEF Awaited
  <2> HIDE DEF r, t
  <2>6. Lone(s) => /\ q \in plugins[dict] \intersect active /\ q \notin Range(hooks[gen]) \union sync[s].left
                   /\ IsInjective(hooks[gen]) /\ Range(hooks[gen]) \intersect sync[s].left = {}
    BY <1>3, <1>4, <2>1 DEF LoneOK
  <2>7. Lone(s) => /\ IsInjective(t) /\ Range(t) \intersect r.left = {} /\ r.left \subseteq sync[s].left
    BY <2>3, <2>4, <2>6
  <2>8. Lone(s) => Range(t) \subseteq plugins[dict] \intersect active
    BY <1>3, <1>4, <2>3, <2>6 DEF LoneOK
  <2>9. Range(t) \subseteq Range(hooks[gen]) \union Awaited(s)
    BY <2>3, <2>5
  <2>10. r.pc # "append"
    BY <2>4
  <2>11. hasKey' \in [Gens -> BOOLEAN]
    BY <1>9 DEF FillAppend, HookInv, HookTypes
  <2> HIDE DEF q
  <2> QED
    BY <1>1, <1>2, <1>3, <2>1, <2>3, <2>4, <2>5, <2>7, <2>8, <2>9, <2>10, <2>11, FillStep
<1>10. CASE SyncRaises(s)
  <2>1. To(s, Idle) /\ hooks' = hooks /\ hasKey' = hasKey /\ sync[s].pc = "fill"
    BY <1>10 DEF SyncRaises, listVars
  <2>2. ~Lone(s)
    <3> SUFFICES ASSUME Lone(s) PROVE FALSE
      OBVIOUS
    <3>1. sync[s].dict = dict /\ sync[s].keys = plugins[dict]
      BY <1>3, <1>4 DEF LoneOK
    <3>2. PICK o \in Others(s) : sync[o].pc \in {"fill", "append"}
      BY <1>10, <3>1 DEF SyncRaises
    <3>3. o # s /\ o \in Syncers /\ Busy(o)
      BY <3>2 DEF Others
    <3> QED
      BY <3>3, <1>3 DEF HookInv, CrossInv, Lone
  <2> QED
    BY <2>1, <2>2, <1>6
<1> QED
  BY <1>7, <1>8, <1>9, <1>10

\* A list becomes t: empty while it is sorted, and the sorted one after it.
LEMMA SortStep ==
    ASSUME HookInv, NEW s \in Syncers, NEW r \in SyncRecords, To(s, r), sync[s].pc \in {"fill", "sort"},
           r.pc \in {"idle", "delete", "sort"}, r.pc # "idle" => (r.crossed <=> sync[s].crossed),
           r.pc # "idle" => r.removing = sync[s].removing,
           NEW g \in 1 .. gen, NEW t \in Seq(Plugins), hooks' = [hooks EXCEPT ![g] = t],
           sync[s].pc = "fill" => g = gen, sync[s].pc = "sort" => g = sync[s].into,
           Lone(s) => Neat(t),
           Range(t) \subseteq IF sync[s].pc = "fill" THEN {} ELSE Range(sync[s].unsorted),
           r.pc = "sort" => /\ sync[s].pc = "fill" /\ r.into = g
                            /\ Range(r.unsorted) \subseteq Range(hooks[g])
                            /\ Lone(s) => /\ IsInjective(r.unsorted)
                                          /\ Range(r.unsorted) \subseteq plugins[dict] \intersect active,
           UNCHANGED <<pluginVars, gen, hasKey, overlapped, partial, turnVars, touched>>
    PROVE  HookInv'
<1>1. /\ installed' = installed /\ saved' = saved /\ overlapped' = overlapped /\ active' = active
      /\ dict' = dict /\ plugins' = plugins /\ (hasKey' = hasKey)
      /\ gen' = gen /\ stage' = stage /\ using' = using /\ idx' = idx
      /\ ran' = ran /\ (clean' = clean) /\ (tangled' = tangled) /\ (partial' = partial) /\ (touched' = touched)
  BY DEF pluginVars, turnVars
<1>2. /\ HookTypes /\ gen \in Gens /\ gen \in Nat /\ using \in 1 .. gen /\ sync \in [Syncers -> SyncRecords]
      /\ dict \in Gens /\ using \in Gens /\ g \in Gens /\ \A h \in 1 .. gen : h \in Gens
  <2>1. /\ HookTypes /\ gen \in Gens /\ using \in 1 .. gen /\ sync \in [Syncers -> SyncRecords] /\ dict \in Gens
    BY DEF HookInv, HookTypes
  <2> QED
    BY <2>1, HookAssumption DEF Gens
<1>3. /\ sync' \in [Syncers -> SyncRecords] /\ sync'[s] = r
      /\ \A o \in Syncers : o # s => sync'[o] = sync[o]
  BY <1>2, ToFacts
<1>4. Busy(s)
  BY DEF Busy
<1>5. \A o \in Syncers : o # s /\ Busy(o) => sync[o].crossed /\ sync[s].crossed
  BY <1>4 DEF HookInv, CrossInv
<1>6. sync[s].crossed => gen \in overlapped /\ g \in overlapped
  BY <1>4 DEF HookInv, CrossInv, Sorting
<1>7. Lone(s) => g = gen /\ LoneOK(s)
  BY DEF HookInv, CrossInv, LoneInv, Lone, Sorting
<1>8. /\ hooks' \in [Gens -> Seq(Plugins)] /\ hooks'[g] = t
      /\ \A h \in Gens : h # g => hooks'[h] = hooks[h]
  BY <1>2 DEF HookTypes
<1>9. HookTypes'
  BY <1>1, <1>2, <1>3, <1>8 DEF HookTypes
<1>10. CrossInv'
  <2>1. \A u, o \in Syncers : u # o /\ Busy(u)' /\ Busy(o)' => sync'[u].crossed
    BY <1>3, <1>5 DEF Busy
  <2>2. \A u \in Syncers : Busy(u)' /\ sync'[u].crossed => gen \in overlapped
    BY <1>3, <1>6 DEF Busy, HookInv, CrossInv
  <2>3. \A u \in Syncers : sync'[u].pc = "append" => sync'[u].at \in Plugins
    BY <1>3 DEF HookInv, CrossInv
  <2>4. \A u \in Syncers : u # s => sync'[u] = sync[u]
    BY <1>3
  <2>5. Sorting(s)' => /\ sync'[s].into \in 1 .. gen
                       /\ sync'[s].crossed => sync'[s].into \in overlapped
                       /\ ~sync'[s].crossed => sync'[s].into = gen
    BY <1>3, <1>6 DEF Sorting
  <2> QED
    BY <2>1, <2>2, <2>3, <2>4, <2>5, <1>1 DEF HookInv, CrossInv, Sorting
<1>11. LoneInv'
  <2> SUFFICES ASSUME NEW u \in Syncers, Lone(u)'
               PROVE  LoneOK(u)'
    BY DEF LoneInv
  <2>1. u = s /\ ~sync[s].crossed /\ r.pc # "idle"
    BY <1>3, <1>5 DEF Lone, Busy
  <2>2. Lone(s)
    BY <2>1, <1>4 DEF Lone
  <2> QED
    BY <2>1, <2>2, <1>1, <1>3, <1>7 DEF LoneOK, Making, Sorting
<1>12. ListsInv'
  <2>1. ASSUME NEW h \in 1 .. gen, h \notin overlapped PROVE (h = g /\ Lone(s)) \/ (h < gen /\ h # g)
    BY <2>1, <1>2, <1>4, <1>6, <1>7 DEF Lone
  <2>2. ASSUME NEW h \in 1 .. gen, h \notin overlapped PROVE Neat(hooks'[h])
    <3>1. CASE h = g /\ Lone(s)
      BY <3>1, <1>8
    <3>2. CASE h < gen /\ h # g
      <4>1. Neat(hooks[h]) /\ h \in Gens
        BY <3>2, <2>2, <1>2 DEF HookInv, ListsInv
      <4> QED
        BY <3>2, <4>1, <1>8
    <3> QED
      BY <3>1, <3>2, <2>1, <2>2
  <2>3. \A h \in Gens : h > gen => hooks'[h] = <<>>
    BY <1>2, <1>8 DEF HookInv, ListsInv, Gens
  <2> QED
    BY <2>2, <2>3, <1>1 DEF ListsInv, Neat, Descending
<1>13. KnownInv'
  <2> SUFFICES ASSUME gen \notin overlapped PROVE KnownInv'
    BY <1>1 DEF KnownInv
  <2>1. Lone(s)
    BY <1>4, <1>6 DEF Lone
  <2>2. \A u \in Syncers : u # s => sync[u].pc = "idle" /\ sync'[u].pc = "idle"
    BY <2>1, <1>3, <1>5 DEF Lone, Busy
  <2>3. active \subseteq saved \union {CorePlugin} /\ sync[s].removing \notin active
    BY <1>7, <2>1 DEF LoneOK
  <2>4. Range(t) \subseteq plugins[dict] \intersect active
    BY <1>7, <2>1 DEF LoneOK, Sorting
  <2> QED
    BY <1>1, <1>3, <1>7, <1>8, <2>1, <2>2, <2>3, <2>4 DEF KnownInv
<1>14. TurnInv'
  <2>1. Fixed => Fixed' /\ hooks'[using] = hooks[using]
    <3> SUFFICES ASSUME Fixed PROVE Fixed' /\ hooks'[using] = hooks[using]
      OBVIOUS
    <3>1. g # using
      BY <1>2 DEF Fixed, Making, Sorting
    <3>2. Fixed'
      BY <3>1, <1>1, <1>3 DEF Fixed, Making, Sorting
    <3> QED
      BY <3>1, <3>2, <1>2, <1>8
  <2> QED
    BY <1>1, <2>1 DEF HookInv, TurnInv, Neat, Descending
<1>15. LogInv'
  <2>1. ListKnown => ListKnown'
    <3> SUFFICES ASSUME ListKnown PROVE ListKnown'
      OBVIOUS
    <3>1. Range(hooks'[using]) \subseteq plugins[dict]
      <4>1. CASE using = g
        BY <4>1, <1>8 DEF ListKnown, Sorting
      <4>2. CASE using # g
        BY <4>2, <1>2, <1>8 DEF ListKnown
      <4> QED
        BY <4>1, <4>2
    <3>2. ASSUME NEW u \in Syncers
          PROVE  /\ Making(u)' /\ using = gen => Awaited(u)' \subseteq plugins[dict]
                 /\ Sorting(u)' /\ sync'[u].into = using => Range(sync'[u].unsorted) \subseteq plugins[dict]
      <4>1. CASE u = s
        BY <4>1, <1>3 DEF ListKnown, Sorting, Making
      <4>2. CASE u # s
        BY <4>2, <1>3 DEF ListKnown, Awaited, Sorting, Making
      <4> QED
        BY <4>1, <4>2
    <3> QED
      BY <3>1, <3>2, <1>1 DEF ListKnown
  <2> QED
    BY <1>1, <2>1 DEF HookInv, LogInv
<1> QED
  BY <1>9, <1>10, <1>11, <1>12, <1>13, <1>14, <1>15 DEF HookInv

\* After a sync, the syncer is idle, or about to remove the plugin it uninstalls.
LEMMA AfterFacts ==
    ASSUME NEW q \in SyncRecords, NEW r \in AfterSync(q)
    PROVE  /\ r \in SyncRecords /\ r.pc \in {"idle", "delete"}
           /\ r.pc # "idle" => (r.crossed <=> q.crossed) /\ r.removing = q.removing /\ r.removing \in Plugins
<1>1. CASE r = Idle
  BY <1>1, RecordFacts
<1>2. CASE r # Idle
  <2>1. /\ r = [Idle EXCEPT !.pc = "delete", !.removing = q.removing, !.crossed = q.crossed]
        /\ q.removing # Nothing
    BY <1>2 DEF AfterSync
  <2>2. Idle \in SyncRecords
    BY RecordFacts
  <2>3. q.removing \in Plugins /\ q.crossed \in BOOLEAN
    BY <2>1 DEF SyncRecords
  <2> QED
    BY <2>1, <2>2, <2>3 DEF SyncRecords
<1> QED
  BY <1>1, <1>2

\* The sort empties the newest list, and fills it again by priority.
LEMMA SortActions ==
    ASSUME HookInv, NEW s \in Syncers, SortBegins(s) \/ SortEnds(s)
    PROVE  HookInv'
<1>1. /\ HookTypes /\ gen \in Gens /\ hooks[gen] \in Seq(Plugins) /\ hooks \in [Gens -> Seq(Plugins)]
      /\ sync \in [Syncers -> SyncRecords] /\ sync[s] \in SyncRecords /\ gen \in Nat
  BY HookAssumption DEF HookInv, HookTypes, Gens
<1>2. UNCHANGED <<pluginVars, gen, hasKey, overlapped, partial, turnVars, touched>>
  BY DEF SortBegins, SortEnds
<1>3. Lone(s) => LoneOK(s)
  BY DEF HookInv, LoneInv
<1>4. /\ gen \in 1 .. gen /\ Range(<<>>) = {} /\ Neat(<<>>) /\ <<>> \in Seq(Plugins)
  <2>1. <<>> \in Seq(Plugins)
    OBVIOUS
  <2>2. gen \in 1 .. gen
    BY <1>1, HookAssumption DEF Gens
  <2> QED
    BY <2>1, <2>2, ListFacts
<1>5. CASE SortBegins(s) /\ hooks[gen] = <<>>
  <2>1. sync[s].pc = "fill" /\ hooks' = hooks
    BY <1>5 DEF SortBegins
  <2>2. PICK r \in AfterSync(sync[s]) : To(s, r)
    BY <1>5 DEF SortBegins
  <2>3. /\ r \in SyncRecords /\ r.pc \in {"idle", "delete"}
        /\ r.pc # "idle" => (r.crossed <=> sync[s].crossed) /\ r.removing = sync[s].removing
    BY <1>1, AfterFacts
  <2>4. hooks' = [hooks EXCEPT ![gen] = <<>>]
    BY <2>1, <1>1, <1>5
  <2> QED
    BY <1>2, <1>4, <2>1, <2>2, <2>3, <2>4, SortStep
<1>6. CASE SortBegins(s) /\ hooks[gen] # <<>>
  <2> DEFINE r == [sync[s] EXCEPT !.pc = "sort", !.into = gen, !.unsorted = hooks[gen]]
  <2>1. /\ sync[s].pc = "fill" /\ To(s, r) /\ hooks' = [hooks EXCEPT ![gen] = <<>>]
        /\ plugins[sync[s].dict] = sync[s].keys
    BY <1>6 DEF SortBegins
  <2>2. /\ r \in SyncRecords /\ r.pc = "sort" /\ (r.crossed <=> sync[s].crossed)
        /\ r.removing = sync[s].removing /\ r.into = gen /\ r.unsorted = hooks[gen]
    BY <1>1 DEF SyncRecords
  <2>3. Lone(s) => /\ IsInjective(hooks[gen])
                   /\ Range(hooks[gen]) \subseteq plugins[dict] \intersect active
    BY <1>3, <2>1 DEF LoneOK, Making
  <2> HIDE DEF r
  <2> QED
    BY <1>2, <1>4, <2>1, <2>2, <2>3, SortStep
<1>7. CASE SortEnds(s)
  <2> DEFINE g == sync[s].into
             q == sync[s].unsorted
             t == ByPriority(q)
  <2>1. sync[s].pc = "sort" /\ hooks' = [hooks EXCEPT ![g] = t]
    BY <1>7 DEF SortEnds
  <2>2. PICK r \in AfterSync(sync[s]) : To(s, r)
    BY <1>7 DEF SortEnds, AfterSync
  <2>3. /\ r \in SyncRecords /\ r.pc \in {"idle", "delete"}
        /\ r.pc # "idle" => (r.crossed <=> sync[s].crossed) /\ r.removing = sync[s].removing
    BY <1>1, AfterFacts
  <2>4. g \in 1 .. gen /\ q \in Seq(Plugins)
    BY <1>1, <2>1 DEF HookInv, CrossInv, Sorting, SyncRecords
  <2>5. t \in Seq(Plugins) /\ Range(t) \subseteq Range(q) /\ (IsInjective(q) => Neat(t))
    BY <2>4, SortFacts
  <2>6. Lone(s) => Neat(t)
    BY <1>3, <2>1, <2>5 DEF LoneOK, Sorting
  <2> HIDE DEF t
  <2> QED
    BY <1>2, <2>1, <2>2, <2>3, <2>4, <2>5, <2>6, SortStep
<1> QED
  BY <1>5, <1>6, <1>7

\* The end of uninstall_plugin.
LEMMA RemoveAction ==
    ASSUME HookInv, NEW s \in Syncers, Uninstalled(s)
    PROVE  HookInv'
<1>1. /\ dict' = dict /\ active' = active /\ saved' = saved /\ gen' = gen /\ hooks' = hooks /\ hasKey' = hasKey
      /\ overlapped' = overlapped /\ (partial' = partial) /\ stage' = stage /\ using' = using /\ idx' = idx
      /\ ran' = ran /\ (clean' = clean) /\ (tangled' = tangled)
      /\ sync[s].pc = "delete" /\ To(s, Idle)
  BY DEF Uninstalled, listVars, turnVars
<1>2. /\ HookTypes /\ gen \in Gens /\ using \in 1 .. gen /\ sync \in [Syncers -> SyncRecords] /\ dict \in Gens
      /\ plugins \in [Gens -> SUBSET Plugins] /\ Idle \in SyncRecords /\ Idle.pc = "idle"
  BY RecordFacts DEF HookInv, HookTypes
<1> DEFINE q == sync[s].removing
<1>3. /\ installed' \subseteq Plugins /\ plugins' \in [Gens -> SUBSET Plugins]
      /\ plugins[dict] \ {q} \subseteq plugins'[dict]
      /\ plugins' = plugins \/ touched'
      /\ touched => touched'
  BY <1>2 DEF Uninstalled, HookTypes
<1>4. /\ sync' \in [Syncers -> SyncRecords] /\ sync'[s] = Idle
      /\ \A o \in Syncers : o # s => sync'[o] = sync[o]
  BY <1>1, <1>2, ToFacts
<1>5. Busy(s)
  BY <1>1 DEF Busy
<1>6. \A o \in Syncers : o # s /\ Busy(o) => sync[o].crossed /\ sync[s].crossed
  BY <1>5 DEF HookInv, CrossInv
<1>7. sync[s].crossed => gen \in overlapped
  BY <1>5 DEF HookInv, CrossInv
<1>8. HookTypes'
  BY <1>1, <1>2, <1>3, <1>4 DEF HookTypes
<1>9. \A t \in Syncers : sync'[t].pc # "idle" => t # s /\ sync'[t] = sync[t] /\ sync[t].crossed
  BY <1>2, <1>4, <1>6 DEF Busy
<1>10. CrossInv'
  BY <1>1, <1>2, <1>9 DEF HookInv, CrossInv, Busy, Sorting
<1>11. LoneInv'
  BY <1>9 DEF LoneInv, Lone, Busy
<1>12. ListsInv'
  <2>1. \A t \in Syncers : (Making(t) \/ Sorting(t)) => (Making(t) \/ Sorting(t))'
    BY <1>1, <1>4 DEF Making, Sorting
  <2>2. ASSUME NEW g \in 1 .. gen, g \notin overlapped,
               g < gen \/ \A t \in Syncers : ~Making(t)' /\ ~Sorting(t)'
        PROVE  Neat(hooks[g])
    BY <2>1, <2>2 DEF HookInv, ListsInv
  <2> QED
    BY <2>2, <1>1 DEF HookInv, ListsInv, Neat, Descending
<1>13. KnownInv'
  <2> SUFFICES ASSUME gen \notin overlapped PROVE KnownInv'
    BY <1>1 DEF KnownInv
  <2>1. \A t \in Syncers : sync'[t].pc = "idle" /\ (t # s => sync[t].pc = "idle")
    BY <1>2, <1>4, <1>6, <1>7 DEF Busy
  <2>2. Range(hooks[gen]) \subseteq active \intersect (saved \union {CorePlugin}) /\ q \notin Range(hooks[gen])
    BY <2>1, <1>1 DEF HookInv, KnownInv
  <2>3. ~partial => Range(hooks[gen]) \subseteq plugins'[dict]
    BY <2>2, <1>3 DEF HookInv, KnownInv
  <2> QED
    BY <2>1, <2>2, <2>3, <1>1 DEF KnownInv
<1>14. TurnInv'
  <2>1. Fixed => Fixed'
    BY <1>1, <1>4, <1>9 DEF Fixed, Making, Sorting
  <2> QED
    BY <1>1, <2>1 DEF HookInv, TurnInv, Neat, Descending
<1>15. LogInv'
  <2>1. ListKnown /\ plugins' = plugins => ListKnown'
    BY <1>1, <1>4, <1>9 DEF ListKnown, Awaited, Making, Sorting
  <2> QED
    BY <1>1, <1>3, <2>1 DEF HookInv, LogInv
<1> QED
  BY <1>8, <1>10, <1>11, <1>12, <1>13, <1>14, <1>15 DEF HookInv

\* The calls of the event loop, and find_plugins, begin.
LEMMA StartActions ==
    ASSUME HookInv, NEW p \in Plugins, NEW s \in Syncers,
           toggle_plugin(p) \/ uninstall_plugin(p) \/ find_plugins(s)
    PROVE  HookInv'
<1>1. Loop \in Syncers /\ active \subseteq Plugins /\ Nothing \notin Plugins /\ dict \in Gens /\ MaxSyncs \in Nat
  BY HookAssumption DEF HookInv, HookTypes
<1>2. CASE toggle_plugin(p)
  <2> DEFINE r == [Idle EXCEPT !.pc = "save"]
  <2>1. r \in SyncRecords /\ r.pc = "save" /\ r.removing = Nothing
    BY RecordFacts DEF Idle
  <2>2. /\ Starts(Loop, r) /\ plugins' = plugins /\ dict' = dict /\ (partial' = partial) /\ (touched' = touched)
        /\ UNCHANGED <<installed, saved, listVars, turnVars>>
    BY <1>2 DEF toggle_plugin
  <2>3. active' \subseteq Plugins
    BY <1>1, <1>2 DEF toggle_plugin, Switch
  <2>4. r.removing \notin active'
    BY <1>1, <2>1, <2>3
  <2> HIDE DEF r
  <2> QED
    BY <1>1, <2>1, <2>2, <2>3, <2>4, StartStep
<1>3. CASE uninstall_plugin(p)
  <2> DEFINE r == [Idle EXCEPT !.pc = IF p \in active THEN "save" ELSE "delete", !.removing = p]
  <2>1. r \in SyncRecords /\ r.pc = (IF p \in active THEN "save" ELSE "delete") /\ r.removing = p
    BY RecordFacts DEF Idle
  <2>2. /\ Starts(Loop, r) /\ plugins' = plugins /\ dict' = dict /\ (partial' = partial) /\ (touched' = touched)
        /\ UNCHANGED <<installed, saved, listVars, turnVars>>
    BY <1>3 DEF uninstall_plugin
  <2>3. active' = IF p \in active THEN active \ {p} ELSE active
    BY <1>3 DEF uninstall_plugin, Switch
  <2> HIDE DEF r
  <2> QED
    BY <1>1, <2>1, <2>2, <2>3, StartStep
<1>4. CASE find_plugins(s)
  <2> DEFINE r == [Idle EXCEPT !.pc = "load"]
  <2>1. r \in SyncRecords /\ r.pc = "load"
    BY RecordFacts DEF Idle
  <2>2. /\ Starts(s, r) /\ plugins' = plugins /\ active' = active /\ partial' /\ touched'
        /\ UNCHANGED <<installed, saved, listVars, turnVars>>
    BY <1>4 DEF find_plugins
  <2>3. dict' \in Gens
    BY <1>1, <1>4 DEF find_plugins, Gens
  <2> HIDE DEF r
  <2> QED
    BY <1>1, <2>1, <2>2, <2>3, StartStep
<1> QED
  BY <1>2, <1>3, <1>4

\* The saved list and the plugins that are found lead to a sync.
LEMMA ResetActions ==
    ASSUME HookInv, NEW s \in Syncers, SaveActive(s) \/ Found(s)
    PROVE  HookInv'
<1>1. /\ active \subseteq Plugins /\ saved \subseteq Plugins /\ sync[s] \in SyncRecords
      /\ Nothing \notin Plugins /\ CorePlugin \in Plugins
  BY HookAssumption DEF HookInv, HookTypes
<1>2. Lone(s) => LoneOK(s)
  BY DEF HookInv, LoneInv
<1>3. CASE SaveActive(s)
  <2>1. /\ Reset(s, sync[s].removing) /\ sync[s].pc = "save" /\ saved' = active
        /\ UNCHANGED <<installed, dict, plugins, active, turnVars, touched>>
    BY <1>3 DEF SaveActive
  <2>2. sync[s].removing \in Plugins \union {Nothing}
    BY <1>1 DEF SyncRecords
  <2>3. Lone(s) => active \subseteq saved' \union {CorePlugin} /\ sync[s].removing \notin active
    BY <1>2, <2>1 DEF LoneOK
  <2> QED
    BY <1>1, <2>1, <2>2, <2>3, ResetStep
<1>4. CASE Found(s)
  <2>1. /\ Reset(s, Nothing) /\ sync[s].pc = "find" /\ saved' = saved
        /\ UNCHANGED <<installed, dict, plugins, active, turnVars, touched>>
    BY <1>4 DEF Found, pluginVars
  <2>2. Lone(s) => active \subseteq saved' \union {CorePlugin} /\ Nothing \notin active
    BY <1>1, <1>2, <2>1 DEF LoneOK
  <2> QED
    BY <1>1, <2>1, <2>2, ResetStep
<1> QED
  BY <1>3, <1>4

\* find_plugins goes through the folders.
LEMMA SearchActions ==
    ASSUME HookInv, NEW s \in Syncers, NEW p \in Plugins,
           load_active_plugins_from_db(s) \/ load_plugin(s, p) \/ Activate(s)
    PROVE  HookInv'
<1>1. /\ active \subseteq Plugins /\ saved \subseteq Plugins /\ installed \subseteq Plugins
      /\ sync[s] \in SyncRecords /\ dict \in Gens /\ plugins \in [Gens -> SUBSET Plugins]
      /\ Nothing \notin Plugins /\ CorePlugin \in Plugins /\ sync[s].crossed \in BOOLEAN
      /\ plugins[dict] \in SUBSET Plugins
  BY HookAssumption DEF HookInv, HookTypes, SyncRecords
<1>2. Lone(s) => LoneOK(s)
  BY DEF HookInv, LoneInv
<1>3. UNCHANGED <<installed, saved, listVars, overlapped, partial, turnVars, touched>> /\ dict' = dict
  BY DEF load_active_plugins_from_db, load_plugin, Activate
<1>4. Busy(s)
  BY DEF load_active_plugins_from_db, load_plugin, Activate, Busy
<1>5. CASE load_active_plugins_from_db(s)
  <2> DEFINE r == [[Idle EXCEPT !.pc = "find", !.left = installed] EXCEPT !.crossed = sync[s].crossed]
  <2>1. /\ To(s, r) /\ sync[s].pc = "load" /\ active' = saved \union {CorePlugin} /\ plugins' = plugins
    BY <1>5 DEF load_active_plugins_from_db, On
  <2>2. r \in SyncRecords /\ r.pc = "find" /\ (r.crossed <=> sync[s].crossed)
    <3>1. Idle \in SyncRecords
      BY RecordFacts
    <3> QED
      BY <1>1, <3>1 DEF SyncRecords, Idle
  <2> HIDE DEF r
  <2> QED
    BY <1>1, <1>3, <1>4, <2>1, <2>2, SearchStep
<1>6. CASE load_plugin(s, p)
  <2> DEFINE r == [sync[s] EXCEPT !.pc = IF p \in active THEN "activate" ELSE "find",
                                  !.at = p, !.left = @ \ {p}]
  <2>1. To(s, r) /\ sync[s].pc = "find" /\ active' = active
    BY <1>6 DEF load_plugin
  <2>2. plugins' \in [Gens -> SUBSET Plugins] /\ plugins[dict] \subseteq plugins'[dict]
    BY <1>1, <1>6 DEF load_plugin
  <2>3. r \in SyncRecords /\ r.pc \in {"find", "activate"} /\ (r.crossed <=> sync[s].crossed)
    BY <1>1 DEF SyncRecords
  <2>4. Lone(s) => active \subseteq saved \union {CorePlugin}
    BY <1>2, <2>1 DEF LoneOK
  <2> HIDE DEF r
  <2> QED
    BY <1>1, <1>3, <1>4, <2>1, <2>2, <2>3, <2>4, SearchStep
<1>7. CASE Activate(s)
  <2> DEFINE q == sync[s].at
  <2>1. sync[s].pc = "activate" /\ plugins' = plugins
    BY <1>7 DEF Activate
  <2>2. Lone(s) => active \subseteq saved \union {CorePlugin}
    BY <1>2, <2>1 DEF LoneOK
  <2>3. CASE To(s, [sync[s] EXCEPT !.pc = "find", !.at = Nothing]) /\ active' = active
    <3> DEFINE r == [sync[s] EXCEPT !.pc = "find", !.at = Nothing]
    <3>1. r \in SyncRecords /\ r.pc = "find" /\ (r.crossed <=> sync[s].crossed)
      BY <1>1 DEF SyncRecords
    <3>2. To(s, r)
      BY <2>3
    <3> HIDE DEF r
    <3> QED
      BY <1>1, <1>3, <1>4, <2>1, <2>2, <2>3, <3>1, <3>2, SearchStep
  <2>4. CASE q \in active /\ Switch(q) /\ On(s, [Idle EXCEPT !.pc = "save"])
    <3> DEFINE r == [[Idle EXCEPT !.pc = "save"] EXCEPT !.crossed = sync[s].crossed]
    <3>1. r \in SyncRecords /\ r.pc = "save" /\ r.removing = Nothing /\ (r.crossed <=> sync[s].crossed)
      <4>1. Idle \in SyncRecords
        BY RecordFacts
      <4> QED
        BY <1>1, <4>1 DEF SyncRecords, Idle
    <3>2. To(s, r)
      BY <2>4 DEF On
    <3>3. active' = active \ {q}
      BY <2>4 DEF Switch
    <3> HIDE DEF r, q
    <3> QED
      BY <1>1, <1>3, <1>4, <2>1, <2>2, <3>1, <3>2, <3>3, SearchStep
  <2>5. CASE To(s, Idle) /\ active' = active
    <3>1. Idle \in SyncRecords /\ Idle.pc = "idle"
      BY RecordFacts
    <3> QED
      BY <1>1, <1>3, <1>4, <2>1, <2>2, <2>5, <3>1, SearchStep
  <2> QED
    BY <1>7, <2>3, <2>4, <2>5 DEF Activate
<1> QED
  BY <1>5, <1>6, <1>7


\* What the turn does.
LEMMA TurnActions ==
    ASSUME HookInv, Begin \/ Check \/ Take \/ Pipe \/ Return
    PROVE  HookInv'
<1>1. /\ installed' = installed /\ dict' = dict /\ plugins' = plugins /\ active' = active /\ saved' = saved
      /\ gen' = gen /\ hooks' = hooks /\ hasKey' = hasKey /\ sync' = sync /\ overlapped' = overlapped
      /\ (partial' = partial)
  BY DEF Begin, Check, Take, Pipe, Return, syncVars, pluginVars, listVars
<1>2. /\ HookTypes /\ gen \in Nat /\ using \in Gens /\ hooks[using] \in Seq(Plugins)
      /\ Len(hooks[using]) \in Nat /\ gen \in 1 .. gen /\ idx \in Nat \ {0} /\ ran \in Seq(Plugins)
      /\ gen \in Gens /\ hooks[gen] \in Seq(Plugins) /\ Len(hooks[gen]) \in Nat
  <2>1. /\ HookTypes /\ gen \in Gens /\ using \in 1 .. gen /\ hooks \in [Gens -> Seq(Plugins)]
        /\ idx \in Nat \ {0} /\ ran \in Seq(Plugins)
    BY DEF HookInv, HookTypes
  <2>2. gen \in Nat /\ gen \in 1 .. gen /\ using \in Gens
    BY <2>1, HookAssumption DEF Gens
  <2>3. hooks[using] \in Seq(Plugins) /\ hooks[gen] \in Seq(Plugins)
    BY <2>1, <2>2
  <2> QED
    BY <2>1, <2>2, <2>3
<1>3. CrossInv' /\ LoneInv' /\ ListsInv' /\ KnownInv'
  <2>1. CrossInv'
    BY <1>1 DEF HookInv, CrossInv, Busy, Sorting
  <2>2. LoneInv'
    <3>1. \A s \in Syncers : Lone(s)' => Lone(s)
      BY <1>1 DEF Lone, Busy
    <3>2. \A s \in Syncers : LoneOK(s) => LoneOK(s)'
      BY <1>1 DEF LoneOK, Making, Sorting
    <3> QED
      BY <3>1, <3>2 DEF HookInv, LoneInv
  <2>3. ListsInv'
    BY <1>1 DEF HookInv, ListsInv, Neat, Descending, Making, Sorting
  <2>4. KnownInv'
    BY <1>1 DEF HookInv, KnownInv
  <2> QED
    BY <2>1, <2>2, <2>3, <2>4
<1>4. CASE Begin
  <2>1. /\ stage' = "check" /\ ran' = <<>> /\ idx' = 1 /\ clean' = FALSE /\ using' = using
        /\ (touched' <=> partial) /\ <<>> \in Seq(Plugins)
    BY <1>4 DEF Begin
  <2>2. HookTypes'
    BY <1>1, <1>2, <2>1 DEF HookTypes
  <2>3. TurnInv' /\ LogInv'
    BY <1>1, <2>1 DEF TurnInv, LogInv
  <2> QED
    BY <1>3, <2>2, <2>3 DEF HookInv
<1>5. CASE Check
  <2>1. /\ stage = "check" /\ stage' \in {"take", "not_present"} /\ using' = using /\ idx' = idx
        /\ ran' = ran /\ (clean' <=> clean) /\ (tangled' <=> tangled) /\ (touched' <=> touched)
    BY <1>5 DEF Check
  <2>2. HookTypes'
    BY <1>1, <1>2, <2>1 DEF HookTypes
  <2>3. TurnInv' /\ LogInv'
    BY <1>1, <2>1 DEF HookInv, TurnInv, LogInv
  <2> QED
    BY <1>3, <2>2, <2>3 DEF HookInv
<1>6. CASE Take
  <2>1. /\ stage = "take" /\ stage' \in {"pipe", "not_present"} /\ using' = gen /\ idx' = idx
        /\ ran' = ran /\ (clean' <=> \A s \in Syncers : ~Busy(s)) /\ (tangled' <=> gen \in overlapped)
        /\ (touched' <=> touched)
    BY <1>6 DEF Take
  <2>2. HookTypes'
    BY <1>1, <1>2, <2>1 DEF HookTypes
  <2>3. ran = <<>> /\ idx = 1 /\ Len(ran) = 0
    BY <1>2, <2>1 DEF HookInv, TurnInv
  <2>4. TurnInv'
    <3> SUFFICES ASSUME clean', ~tangled', stage' = "pipe"
                 PROVE  Fixed' /\ Neat(hooks[gen])
      BY <1>1, <1>2, <2>1, <2>3 DEF TurnInv, Neat, Descending
    <3>1. \A s \in Syncers : sync[s].pc = "idle"
      BY <2>1 DEF Busy
    <3>2. \A s \in Syncers : ~Making(s) /\ ~Sorting(s)
      BY <3>1 DEF Making, Sorting
    <3>3. Neat(hooks[gen])
      BY <3>2, <2>1, <1>2 DEF HookInv, ListsInv
    <3>4. Fixed'
      BY <3>1, <1>1 DEF Fixed, Making, Sorting
    <3> QED
      BY <3>3, <3>4
  <2>5. LogInv'
    <3> SUFFICES ASSUME ~touched, gen \notin overlapped PROVE ~partial /\ ListKnown'
      BY <1>1, <2>1 DEF HookInv, LogInv
    <3>1. ~partial /\ Range(hooks[gen]) \subseteq plugins[dict]
      BY <2>1 DEF HookInv, LogInv, KnownInv
    <3>2. ASSUME NEW s \in Syncers, Making(s) \/ Sorting(s) PROVE LoneOK(s)
      <4>1. Busy(s)
        BY <3>2 DEF Making, Sorting, Busy
      <4> QED
        BY <4>1 DEF HookInv, CrossInv, LoneInv, Lone
    <3>3. ASSUME NEW s \in Syncers, Making(s) PROVE Awaited(s) \subseteq plugins[dict]
      BY <3>2, <3>3 DEF LoneOK, Awaited
    <3>4. ASSUME NEW s \in Syncers, Sorting(s) PROVE Range(sync[s].unsorted) \subseteq plugins[dict]
      BY <3>2, <3>4 DEF LoneOK
    <3> QED
      BY <3>1, <3>3, <3>4, <1>1, <2>1 DEF ListKnown, Making, Sorting, Awaited
  <2> QED
    BY <1>3, <2>2, <2>4, <2>5 DEF HookInv
<1>7. CASE Pipe
  <2> DEFINE h == hooks[using][idx]
  <2>1. /\ stage = "pipe" /\ idx <= Len(hooks[using]) /\ ran' = Append(ran, h) /\ idx' = idx + 1
        /\ stage' = "pipe" \/ (h \notin plugins[dict] /\ stage' = "aborted")
        /\ using' = using /\ (clean' <=> clean) /\ (tangled' <=> tangled) /\ (touched' <=> touched)
    BY <1>7 DEF Pipe
  <2>2. h \in Plugins /\ h \in Range(hooks[using])
    BY <1>2, <2>1, ListFacts
  <2> HIDE DEF h
  <2>3. /\ ran' \in Seq(Plugins) /\ Len(ran') = Len(ran) + 1 /\ ran'[Len(ran) + 1] = h
        /\ \A i \in 1 .. Len(ran) : ran'[i] = ran[i]
    BY <1>2, <2>1, <2>2
  <2>4. HookTypes'
    BY <1>1, <1>2, <2>1, <2>3 DEF HookTypes
  <2>5. TurnInv'
    <3> SUFFICES ASSUME clean, ~tangled, stage' = "pipe"
                 PROVE  /\ Fixed' /\ Neat(hooks[using])
                        /\ idx' = Len(ran') + 1 /\ Len(ran') <= Len(hooks[using])
                        /\ \A i \in 1 .. Len(ran') : ran'[i] = hooks[using][i]
      BY <1>1, <2>1 DEF TurnInv, Neat, Descending
    <3>1. /\ Fixed /\ Neat(hooks[using])
          /\ idx = Len(ran) + 1 /\ \A i \in 1 .. Len(ran) : ran[i] = hooks[using][i]
      BY <2>1 DEF HookInv, TurnInv
    <3>2. Fixed'
      BY <3>1, <1>1, <2>1 DEF Fixed, Making, Sorting
    <3>3. ASSUME NEW i \in 1 .. Len(ran') PROVE ran'[i] = hooks[using][i]
      <4>1. CASE i = Len(ran) + 1
        BY <4>1, <2>3, <3>1 DEF h
      <4>2. CASE i \in 1 .. Len(ran)
        BY <4>2, <2>3, <3>1
      <4> QED
        BY <4>1, <4>2, <2>3, <1>2
    <3> QED
      BY <3>1, <3>2, <3>3, <2>1, <2>3, <1>2
  <2>6. LogInv'
    <3>1. ListKnown => ListKnown' /\ h \in plugins[dict]
      BY <1>1, <2>1, <2>2 DEF ListKnown, Making, Sorting, Awaited
    <3> QED
      BY <1>1, <2>1, <3>1 DEF HookInv, LogInv
  <2> QED
    BY <1>3, <2>4, <2>5, <2>6 DEF HookInv
<1>8. CASE Return
  <2>1. /\ stage = "pipe" /\ idx > Len(hooks[using]) /\ stage' = "done"
        /\ using' = using /\ idx' = idx /\ ran' = ran /\ (clean' <=> clean) /\ (tangled' <=> tangled)
        /\ (touched' <=> touched)
    BY <1>8 DEF Return
  <2>2. HookTypes'
    BY <1>1, <1>2, <2>1 DEF HookTypes
  <2>3. clean /\ ~tangled => Len(ran) = Len(hooks[using])
    BY <1>2, <2>1 DEF HookInv, TurnInv
  <2>4. Fixed => Fixed'
    BY <1>1, <2>1 DEF Fixed, Making, Sorting
  <2>5. TurnInv'
    BY <1>1, <2>1, <2>3, <2>4 DEF HookInv, TurnInv, Neat, Descending
  <2>6. LogInv'
    BY <1>1, <2>1 DEF HookInv, LogInv
  <2> QED
    BY <1>3, <2>2, <2>5, <2>6 DEF HookInv
<1> QED
  BY <1>4, <1>5, <1>6, <1>7, <1>8

\* Every step keeps the invariant.
LEMMA HookInduction == HookInv /\ [HookNext]_hookVars => HookInv'
<1> SUFFICES ASSUME HookInv, [HookNext]_hookVars PROVE HookInv'
  OBVIOUS
<1>1. CASE UNCHANGED hookVars
  <2>1. /\ installed' = installed /\ dict' = dict /\ plugins' = plugins /\ active' = active /\ saved' = saved
        /\ gen' = gen /\ hooks' = hooks /\ hasKey' = hasKey /\ sync' = sync /\ overlapped' = overlapped
        /\ partial' = partial /\ stage' = stage /\ using' = using /\ idx' = idx /\ ran' = ran
        /\ clean' = clean /\ tangled' = tangled /\ touched' = touched
    BY <1>1 DEF hookVars, syncVars, turnVars, pluginVars, listVars
  <2>2. HookTypes' /\ CrossInv'
    BY <2>1 DEF HookInv, HookTypes, CrossInv, Busy, Sorting
  <2>3. LoneInv'
    <3>1. \A s \in Syncers : Lone(s)' => Lone(s)
      BY <2>1 DEF Lone, Busy
    <3>2. \A s \in Syncers : LoneOK(s) => LoneOK(s)'
      BY <2>1 DEF LoneOK, Making, Sorting
    <3> QED
      BY <3>1, <3>2 DEF HookInv, LoneInv
  <2>4. ListsInv' /\ KnownInv'
    BY <2>1 DEF HookInv, ListsInv, Neat, Descending, Making, Sorting, KnownInv
  <2>5. (Fixed => Fixed') /\ (ListKnown => ListKnown')
    BY <2>1 DEF Fixed, ListKnown, Making, Sorting, Awaited
  <2>6. TurnInv' /\ LogInv'
    BY <2>1, <2>5 DEF HookInv, TurnInv, LogInv, Neat, Descending
  <2> QED
    BY <2>2, <2>3, <2>4, <2>6 DEF HookInv
<1>2. ASSUME NEW p \in Plugins, toggle_plugin(p) \/ uninstall_plugin(p)
      PROVE  HookInv'
  BY <1>2, HookAssumption, StartActions
<1>3. ASSUME NEW s \in Syncers, SyncStep(s) PROVE HookInv'
  <2>1. CASE find_plugins(s)
    BY <2>1, HookAssumption, StartActions
  <2>2. CASE load_active_plugins_from_db(s) \/ Activate(s)
    BY <2>2, HookAssumption, SearchActions
  <2>3. ASSUME NEW p \in Plugins, load_plugin(s, p) \/ Fill(s, p) PROVE HookInv'
    BY <2>3, SearchActions, FillActions
  <2>4. CASE Found(s) \/ SaveActive(s)
    BY <2>4, ResetActions
  <2>5. CASE FillAppend(s) \/ SyncRaises(s)
    BY <2>5, HookAssumption, FillActions
  <2>6. CASE SortBegins(s) \/ SortEnds(s)
    BY <2>6, SortActions
  <2>7. CASE Uninstalled(s)
    BY <2>7, RemoveAction
  <2> QED
    BY <1>3, <2>1, <2>2, <2>3, <2>4, <2>5, <2>6, <2>7 DEF SyncStep
<1>4. CASE Begin \/ Check \/ Take \/ Pipe \/ Return
  BY <1>4, TurnActions
<1> QED
  BY <1>1, <1>2, <1>3, <1>4 DEF HookNext

\* The invariant holds for any plugins, priorities, threads and number of syncs.
THEOREM HookInvariant == HookSpec => []HookInv
BY HookStart, HookInduction, PTL DEF HookSpec

\* A turn that took its list while no sync was running, a list that no two operations
\* had a hand in, calls each hook of it once and by priority, whatever the manager does
\* meanwhile.
THEOREM PipesAreSnapshots == HookSpec => []SnapshotPipe
<1>1. HookInv => SnapshotPipe
  <2> SUFFICES ASSUME HookInv, stage = "done", clean, ~tangled
               PROVE  /\ ran = hooks[using] /\ IsInjective(ran)
                      /\ \A i, j \in DOMAIN ran : i < j => Priority[ran[i]] >= Priority[ran[j]]
    BY DEF SnapshotPipe
  <2>1. /\ Len(ran) = Len(hooks[using]) /\ ran \in Seq(Plugins) /\ Neat(hooks[using])
        /\ \A i \in 1 .. Len(ran) : ran[i] = hooks[using][i]
    BY DEF HookInv, TurnInv, HookTypes
  <2>2. hooks[using] \in Seq(Plugins)
    <3>1. gen \in Gens /\ using \in 1 .. gen /\ hooks \in [Gens -> Seq(Plugins)]
      BY DEF HookInv, HookTypes
    <3> QED
      BY <3>1, HookAssumption DEF Gens
  <2>3. ran = hooks[using]
    BY <2>1, <2>2
  <2>4. DOMAIN ran = 1 .. Len(ran)
    BY <2>1
  <2> QED
    BY <2>1, <2>3, <2>4 DEF Neat, Descending
<1> QED
  BY <1>1, HookInvariant, PTL

\* A hook that raises ends the turn only if the manager lost a plugin since it began, or
\* the turn's list was made while operations overlapped.
THEOREM RaisesAreContained == HookSpec => []RaiseIsContained
<1>1. HookInv => RaiseIsContained
  BY DEF HookInv, LogInv, RaiseIsContained
<1> QED
  BY <1>1, HookInvariant, PTL

-----------------------------------------------------------------------------
(* SETTINGS.  Any threads, requests and settings, up to the first crossing.*)

\* Fields of the locals.
Fields == {"op", "arg", "pc", "ret", "name", "found", "dict", "todo", "buf", "stale"}

\* Operations that change users.
Edits == {"create_user", "update_user", "delete_user"}

\* The users u after the operation.
Edited(op, arg, u) ==
    CASE op = "create_user" -> u \union {arg}
      [] op = "update_user" -> {v \in u : v.id # arg.id} \union {arg}
      [] op = "delete_user" -> {v \in u : v.id # arg}

\* Thread s has changed the dictionary o and has not saved it yet.
Editing(s, o) == thread[s].dict = o /\ thread[s].pc # "edit"

\* A table: documents with a name and a value under positive ids.
Table(docs) ==
    /\ \E n \in Nat : DOMAIN docs \subseteq 1 .. n
    /\ \A i \in DOMAIN docs : DOMAIN docs[i] = {"name", "value"}

\* A write is not finished: the cache is that of the file before it.
Cutting == \E s \in Threads : thread[s].pc = "truncate"

\* The table holds the values last saved.
DocsInv ==
    /\ Named(file, "users") # {} => Value(file, "users") = users
    /\ Named(file, "users") = {} => users = {}
    /\ ~shadowed => Value(file, "other") = other
    /\ Named(file, "other") = {} <=> other = Absent
    /\ Named(file, "id") = {}

\* The file can be read, and is cut off but for a write that is not finished.
FileInv ==
    /\ readable = TRUE
    /\ Table(file)
    /\ DocsInv
    /\ excess => Cutting

\* What refers to an object, as users and as the other setting.
AsUsers(o) ==
    \/ o = queries["users"]
    \/ \E s \in Threads : thread[s].dict = o \/ (thread[s].found = o /\ thread[s].name = "users")

\* The same for the other setting.
AsOther(o) ==
    \/ o = queries["other"]
    \/ \E s \in Threads : thread[s].found = o /\ thread[s].name = "other"

\* An object of the users is as in the file, or a thread is changing it.
Current(o) ==
    /\ Named(file, "users") # {}
    /\ objects[o] = users \/ \E s \in Threads : Editing(s, o)

\* The other setting as last saved, perhaps with the core plugin.
OtherOK(v) == ~shadowed => v = other \/ v = other \union {Core}

\* The cached results are those of the file.
CacheGood ==
    /\ \A n \in Names : /\ queries[n] = Absent => Named(file, n) = {}
                        /\ queries[n] \in Results => Named(file, n) # {}
    /\ queries["other"] \in Results => OtherOK(objects[queries["other"]])
    /\ queries["users"] \in Results => Current(queries["users"])

\* No object is both users and another setting, and cached results are good but for a write that is not finished.
CacheInv ==
    /\ DOMAIN objects = Results
    /\ DOMAIN queries = Names
    /\ \A n \in Names : queries[n] \in {Miss, Absent} \union Results
    /\ \A o \in Results : ~(AsUsers(o) /\ AsOther(o))
    /\ ~Cutting => CacheGood

\* Steps of a lookup.
Lookups == {"search", "seek", "load", "cache"}
\* Steps of an update.
Updates == {"seek_update", "load_update", "seek_write", "write"}

\* Where a thread is: in a request of its own, in a lookup for one of the steps, or
\* behind a write that it finishes.  What it has read and means to save is right
\* unless it is stale.
Asking(r) ==
    \/ r.pc = "idle" /\ r.dict = Absent
    \/ /\ \E ret \in {"got", "created", "again"} : r.ret = ret /\ r.pc \in Lookups \union {ret}
       /\ r.name = "users" /\ r.op \in Edits \union {"read_users"} /\ r.dict = Absent
    \/ /\ r.pc \in Lookups \union {"upsert"} /\ r.ret = "upsert" /\ r.name = "users"
       /\ r.op \in Edits \union {"read_users"} /\ r.dict = Absent /\ r.todo = Defaults
    \/ /\ r.pc \in Lookups \union {"upsert"} /\ r.ret = "upsert" /\ r.name = "users"
       /\ r.op \in Edits /\ r.dict \in Results
       /\ ~r.stale => r.todo = Edited(r.op, r.arg, users)
    \/ /\ r.pc \in Lookups \union {"upsert"} /\ r.ret = "upsert" /\ r.name = "other"
       /\ r.op = "upsert" /\ r.dict = Absent /\ r.arg \in Values
    \/ /\ r.pc \in Lookups \union {"loaded"} /\ r.ret = "loaded" /\ r.name = "other"
       /\ r.op = "load_plugins" /\ r.dict = Absent
    \/ /\ r.pc = "edit" /\ r.name = "users" /\ r.op \in Edits \union {"read_users"}
       /\ r.dict \in Results
    \/ /\ r.pc \in Lookups \union {"done"} /\ r.ret = "done"
       /\ r.op \in Edits \union {"upsert", "insert", "remove"} /\ r.dict = Absent
    \/ /\ r.pc \in {"truncate", "seek", "load", "cache", "defaults"} /\ r.ret = "defaults"
       /\ r.pc \notin {"truncate", "defaults"} => r.name = "id"
       /\ r.op \in Edits \union {"read_users"} /\ r.dict = Absent
    \/ /\ r.pc \in {"truncate", "seek", "load", "cache", "saved"} /\ r.ret = "saved"
       /\ r.pc \notin {"truncate", "saved"} => r.name = "id"
       /\ r.op \in Edits /\ r.dict = Absent
    \/ /\ r.pc \in {"truncate", "seek", "load", "cache", "written"} /\ r.ret = "written"
       /\ r.pc \notin {"truncate", "written"} => r.name = "id"
       /\ r.op = "upsert" /\ r.dict = Absent
    \/ /\ r.pc = "truncate" /\ r.ret = "done" /\ r.op \in {"insert", "remove"} /\ r.dict = Absent

\* The change of an update: its kind fits the file.
Fits(r) ==
    /\ r.todo.kind \in {"insert", "update"}
    /\ ~r.stale => (r.todo.kind = "insert" <=> Named(file, r.todo.name) = {})

\* A thread in an update: what it writes is what its request asks for.
Updating(r) ==
    /\ r.pc \in Updates
    /\ \/ /\ r.ret = "saved" /\ r.op \in Edits /\ r.dict \in Results
          /\ r.todo.name = "users" /\ Fits(r)
          /\ ~r.stale => r.todo.value = Edited(r.op, r.arg, users)
       \/ /\ r.ret = "defaults" /\ r.op \in Edits \union {"read_users"} /\ r.dict = Absent
          /\ r.todo.name = "users" /\ Fits(r) /\ r.todo.value = Defaults
       \/ /\ r.ret = "written" /\ r.op = "upsert" /\ r.dict = Absent
          /\ r.todo.name = "other" /\ Fits(r) /\ r.todo.value = r.arg /\ r.arg \in Values
       \/ /\ r.ret = "done" /\ r.op = "insert" /\ r.dict = Absent
          /\ r.todo.kind = "insert" /\ r.todo.name = "other" /\ r.todo.value = r.arg /\ r.arg \in Values
       \/ /\ r.ret = "done" /\ r.op = "remove" /\ r.dict = Absent
          /\ r.todo.kind = "remove" /\ r.todo.name = "other"
    /\ r.pc \in {"seek_write", "write"} /\ ~r.stale => r.buf = file

\* What a thread has found.
FoundOK(r) ==
    /\ r.found \in {Absent} \union Results
    /\ r.name = "id" => r.found = Absent
    /\ r.pc \in {"idle", "truncate", "defaults", "saved", "written"} => r.found = Absent
    /\ r.pc \in {"search", "seek", "load"} => r.found \in {Absent, r.dict}
    /\ r.pc = "edit" => r.found = r.dict
    /\ r.pc \in {"cache", "upsert"} /\ ~r.stale => (r.found = Absent <=> Named(file, r.name) = {})
    /\ r.pc \in {"got", "again"} /\ r.found \in Results /\ ~r.stale => Current(r.found)
    /\ r.pc = "edit" /\ ~r.stale => Current(r.dict)

\* An object that is not cached yet belongs to the thread that has loaded it.
Private(t) ==
    LET r == thread[t]
    IN  r.pc = "cache" /\ r.found \in Results =>
            /\ \A n \in Names : queries[n] # r.found
            /\ \A s \in Threads : thread[s].dict # r.found /\ (s # t => thread[s].found # r.found)
            /\ ~r.stale => objects[r.found] = Value(file, r.name)

\* The locals of a thread.
LocalsOK(r) ==
    /\ DOMAIN r = Fields
    /\ r.stale \in BOOLEAN
    /\ r.name \in Names \union {"id"}
    /\ r.pc = "search" => r.name \in Names
    /\ Asking(r) \/ Updating(r)
    /\ FoundOK(r)

\* (q names the locals, so that a prime of LocalsOK(q) is one of the rest of the state.)
ThreadInv ==
    /\ DOMAIN thread = Threads
    /\ \A t \in Threads : \A q \in {thread[t]} : LocalsOK(q)
    /\ \A t \in Threads : Private(t)

\* Of the open file.
Positions == {"start", "written", "end"}

\* What holds before the first crossing or failure.
SettingsGood == FileInv /\ CacheInv /\ ThreadInv

\* The inductive invariant of Settings.
SettingsInv ==
    /\ crossed \in BOOLEAN /\ failed \in BOOLEAN /\ position \in Positions
    /\ ~crossed /\ ~failed => SettingsGood

-----------------------------------------------------------------------------
(* Documents *)

\* The first document of a name is the one that counts.
LEMMA FirstValue ==
    ASSUME NEW docs, NEW m, DOMAIN docs \subseteq Nat,
           NEW i \in Named(docs, m), \A j \in Named(docs, m) : i <= j
    PROVE  Value(docs, m) = docs[i].value
<1>1. Named(docs, m) \in SUBSET Nat /\ Named(docs, m) # {}
  BY DEF Named
<1>2. Min(Named(docs, m)) \in Named(docs, m) /\ \A y \in Named(docs, m) : Min(Named(docs, m)) <= y
  BY <1>1, MinFacts
<1>3. Min(Named(docs, m)) = i
  <2> DEFINE k == Min(Named(docs, m))
  <2>1. k \in Nat /\ i \in Nat /\ k <= i /\ i <= k
    BY <1>1, <1>2
  <2> QED
    BY <2>1
<1> QED
  BY <1>1, <1>3 DEF Value

\* Two tables with the same documents of a name agree on its value.
LEMMA SameValue ==
    ASSUME NEW docs, NEW after, NEW m, DOMAIN docs \subseteq Nat, DOMAIN after \subseteq Nat,
           Named(after, m) = Named(docs, m),
           \A i \in Named(docs, m) : after[i].value = docs[i].value
    PROVE  Value(after, m) = Value(docs, m)
<1>1. CASE Named(docs, m) = {}
  BY <1>1 DEF Value
<1>2. CASE Named(docs, m) # {}
  <2>1. Named(docs, m) \in SUBSET Nat
    BY DEF Named
  <2>2. PICK i \in Named(docs, m) : \A j \in Named(docs, m) : i <= j
    BY <1>2, <2>1, LeastNatural
  <2>3. Value(docs, m) = docs[i].value
    BY <2>2, FirstValue
  <2>4. Value(after, m) = after[i].value
    BY <2>2, FirstValue
  <2> QED
    BY <2>2, <2>3, <2>4
<1> QED
  BY <1>1, <1>2

\* An insertion adds a document behind all others.
LEMMA InsertFacts ==
    ASSUME NEW docs, Table(docs), NEW todo, todo.kind = "insert"
    PROVE  LET after == Changed(docs, todo)
           IN  /\ Table(after)
               /\ Named(after, todo.name) # {}
               /\ Named(docs, todo.name) = {} => Value(after, todo.name) = todo.value
               /\ Named(docs, todo.name) # {} => Value(after, todo.name) = Value(docs, todo.name)
               /\ \A m : m # todo.name => Named(after, m) = Named(docs, m) /\ Value(after, m) = Value(docs, m)
<1> DEFINE k == NextId(docs)
           d == [name |-> todo.name, value |-> todo.value]
           after == [i \in DOMAIN docs \union {k} |-> IF i \in DOMAIN docs THEN docs[i] ELSE d]
<1>1. Changed(docs, todo) = after
  BY DEF Changed
<1>2. PICK n \in Nat : DOMAIN docs \subseteq 1 .. n
  BY DEF Table
<1>3. k \in Nat /\ k >= 1 /\ \A i \in DOMAIN docs : i < k
  <2> DEFINE S == DOMAIN docs \union {0}
  <2>1. S \in SUBSET (0 .. n) /\ S # {}
    BY <1>2
  <2>2. Max(S) \in S /\ \A y \in S : y <= Max(S)
    BY <2>1, MaxFacts
  <2>3. Max(S) \in Nat /\ k = Max(S) + 1
    BY <2>1, <2>2 DEF NextId
  <2>4. \A i \in DOMAIN docs : i \in Nat /\ i <= Max(S)
    BY <1>2, <2>2
  <2> HIDE DEF S, k
  <2> QED
    BY <2>3, <2>4
<1> HIDE DEF k
<1>4. d.name = todo.name /\ d.value = todo.value /\ DOMAIN d = {"name", "value"}
  OBVIOUS
<1> HIDE DEF d
<1>5. /\ DOMAIN after = DOMAIN docs \union {k} /\ k \notin DOMAIN docs /\ after[k] = d
      /\ \A i \in DOMAIN docs : after[i] = docs[i]
  BY <1>2, <1>3
<1> HIDE DEF after
<1>6. DOMAIN docs \subseteq Nat /\ DOMAIN after \subseteq Nat
  BY <1>2, <1>3, <1>5
<1>7. Table(after)
  <2>1. DOMAIN after \subseteq 1 .. k
    BY <1>2, <1>3, <1>5
  <2> QED
    BY <2>1, <1>3, <1>4, <1>5 DEF Table
<1>8. /\ Named(after, todo.name) = Named(docs, todo.name) \union {k}
      /\ \A m : m # todo.name => Named(after, m) = Named(docs, m)
  BY <1>4, <1>5 DEF Named
<1>9. ASSUME NEW m, m # todo.name PROVE Value(after, m) = Value(docs, m)
  <2>1. \A i \in Named(docs, m) : after[i].value = docs[i].value
    BY <1>5 DEF Named
  <2> QED
    BY <2>1, <1>6, <1>8, <1>9, SameValue
<1>10. ASSUME Named(docs, todo.name) = {} PROVE Value(after, todo.name) = todo.value
  <2>1. k \in Named(after, todo.name) /\ \A j \in Named(after, todo.name) : k <= j
    BY <1>3, <1>8, <1>10
  <2> QED
    BY <2>1, <1>4, <1>5, <1>6, FirstValue
<1>11. ASSUME Named(docs, todo.name) # {} PROVE Value(after, todo.name) = Value(docs, todo.name)
  <2>1. Named(docs, todo.name) \in SUBSET Nat /\ Named(docs, todo.name) \subseteq DOMAIN docs
    BY <1>6 DEF Named
  <2>2. PICK i \in Named(docs, todo.name) : \A j \in Named(docs, todo.name) : i <= j
    BY <1>11, <2>1, LeastNatural
  <2>3. Value(docs, todo.name) = docs[i].value
    BY <2>2, <1>6, FirstValue
  <2>4. i \in Named(after, todo.name) /\ i < k /\ i \in Nat
    BY <2>1, <2>2, <1>3, <1>8
  <2>5. \A j \in Named(after, todo.name) : i <= j
    BY <2>2, <2>4, <1>3, <1>8
  <2>6. Value(after, todo.name) = after[i].value
    BY <2>4, <2>5, <1>6, FirstValue
  <2> QED
    BY <2>1, <2>2, <2>3, <2>6, <1>5
<1> QED
  BY <1>1, <1>7, <1>8, <1>9, <1>10, <1>11

\* An update gives all documents of the name the value.
LEMMA UpdateFactsDb ==
    ASSUME NEW docs, Table(docs), NEW todo, todo.kind = "update"
    PROVE  LET after == Changed(docs, todo)
           IN  /\ Table(after)
               /\ \A m : Named(after, m) = Named(docs, m)
               /\ Named(docs, todo.name) # {} => Value(after, todo.name) = todo.value
               /\ \A m : m # todo.name => Value(after, m) = Value(docs, m)
<1> DEFINE after == [i \in DOMAIN docs |-> IF docs[i].name = todo.name
                                           THEN [docs[i] EXCEPT !.value = todo.value] ELSE docs[i]]
<1>1. Changed(docs, todo) = after
  BY DEF Changed
<1>2. DOMAIN after = DOMAIN docs /\ DOMAIN docs \subseteq Nat
  BY DEF Table
<1>3. ASSUME NEW i \in DOMAIN docs
      PROVE  /\ DOMAIN after[i] = {"name", "value"} /\ after[i].name = docs[i].name
             /\ docs[i].name = todo.name => after[i].value = todo.value
             /\ docs[i].name # todo.name => after[i].value = docs[i].value
  BY DEF Table
<1> HIDE DEF after
<1>4. Table(after)
  BY <1>2, <1>3 DEF Table
<1>5. \A m : Named(after, m) = Named(docs, m)
  BY <1>2, <1>3 DEF Named
<1>6. ASSUME NEW m, m # todo.name PROVE Value(after, m) = Value(docs, m)
  <2>1. \A i \in Named(docs, m) : after[i].value = docs[i].value
    BY <1>3, <1>6 DEF Named
  <2> QED
    BY <2>1, <1>2, <1>5, SameValue
<1>7. ASSUME Named(docs, todo.name) # {} PROVE Value(after, todo.name) = todo.value
  <2>1. Named(after, todo.name) \in SUBSET Nat /\ Named(after, todo.name) # {}
    BY <1>2, <1>5, <1>7 DEF Named
  <2>2. PICK i \in Named(after, todo.name) : \A j \in Named(after, todo.name) : i <= j
    BY <2>1, LeastNatural
  <2>3. Value(after, todo.name) = after[i].value
    BY <2>2, <1>2, FirstValue
  <2>4. i \in DOMAIN docs /\ docs[i].name = todo.name
    BY <2>2, <1>5 DEF Named
  <2> QED
    BY <2>3, <2>4, <1>3
<1> QED
  BY <1>1, <1>4, <1>5, <1>6, <1>7

\* A removal takes all documents of the name.
LEMMA RemoveFacts ==
    ASSUME NEW docs, Table(docs), NEW todo, todo.kind = "remove"
    PROVE  LET after == Changed(docs, todo)
           IN  /\ Table(after)
               /\ Named(after, todo.name) = {} /\ Value(after, todo.name) = Absent
               /\ \A m : m # todo.name => Named(after, m) = Named(docs, m) /\ Value(after, m) = Value(docs, m)
<1> DEFINE S == DOMAIN docs \ Named(docs, todo.name)
           after == [i \in S |-> docs[i]]
<1>1. Changed(docs, todo) = after
  BY DEF Changed, Restrict
<1>2. DOMAIN after = S /\ DOMAIN docs \subseteq Nat /\ \A i \in S : after[i] = docs[i]
  BY DEF Table
<1>3. \A i : i \in S <=> i \in DOMAIN docs /\ docs[i].name # todo.name
  BY DEF Named
<1> HIDE DEF after, S
<1>4. DOMAIN after \subseteq DOMAIN docs /\ DOMAIN after \subseteq Nat
  BY <1>2, <1>3
<1>5. Table(after)
  BY <1>2, <1>4 DEF Table
<1>6. Named(after, todo.name) = {} /\ \A m : m # todo.name => Named(after, m) = Named(docs, m)
  BY <1>2, <1>3 DEF Named
<1>7. ASSUME NEW m, m # todo.name PROVE Value(after, m) = Value(docs, m)
  <2>1. \A i \in Named(docs, m) : after[i].value = docs[i].value
    BY <1>2, <1>3, <1>7 DEF Named
  <2> QED
    BY <2>1, <1>2, <1>4, <1>6, <1>7, SameValue
<1>8. Value(after, todo.name) = Absent
  BY <1>6 DEF Value
<1> QED
  BY <1>1, <1>5, <1>6, <1>7, <1>8

-----------------------------------------------------------------------------
(* Objects *)

\* Objects that are referred to are live.
LEMMA LiveFacts ==
    ASSUME NEW s \in Threads, NEW n \in Names
    PROVE  queries[n] \in Live /\ thread[s].found \in Live /\ thread[s].dict \in Live
<1>1. {thread[s].found, thread[s].dict} \in {{thread[t].found, thread[t].dict} : t \in Threads}
  OBVIOUS
<1>2. thread[s].found \in {thread[s].found, thread[s].dict} /\ thread[s].dict \in {thread[s].found, thread[s].dict}
  OBVIOUS
<1>3. queries[n] \in {queries[m] : m \in Names}
  OBVIOUS
<1> QED
  BY <1>1, <1>2, <1>3 DEF Live

\* A thread that has found nothing but its dictionary leaves an object free.
LEMMA NewResultFacts ==
    ASSUME NEW t \in Threads, thread[t].found \in {Absent, thread[t].dict}
    PROVE  NewResult \in Results /\ NewResult \notin Live
<1> DEFINE k == Cardinality(Threads)
           P == Threads \X {"found", "dict"}
           Q == P \ {<<t, "found">>}
           S1 == Results \ {queries["users"]}
           S == S1 \ {queries["other"]}
<1>1. k \in Nat /\ IsFiniteSet(Threads) /\ Absent \notin Results
  <2>1. k \in Nat /\ IsFiniteSet(Threads)
    BY SettingsAssumption, FS_CardinalityType
  <2>2. Results \subseteq Nat
    BY <2>1 DEF Results
  <2> QED
    BY <2>1, <2>2, SettingsAssumption
<1>2. IsFiniteSet(Results) /\ Cardinality(Results) = 2 * k + 2
  <2> DEFINE m == 2 * k + 2
  <2>1. 1 \in Int /\ m \in Int /\ ~(1 > m) /\ Results = 1 .. m /\ m - 1 + 1 = 2 * k + 2
    BY <1>1 DEF Results
  <2> HIDE DEF m, k
  <2> QED
    BY <2>1, FS_Interval
<1>3. IsFiniteSet(Q) /\ Cardinality(Q) = 2 * k - 1
  <2>1. IsFiniteSet({"found", "dict"}) /\ Cardinality({"found", "dict"}) = 2
    <3>1. {"found", "dict"} = {"found"} \union {"dict"}
      OBVIOUS
    <3>2. IsFiniteSet({"found"}) /\ Cardinality({"found"}) = 1
      BY FS_Singleton
    <3>3. /\ IsFiniteSet({"found"} \union {"dict"})
          /\ Cardinality({"found"} \union {"dict"}) =
                IF "dict" \in {"found"} THEN Cardinality({"found"}) ELSE Cardinality({"found"}) + 1
      BY <3>2, FS_AddElement
    <3> QED
      BY <3>1, <3>2, <3>3
  <2>2. IsFiniteSet(P) /\ Cardinality(P) = k * 2
    BY <1>1, <2>1, FS_Product
  <2>3. <<t, "found">> \in P
    OBVIOUS
  <2> HIDE DEF P, k
  <2>4. IsFiniteSet(Q) /\ Cardinality(Q) = Cardinality(P) - 1
    BY <2>2, <2>3, FS_RemoveElement
  <2> QED
    BY <2>2, <2>4, <1>1
<1> HIDE DEF k
<1>4. IsFiniteSet(S) /\ Cardinality(S) >= 2 * k /\ Cardinality(S) \in Nat
  <2>1. /\ IsFiniteSet(S1)
        /\ Cardinality(S1) = IF queries["users"] \in Results THEN Cardinality(Results) - 1 ELSE Cardinality(Results)
    BY <1>2, FS_RemoveElement
  <2> HIDE DEF S1
  <2>2. /\ IsFiniteSet(S)
        /\ Cardinality(S) = IF queries["other"] \in S1 THEN Cardinality(S1) - 1 ELSE Cardinality(S1)
    BY <2>1, FS_RemoveElement
  <2>3. Cardinality(S) \in Nat
    BY <2>2, FS_CardinalityType
  <2> HIDE DEF S
  <2> QED
    BY <2>1, <2>2, <2>3, <1>1, <1>2
<1>5. \E o \in Results : o \notin Live
  <2> SUFFICES ASSUME \A o \in Results : o \in Live PROVE FALSE
    OBVIOUS
  <2> DEFINE At(h, o) == \/ h[2] = "found" /\ thread[h[1]].found = o
                         \/ h[2] = "dict" /\ thread[h[1]].dict = o
             holder == [o \in S |-> CHOOSE h \in Q : At(h, o)]
  <2>1. ASSUME NEW o \in S PROVE \E h \in Q : At(h, o)
    <3>1. o \in Results /\ o # queries["users"] /\ o # queries["other"] /\ o # Absent
      BY <2>1, <1>1
    <3>2. PICK s \in Threads : o = thread[s].found \/ o = thread[s].dict
      BY <3>1 DEF Live, Names
    <3>3. CASE o = thread[s].dict
      <4>1. <<s, "dict">> \in Q /\ At(<<s, "dict">>, o)
        BY <3>3
      <4> QED
        BY <4>1
    <3>4. CASE o = thread[s].found /\ s # t
      <4>1. <<s, "found">> \in Q /\ At(<<s, "found">>, o)
        BY <3>4
      <4> QED
        BY <4>1
    <3>5. CASE o = thread[s].found /\ s = t
      <4>1. o = thread[t].dict
        BY <3>1, <3>5
      <4>2. <<t, "dict">> \in Q /\ At(<<t, "dict">>, o)
        BY <4>1
      <4> QED
        BY <4>2
    <3> QED
      BY <3>2, <3>3, <3>4, <3>5
  <2>2. \A o \in S : holder[o] \in Q /\ At(holder[o], o)
    BY <2>1
  <2>3. holder \in [S -> Q]
    BY <2>2
  <2> HIDE DEF holder, S, Q
  <2>4. Cardinality(Q) < Cardinality(S)
    BY <1>1, <1>3, <1>4
  <2>5. PICK x \in S, y \in S : x # y /\ holder[x] = holder[y]
    BY <1>3, <1>4, <2>3, <2>4, FS_PigeonHole
  <2>6. At(holder[x], x) /\ At(holder[x], y)
    BY <2>2, <2>5
  <2> QED
    BY <2>5, <2>6
<1> QED
  BY <1>5 DEF NewResult

\* Names of constants that are none of the objects.
LEMMA SettingsConstants ==
    /\ Absent \notin Results /\ Miss \notin Results /\ Miss # Absent /\ Results \subseteq Nat
    /\ Names = {"users", "other"}
<1>1. Cardinality(Threads) \in Nat
  BY SettingsAssumption, FS_CardinalityType
<1>2. Results \subseteq Nat
  BY <1>1 DEF Results
<1> QED
  BY <1>2, SettingsAssumption DEF Names

\* Who edits is in the middle of saving users.
LEMMA EditingFacts ==
    ASSUME ThreadInv, NEW s \in Threads, NEW o \in Results, Editing(s, o)
    PROVE  thread[s].op \in Edits /\ thread[s].pc \notin {"idle", "truncate", "got", "created", "again", "loaded", "done",
                                                             "defaults", "saved", "written"}
<1>1. thread[s].dict \in Results /\ thread[s].dict # Absent /\ thread[s].pc # "edit"
  BY SettingsConstants DEF Editing
<1>2. Asking(thread[s]) \/ Updating(thread[s])
  BY DEF ThreadInv, LocalsOK
<1> QED
  BY <1>1, <1>2 DEF Asking, Updating, Lookups, Updates

\* Locals stay right while the file is left alone and their objects stay current.
LEMMA LocalsKept ==
    ASSUME NEW q, LocalsOK(q), UNCHANGED <<file, users>>,
           \A o \in Results : (o = q.dict \/ q.name = "users") /\ o \in {q.found, q.dict} /\ Current(o)
                             => Current(o)'
    PROVE  LocalsOK(q)'
<1>1. Asking(q)' <=> Asking(q)
  BY DEF Asking
<1>2. Updating(q)' <=> Updating(q)
  BY DEF Updating, Fits
<1>3. /\ q.pc = "edit" => q.dict \in Results
      /\ q.pc \in {"got", "again"} => q.name = "users"
  BY DEF LocalsOK, Asking, Updating, Lookups, Updates
<1>4. /\ q.pc \in {"got", "again"} /\ q.found \in Results /\ ~q.stale => Current(q.found)'
      /\ q.pc = "edit" /\ ~q.stale => Current(q.dict)'
  BY <1>3 DEF LocalsOK, FoundOK
<1>5. FoundOK(q)'
  BY <1>4 DEF LocalsOK, FoundOK
<1> QED
  BY <1>1, <1>2, <1>5 DEF LocalsOK

\* The locals of a thread.
LEMMA Locals ==
    ASSUME SettingsGood, NEW t \in Threads
    PROVE  /\ DOMAIN thread[t] = Fields /\ LocalsOK(thread[t])
           /\ Asking(thread[t]) \/ Updating(thread[t])
           /\ FoundOK(thread[t]) /\ thread[t].stale \in BOOLEAN
           /\ thread[t].name \in Names \union {"id"}
BY DEF SettingsGood, ThreadInv, LocalsOK

\* The locals of an idle thread.
LEMMA RestingLocals ==
    /\ DOMAIN Resting = Fields /\ LocalsOK(Resting)
    /\ Resting.pc = "idle" /\ Resting.found = Absent /\ Resting.dict = Absent /\ Resting.stale = FALSE
<1>1. /\ DOMAIN Resting = Fields /\ Resting.pc = "idle" /\ Resting.found = Absent /\ Resting.dict = Absent
      /\ Resting.stale = FALSE /\ Resting.name = "users"
  BY DEF Resting, Fields
<1>2. Asking(Resting) /\ FoundOK(Resting)
  BY <1>1 DEF Asking, FoundOK
<1> QED
  BY <1>1, <1>2 DEF LocalsOK, Names

\* A write is finished by its own thread.
LEMMA CuttingKept ==
    ASSUME NEW t \in Threads, thread[t].pc # "truncate", thread'[t].pc # "truncate",
           \A s \in Threads \ {t} : thread'[s] = thread[s]
    PROVE  Cutting' <=> Cutting
<1>1. ASSUME NEW s \in Threads PROVE thread'[s].pc = "truncate" <=> thread[s].pc = "truncate"
  <2>1. CASE s = t
    BY <2>1
  <2>2. CASE s # t
    BY <2>2
  <2> QED
    BY <2>1, <2>2
<1> QED
  BY <1>1 DEF Cutting

\* The documents are as good as before when nothing about them changes.
LEMMA FileKept ==
    ASSUME FileInv, UNCHANGED <<file, readable, excess, users, other, shadowed>>, Cutting' <=> Cutting
    PROVE  FileInv'
<1>1. DocsInv'
  BY DEF FileInv, DocsInv
<1> QED
  BY <1>1 DEF FileInv

\* A step of a thread that leaves file, cache and objects alone.
LEMMA DbLocal ==
    ASSUME SettingsGood, NEW t \in Threads, NEW r, Put(t, r),
           UNCHANGED <<file, readable, excess, queries, objects, users, other, shadowed>>,
           LocalsOK(r), r.pc \notin {"cache", "truncate"}, thread[t].pc # "truncate",
           \/ r.found = Absent
           \/ r.found = thread[t].found /\ r.name = thread[t].name
           \/ r.name \in Names /\ r.found = queries[r.name],
           \/ r.dict = thread[t].dict
           \/ r.dict = Absent
           \/ r.dict = thread[t].found /\ thread[t].name = "users",
           \A o \in Results : Editing(t, o) => r.dict = o /\ r.pc # "edit"
    PROVE  SettingsGood'
<1>1. /\ DOMAIN thread = Threads /\ DOMAIN thread' = Threads /\ thread'[t] = r
      /\ \A s \in Threads \ {t} : thread'[s] = thread[s]
  BY DEF SettingsGood, ThreadInv, Put
<1>20. Cutting' <=> Cutting
  BY <1>1, CuttingKept
<1>2. FileInv'
  BY <1>20, FileKept DEF SettingsGood
<1>3. ASSUME NEW o \in Results, Current(o) PROVE Current(o)'
  <2>1. CASE \E s \in Threads : Editing(s, o)
    <3>1. PICK s \in Threads : Editing(s, o)
      BY <2>1
    <3>2. Editing(s, o)'
      BY <3>1, <1>1 DEF Editing
    <3> QED
      BY <3>2, <1>3 DEF Current
  <2>2. CASE objects[o] = users
    BY <2>2, <1>3 DEF Current
  <2> QED
    BY <1>3, <2>1, <2>2 DEF Current
<1>4. \A o \in Results : (AsUsers(o)' => AsUsers(o)) /\ (AsOther(o)' => AsOther(o))
  <2> TAKE o \in Results
  <2>1. o # Absent
    BY SettingsConstants
  <2>2. ASSUME NEW s \in Threads, thread'[s].dict = o PROVE AsUsers(o)
    BY <2>1, <2>2, <1>1 DEF AsUsers
  <2>3. ASSUME NEW s \in Threads, thread'[s].found = o, thread'[s].name = "users" PROVE AsUsers(o)
    BY <2>1, <2>3, <1>1 DEF AsUsers
  <2>4. ASSUME NEW s \in Threads, thread'[s].found = o, thread'[s].name = "other" PROVE AsOther(o)
    BY <2>1, <2>4, <1>1 DEF AsOther
  <2> QED
    BY <2>2, <2>3, <2>4 DEF AsUsers, AsOther
<1>5. CacheInv'
  <2>1. ASSUME CacheGood PROVE CacheGood'
    <3>1. queries["users"] \in Results => Current(queries["users"])'
      <4>1. PICK o : o = queries["users"]
        OBVIOUS
      <4>2. o \in Results => Current(o)'
        BY <2>1, <4>1, <1>3 DEF CacheGood
      <4>3. queries'["users"] = o
        BY <4>1
      <4> QED
        BY <4>1, <4>2, <4>3 DEF Current, Editing
    <3> QED
      BY <2>1, <3>1 DEF CacheGood, OtherOK
  <2> QED
    BY <2>1, <1>4, <1>20 DEF SettingsGood, CacheInv
<1>6. ASSUME NEW s \in Threads, NEW q \in {thread'[s]} PROVE LocalsOK(q)'
  <2>1. LocalsOK(q)
    BY <1>1 DEF SettingsGood, ThreadInv
  <2> QED
    BY <2>1, <1>3, LocalsKept
<1>7. ASSUME NEW s \in Threads PROVE Private(s)'
  <2>1. CASE s = t
    BY <2>1, <1>1 DEF Private
  <2>2. CASE s # t
    <3> SUFFICES ASSUME thread[s].pc = "cache", thread[s].found \in Results
                 PROVE  /\ \A n \in Names : queries[n] # thread[s].found
                        /\ \A u \in Threads : thread'[u].dict # thread[s].found
                                              /\ (u # s => thread'[u].found # thread[s].found)
                        /\ ~thread[s].stale => objects[thread[s].found] = Value(file, thread[s].name)
      BY <2>2, <1>1 DEF Private
    <3>1. /\ \A n \in Names : queries[n] # thread[s].found
          /\ \A u \in Threads : thread[u].dict # thread[s].found
                                /\ (u # s => thread[u].found # thread[s].found)
          /\ ~thread[s].stale => objects[thread[s].found] = Value(file, thread[s].name)
      BY DEF SettingsGood, ThreadInv, Private
    <3>2. thread[s].found # Absent /\ s \in Threads \ {t}
      BY SettingsConstants, <2>2
    <3>3. ASSUME NEW u \in Threads PROVE thread'[u].dict # thread[s].found
      <4>1. CASE u = t
        BY <4>1, <3>1, <3>2, <1>1
      <4>2. CASE u # t
        BY <4>2, <3>1, <1>1
      <4> QED
        BY <4>1, <4>2
    <3>4. ASSUME NEW u \in Threads, u # s PROVE thread'[u].found # thread[s].found
      <4>1. CASE u = t
        BY <4>1, <3>1, <3>2, <1>1
      <4>2. CASE u # t
        BY <4>2, <3>1, <3>4, <1>1
      <4> QED
        BY <4>1, <4>2
    <3> QED
      BY <3>1, <3>3, <3>4
  <2> QED
    BY <2>1, <2>2
<1> QED
  BY <1>1, <1>2, <1>5, <1>6, <1>7 DEF SettingsGood, ThreadInv

\* Changing a dictionary that no other thread is changing leaves the others right.
LEMMA DbSave ==
    ASSUME SettingsGood, NEW t \in Threads, NEW given, SaveUsers(t, given), ~crossed',
           thread[t].pc = "edit", thread[t].op \in Edits,
           given = Edited(thread[t].op, thread[t].arg, objects[thread[t].dict])
    PROVE  SettingsGood'
<1> DEFINE r == [Searching(thread[t], "users", "upsert") EXCEPT !.todo = given]
           d == thread[t].dict
<1>1. DOMAIN thread = Threads /\ DOMAIN thread[t] = Fields /\ LocalsOK(thread[t])
  BY DEF SettingsGood, ThreadInv, LocalsOK
<1>2. /\ DOMAIN r = Fields /\ r.pc = "search" /\ r.name = "users" /\ r.ret = "upsert" /\ r.todo = given
      /\ r.op = thread[t].op /\ r.arg = thread[t].arg /\ r.found = thread[t].found
      /\ r.dict = d /\ r.stale = thread[t].stale
  BY <1>1 DEF Searching, Fields
<1>3. d \in Results /\ thread[t].found = d /\ thread[t].name = "users" /\ d # Absent
  BY <1>1, SettingsConstants DEF LocalsOK, FoundOK, Asking, Updating, Lookups, Updates
<1>4. /\ DOMAIN thread' = Threads /\ thread'[t] = r
      /\ \A s \in Threads \ {t} : thread'[s] = thread[s]
  BY <1>1 DEF SaveUsers, Put
<1>5. /\ objects' = [objects EXCEPT ![d] = given] /\ DOMAIN objects = Results
      /\ UNCHANGED <<file, readable, excess, queries, users, other, shadowed>> /\ ~Shared(t)
  BY DEF SaveUsers, SettingsGood, CacheInv
<1>6. (\A o : o = d => Editing(t, o)') /\ \A s \in Threads : ~Editing(s, d)
  <2>1. ASSUME NEW o, o = d PROVE Editing(t, o)'
    BY <2>1, <1>2, <1>3, <1>4 DEF Editing
  <2>2. ASSUME NEW s \in Threads, Editing(s, d) PROVE FALSE
    <3>1. thread[s].op \in Edits
      BY <2>2, <1>3, EditingFacts DEF SettingsGood
    <3>2. s # t
      BY <2>2 DEF Editing
    <3> QED
      BY <2>2, <3>1, <3>2, <1>5 DEF Shared, Editing, Edits
  <2> QED
    BY <2>1, <2>2
<1>7. ASSUME NEW o \in Results, Current(o) PROVE Current(o)'
  <2>1. CASE o = d
    <3>1. Editing(t, o)'
      BY <2>1, <1>6
    <3> QED
      BY <3>1, <1>5, <1>7 DEF Current
  <2>2. CASE o # d /\ objects[o] = users
    BY <2>2, <1>5, <1>7 DEF Current
  <2>3. CASE o # d /\ \E s \in Threads : Editing(s, o)
    <3>1. PICK s \in Threads : Editing(s, o)
      BY <2>3
    <3>2. s # t
      BY <3>1 DEF Editing
    <3>3. Editing(s, o)'
      BY <3>1, <3>2, <1>4 DEF Editing
    <3> QED
      BY <3>3, <1>5, <1>7 DEF Current
  <2> QED
    BY <1>7, <2>1, <2>2, <2>3 DEF Current
<1> HIDE DEF r
<1>8. LocalsOK(r)
  <2>1. ~thread[t].stale => objects[d] = users
    <3>1. ~thread[t].stale => Current(d)
      BY <1>1 DEF LocalsOK, FoundOK
    <3> QED
      BY <3>1, <1>6 DEF Current
  <2>2. Asking(r)
    BY <1>2, <1>3, <2>1 DEF Asking, Lookups
  <2>3. FoundOK(r)
    BY <1>2, <1>3 DEF FoundOK
  <2> QED
    BY <1>1, <1>2, <2>2, <2>3 DEF LocalsOK, Names
<1>20. Cutting' <=> Cutting
  BY <1>2, <1>4, CuttingKept
<1>9. FileInv'
  BY <1>5, <1>20, FileKept DEF SettingsGood
<1>10. \A o \in Results : (AsUsers(o)' => AsUsers(o)) /\ (AsOther(o)' => AsOther(o))
  <2> TAKE o \in Results
  <2>2. ASSUME NEW s \in Threads, thread'[s].dict = o PROVE AsUsers(o)
    BY <2>2, <1>2, <1>4 DEF AsUsers
  <2>3. ASSUME NEW s \in Threads, thread'[s].found = o, thread'[s].name = "users" PROVE AsUsers(o)
    BY <2>3, <1>2, <1>3, <1>4 DEF AsUsers
  <2>4. ASSUME NEW s \in Threads, thread'[s].found = o, thread'[s].name = "other" PROVE AsOther(o)
    BY <2>4, <1>2, <1>4 DEF AsOther
  <2> QED
    BY <2>2, <2>3, <2>4, <1>5 DEF AsUsers, AsOther
<1>11. CacheInv'
  <2>1. DOMAIN objects' = Results /\ DOMAIN queries' = Names
    BY <1>5 DEF SettingsGood, CacheInv
  <2>2. queries["other"] # d
    <3>1. AsUsers(d)
      BY DEF AsUsers
    <3>2. ~AsOther(d)
      BY <3>1, <1>3 DEF SettingsGood, CacheInv
    <3> QED
      BY <3>2 DEF AsOther
  <2>3. ASSUME CacheGood PROVE CacheGood'
    <3>1. (queries["other"] \in Results => OtherOK(objects[queries["other"]]))'
      BY <2>2, <2>3, <1>5 DEF CacheGood, OtherOK, SettingsGood, CacheInv
    <3>2. (queries["users"] \in Results => Current(queries["users"]))'
      <4>1. PICK o : o = queries["users"]
        OBVIOUS
      <4>2. o \in Results => Current(o)'
        BY <2>3, <4>1, <1>7 DEF CacheGood
      <4>3. queries'["users"] = o
        BY <4>1, <1>5
      <4> QED
        BY <4>2, <4>3 DEF Current, Editing
    <3> QED
      BY <2>3, <3>1, <3>2, <1>5 DEF CacheGood, OtherOK
  <2> QED
    BY <2>1, <2>3, <1>5, <1>10, <1>20 DEF SettingsGood, CacheInv
<1>12. ASSUME NEW s \in Threads, NEW q \in {thread'[s]} PROVE LocalsOK(q)'
  <2>1. LocalsOK(q)
    BY <1>4, <1>8 DEF SettingsGood, ThreadInv
  <2> QED
    BY <2>1, <1>5, <1>7, LocalsKept
<1>13. ASSUME NEW s \in Threads PROVE Private(s)'
  <2>1. CASE s = t
    BY <2>1, <1>2, <1>4 DEF Private
  <2>2. CASE s # t
    <3> SUFFICES ASSUME thread[s].pc = "cache", thread[s].found \in Results
                 PROVE  /\ \A n \in Names : queries[n] # thread[s].found
                        /\ \A u \in Threads : thread'[u].dict # thread[s].found
                                              /\ (u # s => thread'[u].found # thread[s].found)
                        /\ ~thread[s].stale => objects'[thread[s].found] = Value(file, thread[s].name)
      BY <2>2, <1>4, <1>5 DEF Private
    <3>1. /\ \A n \in Names : queries[n] # thread[s].found
          /\ \A u \in Threads : thread[u].dict # thread[s].found
                                /\ (u # s => thread[u].found # thread[s].found)
          /\ ~thread[s].stale => objects[thread[s].found] = Value(file, thread[s].name)
      BY DEF SettingsGood, ThreadInv, Private
    <3>2. \A u \in Threads : thread'[u].dict = thread[u].dict /\ thread'[u].found = thread[u].found
      BY <1>2, <1>4
    <3>3. objects'[thread[s].found] = objects[thread[s].found]
      BY <3>1, <1>5
    <3> QED
      BY <3>1, <3>2, <3>3
  <2> QED
    BY <2>1, <2>2
<1> QED
  BY <1>4, <1>9, <1>11, <1>12, <1>13 DEF SettingsGood, ThreadInv

\* Caching what was read, when the file has not changed since.
LEMMA DbCache ==
    ASSUME SettingsGood, NEW t \in Threads, CacheResult(t), ~crossed', thread[t].name # "id"
    PROVE  SettingsGood'
<1> DEFINE r == [thread[t] EXCEPT !.pc = thread[t].ret]
           n == thread[t].name
           f == thread[t].found
<1>1. DOMAIN thread = Threads /\ DOMAIN thread[t] = Fields /\ LocalsOK(thread[t])
  BY DEF SettingsGood, ThreadInv, LocalsOK
<1>2. /\ DOMAIN r = Fields /\ r.pc = r.ret /\ r.name = n /\ r.ret = thread[t].ret /\ r.todo = thread[t].todo
      /\ r.op = thread[t].op /\ r.arg = thread[t].arg /\ r.found = f
      /\ r.dict = thread[t].dict /\ r.stale = thread[t].stale
  BY <1>1 DEF Fields
<1>3. /\ thread[t].pc = "cache" /\ thread[t].stale = FALSE /\ n \in Names
      /\ queries' = [queries EXCEPT ![n] = f]
      /\ UNCHANGED <<file, readable, excess, objects, users, other, shadowed>>
  BY <1>1 DEF CacheResult, LocalsOK
<1>4. /\ DOMAIN thread' = Threads /\ thread'[t] = r
      /\ \A s \in Threads \ {t} : thread'[s] = thread[s]
  BY <1>1 DEF CacheResult, Put
<1>5. /\ DOMAIN queries = Names /\ DOMAIN queries' = Names /\ queries'[n] = f
      /\ \A m \in Names \ {n} : queries'[m] = queries[m]
  BY <1>3 DEF SettingsGood, CacheInv
<1>6. /\ f \in {Absent} \union Results /\ (f = Absent <=> Named(file, n) = {})
      /\ f \in Results => objects[f] = Value(file, n)
  BY <1>1, <1>3 DEF LocalsOK, FoundOK, SettingsGood, ThreadInv, Private
<1> HIDE DEF r
<1>7. ASSUME NEW o \in Results, Current(o) PROVE Current(o)'
  <2>1. CASE \E s \in Threads : Editing(s, o)
    <3>1. PICK s \in Threads : Editing(s, o)
      BY <2>1
    <3>2. r.pc # "edit"
      BY <1>1, <1>2, <1>3 DEF LocalsOK, Asking, Updating, Lookups, Updates
    <3>3. Editing(s, o)'
      BY <3>1, <3>2, <1>2, <1>4 DEF Editing
    <3> QED
      BY <3>3, <1>3, <1>7 DEF Current
  <2>2. CASE objects[o] = users
    BY <2>2, <1>3, <1>7 DEF Current
  <2> QED
    BY <1>7, <2>1, <2>2 DEF Current
<1>8. n = "users" /\ f \in Results => Current(f)
  BY <1>6, SettingsConstants DEF SettingsGood, FileInv, DocsInv, Current
<1>20. /\ r.pc \in {"got", "created", "again", "upsert", "loaded", "done"}
       /\ r.pc \in {"got", "again"} => n = "users"
  BY <1>1, <1>2, <1>3 DEF LocalsOK, Names, Asking, Updating, Lookups, Updates
<1>9. LocalsOK(r)
  <2>1. Asking(r)
    BY <1>1, <1>2, <1>3 DEF LocalsOK, Names, Asking, Updating, Lookups, Updates
  <2>3. FoundOK(r)
    BY <1>2, <1>3, <1>6, <1>8, <1>20 DEF FoundOK, Names
  <2> QED
    BY <1>1, <1>2, <1>3, <1>20, <2>1, <2>3 DEF LocalsOK
<1>21. Cutting' <=> Cutting
  BY <1>3, <1>4, <1>20, CuttingKept
<1>10. FileInv'
  BY <1>3, <1>21, FileKept DEF SettingsGood
<1>11. \A s \in Threads : /\ thread'[s].dict = thread[s].dict /\ thread'[s].found = thread[s].found
                          /\ thread'[s].name = thread[s].name
  BY <1>2, <1>4
<1>12. \A o \in Results : (AsUsers(o)' => AsUsers(o)) /\ (AsOther(o)' => AsOther(o))
  <2> TAKE o \in Results
  <2>1. o = queries'["users"] => AsUsers(o)
    BY <1>3, <1>5 DEF AsUsers, Names
  <2>2. o = queries'["other"] => AsOther(o)
    BY <1>3, <1>5 DEF AsOther, Names
  <2> QED
    BY <2>1, <2>2, <1>11 DEF AsUsers, AsOther
<1>13. CacheInv'
  <2>1. DOMAIN objects' = Results /\ DOMAIN queries' = Names
    BY <1>3, <1>5 DEF SettingsGood, CacheInv
  <2>2. \A m \in Names : queries'[m] \in {Miss, Absent} \union Results
    BY <1>5, <1>6 DEF SettingsGood, CacheInv
  <2>3. ASSUME CacheGood PROVE CacheGood'
    <3>1. ASSUME NEW m \in Names
          PROVE  /\ queries'[m] = Absent => Named(file', m) = {}
                 /\ queries'[m] \in Results => Named(file', m) # {}
      <4>1. CASE m = n
        BY <4>1, <1>3, <1>5, <1>6, SettingsConstants
      <4>2. CASE m # n
        BY <2>3, <4>2, <1>3, <1>5 DEF CacheGood
      <4> QED
        BY <4>1, <4>2
    <3>2. (queries["other"] \in Results => OtherOK(objects[queries["other"]]))'
      <4>1. CASE n = "other"
        <5>1. f \in Results => (~shadowed => objects[f] = other)
          BY <4>1, <1>6 DEF SettingsGood, FileInv, DocsInv
        <5> QED
          BY <4>1, <5>1, <1>3, <1>5 DEF OtherOK
      <4>2. CASE n = "users"
        BY <2>3, <4>2, <1>3, <1>5 DEF CacheGood, OtherOK, Names
      <4> QED
        BY <4>1, <4>2, <1>3 DEF Names
    <3>3. (queries["users"] \in Results => Current(queries["users"]))'
      <4>1. PICK o : o = queries'["users"]
        OBVIOUS
      <4>2. o \in Results => Current(o)
        <5>1. CASE n = "users"
          BY <4>1, <5>1, <1>5, <1>8
        <5>2. CASE n = "other"
          BY <2>3, <4>1, <5>2, <1>5 DEF CacheGood, Names
        <5> QED
          BY <5>1, <5>2, <1>3 DEF Names
      <4>3. o \in Results => Current(o)'
        BY <4>2, <1>7
      <4> QED
        BY <4>1, <4>3 DEF Current, Editing
    <3> QED
      BY <3>1, <3>2, <3>3 DEF CacheGood, OtherOK
  <2> QED
    BY <2>1, <2>2, <2>3, <1>12, <1>21 DEF SettingsGood, CacheInv
<1>14. ASSUME NEW s \in Threads, NEW q \in {thread'[s]} PROVE LocalsOK(q)'
  <2>1. LocalsOK(q)
    BY <1>4, <1>9 DEF SettingsGood, ThreadInv
  <2> QED
    BY <2>1, <1>3, <1>7, LocalsKept
<1>15. ASSUME NEW s \in Threads PROVE Private(s)'
  <2>1. CASE s = t
    <3>1. r.pc # "cache"
      BY <1>1, <1>2, <1>3 DEF LocalsOK, Names, Asking, Updating, Lookups, Updates
    <3> QED
      BY <2>1, <3>1, <1>4 DEF Private
  <2>2. CASE s # t
    <3> SUFFICES ASSUME thread[s].pc = "cache", thread[s].found \in Results
                 PROVE  /\ \A m \in Names : queries'[m] # thread[s].found
                        /\ \A u \in Threads : thread'[u].dict # thread[s].found
                                              /\ (u # s => thread'[u].found # thread[s].found)
                        /\ ~thread[s].stale => objects[thread[s].found] = Value(file, thread[s].name)
      BY <2>2, <1>3, <1>4 DEF Private
    <3>1. /\ \A m \in Names : queries[m] # thread[s].found
          /\ \A u \in Threads : thread[u].dict # thread[s].found
                                /\ (u # s => thread[u].found # thread[s].found)
          /\ ~thread[s].stale => objects[thread[s].found] = Value(file, thread[s].name)
      BY DEF SettingsGood, ThreadInv, Private
    <3>2. \A m \in Names : queries'[m] # thread[s].found
      BY <3>1, <2>2, <1>5
    <3> QED
      BY <3>1, <3>2, <1>11
  <2> QED
    BY <2>1, <2>2
<1> QED
  BY <1>4, <1>10, <1>13, <1>14, <1>15 DEF SettingsGood, ThreadInv

\* Reading the file gives a thread an object of its own.
LEMMA DbLoad ==
    ASSUME SettingsGood, NEW t \in Threads, Load(t)
    PROVE  SettingsGood'
<1> DEFINE f == IF Named(file, thread[t].name) = {} THEN Absent ELSE NewResult
           n == thread[t].name
           r == [thread[t] EXCEPT !.pc = "cache", !.found = f,
                                  !.stale = thread[t].stale /\ Decided(thread[t])]
<1>1. DOMAIN thread = Threads /\ DOMAIN thread[t] = Fields /\ LocalsOK(thread[t]) /\ thread[t].pc = "load"
  BY DEF SettingsGood, ThreadInv, LocalsOK, Load
<1>2. /\ DOMAIN r = Fields /\ r.pc = "cache" /\ r.name = n /\ r.ret = thread[t].ret /\ r.todo = thread[t].todo
      /\ r.op = thread[t].op /\ r.arg = thread[t].arg /\ r.found = f
      /\ r.dict = thread[t].dict /\ (r.stale <=> thread[t].stale /\ Decided(thread[t]))
      /\ r.stale \in BOOLEAN
  BY <1>1 DEF Fields, Decided
<1>3. NewResult \in Results /\ NewResult \notin Live /\ NewResult # Absent
  <2>1. thread[t].found \in {Absent, thread[t].dict}
    BY <1>1 DEF LocalsOK, FoundOK
  <2> QED
    BY <2>1, NewResultFacts, SettingsConstants
<1>4. /\ DOMAIN thread' = Threads /\ thread'[t] = r
      /\ \A s \in Threads \ {t} : thread'[s] = thread[s]
  BY <1>1 DEF Load, Put
<1>5. /\ UNCHANGED <<file, readable, excess, queries, users, other, shadowed>>
      /\ DOMAIN objects' = Results
      /\ objects'[NewResult] = Value(file, n)
      /\ \A o \in Results : o \in Live => objects'[o] = objects[o]
  BY <1>3 DEF Load, settingsHistory
<1>6. (f = Absent <=> Named(file, n) = {}) /\ f \in {Absent, NewResult}
  BY <1>3
<1> HIDE DEF r, f
<1>7. \A o \in Results : /\ o = queries["users"] \/ o = queries["other"] => o \in Live
                         /\ \A s \in Threads : o = thread[s].found \/ o = thread[s].dict => o \in Live
  BY LiveFacts DEF Names
<1>8. ASSUME NEW o \in Results, o \in Live, Current(o) PROVE Current(o)'
  <2>1. CASE \E s \in Threads : Editing(s, o)
    <3>1. PICK s \in Threads : Editing(s, o)
      BY <2>1
    <3>2. Editing(s, o)'
      BY <3>1, <1>2, <1>4 DEF Editing
    <3> QED
      BY <3>2, <1>5, <1>8 DEF Current
  <2>2. CASE objects[o] = users
    BY <2>2, <1>5, <1>8 DEF Current
  <2> QED
    BY <1>8, <2>1, <2>2 DEF Current
<1>9. LocalsOK(r)
  <2>1. Asking(thread[t])
    BY <1>1 DEF LocalsOK, Updating, Updates
  <2>2. Asking(r)
    <3>1. r.dict \in Results => r.dict # Absent
      BY SettingsConstants
    <3> QED
      BY <1>1, <1>2, <2>1, <3>1 DEF Asking, Lookups, Decided
  <2>3. n = "id" => f = Absent
    BY <1>6 DEF SettingsGood, FileInv, DocsInv
  <2>4. FoundOK(r)
    BY <1>2, <1>3, <1>6, <2>3 DEF FoundOK
  <2> QED
    BY <1>1, <1>2, <2>2, <2>4 DEF LocalsOK
<1>20. Cutting' <=> Cutting
  BY <1>1, <1>2, <1>4, CuttingKept
<1>10. FileInv'
  BY <1>5, <1>20, FileKept DEF SettingsGood
<1>11. ASSUME NEW o \in Results PROVE ~(AsUsers(o)' /\ AsOther(o)')
  <2>1. CASE o = NewResult
    <3>1. queries'["users"] # o /\ queries'["other"] # o
      BY <2>1, <1>3, <1>5, <1>7
    <3>2. \A s \in Threads : thread'[s].dict # o /\ (s # t => thread'[s].found # o)
      BY <2>1, <1>2, <1>3, <1>4, <1>7
    <3> QED
      BY <3>1, <3>2 DEF AsUsers, AsOther
  <2>2. CASE o # NewResult
    <3>1. o # Absent
      BY SettingsConstants
    <3>2. \A s \in Threads : thread'[s].dict = o => thread[s].dict = o
      BY <1>2, <1>4
    <3>3. \A s \in Threads : thread'[s].found = o => thread[s].found = o /\ thread'[s].name = thread[s].name
      BY <2>2, <3>1, <1>2, <1>4, <1>6
    <3>4. (AsUsers(o)' => AsUsers(o)) /\ (AsOther(o)' => AsOther(o))
      BY <3>2, <3>3, <1>5 DEF AsUsers, AsOther
    <3> QED
      BY <3>4 DEF SettingsGood, CacheInv
  <2> QED
    BY <2>1, <2>2
<1>12. CacheInv'
  <2>1. ASSUME CacheGood PROVE CacheGood'
    <3>1. (queries["other"] \in Results => OtherOK(objects[queries["other"]]))'
      BY <2>1, <1>5, <1>7 DEF CacheGood, OtherOK
    <3>2. (queries["users"] \in Results => Current(queries["users"]))'
      <4>1. PICK o : o = queries["users"]
        OBVIOUS
      <4>2. o \in Results => Current(o)'
        BY <2>1, <4>1, <1>7, <1>8 DEF CacheGood
      <4>3. queries'["users"] = o
        BY <4>1, <1>5
      <4> QED
        BY <4>2, <4>3 DEF Current, Editing
    <3> QED
      BY <2>1, <3>1, <3>2, <1>5 DEF CacheGood, OtherOK
  <2>2. \A o \in Results : ~(AsUsers(o) /\ AsOther(o))'
    BY <1>11
  <2> QED
    BY <2>1, <2>2, <1>5, <1>20 DEF SettingsGood, CacheInv
<1>13. ASSUME NEW s \in Threads, NEW q \in {thread'[s]} PROVE LocalsOK(q)'
  <2>1. LocalsOK(q)
    BY <1>4, <1>9 DEF SettingsGood, ThreadInv
  <2>2. CASE s = t
    <3>1. q.pc = "cache"
      BY <2>2, <1>2, <1>4
    <3>2. Asking(q)' <=> Asking(q)
      BY <1>5 DEF Asking
    <3>3. Updating(q)' <=> Updating(q)
      BY <1>5 DEF Updating, Fits
    <3>4. FoundOK(q)'
      BY <3>1, <2>1, <1>5 DEF LocalsOK, FoundOK
    <3> QED
      BY <2>1, <3>2, <3>3, <3>4 DEF LocalsOK
  <2>3. CASE s # t
    <3>1. \A o \in Results : o \in {q.found, q.dict} => o \in Live
      BY <2>3, <1>4, <1>7
    <3> QED
      BY <2>1, <3>1, <1>5, <1>8, LocalsKept
  <2> QED
    BY <2>2, <2>3
<1>14. ASSUME NEW s \in Threads PROVE Private(s)'
  <2>1. CASE s = t
    <3>1. ASSUME f \in Results PROVE f = NewResult
      BY <3>1, <1>6, SettingsConstants
    <3>2. f \in Results =>
              /\ \A m \in Names : queries'[m] # f
              /\ \A u \in Threads : thread'[u].dict # f /\ (u # t => thread'[u].found # f)
              /\ objects'[f] = Value(file', n)
      <4> SUFFICES ASSUME f \in Results, f = NewResult
                   PROVE  /\ \A m \in Names : queries'[m] # NewResult
                          /\ \A u \in Threads : thread'[u].dict # NewResult
                                                /\ (u # t => thread'[u].found # NewResult)
                          /\ objects'[NewResult] = Value(file', n)
        BY <3>1
      <4>1. \A m \in Names : queries'[m] # NewResult
        BY <1>3, <1>5, <1>7 DEF Names
      <4>2. \A u \in Threads : thread'[u].dict # NewResult /\ (u # t => thread'[u].found # NewResult)
        BY <1>2, <1>3, <1>4, <1>7
      <4> QED
        BY <4>1, <4>2, <1>5
    <3> QED
      BY <2>1, <3>2, <1>2, <1>4 DEF Private
  <2>2. CASE s # t
    <3> SUFFICES ASSUME thread[s].pc = "cache", thread[s].found \in Results
                 PROVE  /\ \A m \in Names : queries[m] # thread[s].found
                        /\ \A u \in Threads : thread'[u].dict # thread[s].found
                                              /\ (u # s => thread'[u].found # thread[s].found)
                        /\ ~thread[s].stale => objects'[thread[s].found] = Value(file, thread[s].name)
      BY <2>2, <1>4, <1>5 DEF Private
    <3>1. /\ \A m \in Names : queries[m] # thread[s].found
          /\ \A u \in Threads : thread[u].dict # thread[s].found
                                /\ (u # s => thread[u].found # thread[s].found)
          /\ ~thread[s].stale => objects[thread[s].found] = Value(file, thread[s].name)
      BY DEF SettingsGood, ThreadInv, Private
    <3>2. thread[s].found \in Live /\ thread[s].found # Absent /\ objects'[thread[s].found] = objects[thread[s].found]
      BY <1>5, <1>7, SettingsConstants
    <3>3. f # thread[s].found
      BY <3>2, <1>3, <1>6
    <3>4. \A u \in Threads : thread'[u].dict = thread[u].dict /\ (u # t => thread'[u].found = thread[u].found)
      BY <1>2, <1>4
    <3> QED
      BY <3>1, <3>2, <3>3, <3>4, <1>2, <1>4
  <2> QED
    BY <2>1, <2>2
<1> QED
  BY <1>4, <1>10, <1>12, <1>13, <1>14 DEF SettingsGood, ThreadInv

\* A change that is based on the file leaves it with the values that were meant.
LEMMA ChangeIsMeant ==
    ASSUME FileInv, NEW r, Updating(r), r.stale = FALSE, r.pc = "write"
    PROVE  LET after == Changed(file, r.todo)
           IN  /\ Table(after)
               /\ Named(after, "users") # {} => Value(after, "users") = Meant(r)
               /\ Named(after, "users") = {} => Meant(r) = {}
               /\ ~Shadows(r) => Value(after, "other") = MeantOther(r)
               /\ Named(after, "other") = {} <=> MeantOther(r) = Absent
               /\ Named(after, "id") = {}
<1> DEFINE after == Changed(file, r.todo)
<1>1. /\ Table(file)
      /\ Named(file, "users") # {} => Value(file, "users") = users
      /\ Named(file, "users") = {} => users = {}
      /\ ~shadowed => Value(file, "other") = other
      /\ Named(file, "other") = {} <=> other = Absent
      /\ Named(file, "id") = {}
  BY DEF FileInv, DocsInv
<1>2. r.todo.kind = "insert" =>
               /\ Table(after)
               /\ Named(after, r.todo.name) # {}
               /\ Named(file, r.todo.name) = {} => Value(after, r.todo.name) = r.todo.value
               /\ Named(file, r.todo.name) # {} => Value(after, r.todo.name) = Value(file, r.todo.name)
               /\ \A m : m # r.todo.name => Named(after, m) = Named(file, m) /\ Value(after, m) = Value(file, m)
  BY <1>1, InsertFacts
<1>3. r.todo.kind = "update" =>
               /\ Table(after)
               /\ \A m : Named(after, m) = Named(file, m)
               /\ Named(file, r.todo.name) # {} => Value(after, r.todo.name) = r.todo.value
               /\ \A m : m # r.todo.name => Value(after, m) = Value(file, m)
  BY <1>1, UpdateFactsDb
<1>4. r.todo.kind = "remove" =>
               /\ Table(after)
               /\ Named(after, r.todo.name) = {} /\ Value(after, r.todo.name) = Absent
               /\ \A m : m # r.todo.name => Named(after, m) = Named(file, m) /\ Value(after, m) = Value(file, m)
  BY <1>1, RemoveFacts
<1>5. Absent \notin Values
  BY SettingsAssumption
<1> HIDE DEF after
<1>6. CASE r.ret = "saved" \/ r.ret = "defaults"
  <2>1. r.todo.name = "users" /\ Fits(r) /\ r.op \in Edits \union {"read_users"}
    BY <1>6 DEF Updating
  <2>2. r.todo.value = Meant(r)
    <3>1. CASE r.ret = "saved"
      <4>1. r.op \in Edits /\ r.todo.value = Edited(r.op, r.arg, users)
        BY <3>1 DEF Updating
      <4> QED
        BY <3>1, <4>1 DEF Meant, Edited, Edits
    <3>2. CASE r.ret = "defaults"
      <4>1. r.todo.value = Defaults
        BY <3>2 DEF Updating
      <4> QED
        BY <3>2, <4>1 DEF Meant
    <3> QED
      BY <1>6, <3>1, <3>2
  <2>3. MeantOther(r) = other /\ Shadows(r) = shadowed
    BY <2>1 DEF MeantOther, Shadows, Edits
  <2>4. CASE r.todo.kind = "insert"
    BY <2>1, <2>2, <2>3, <2>4, <1>1, <1>2 DEF Fits, after
  <2>5. CASE r.todo.kind = "update"
    <3>1. Named(file, "users") # {}
      BY <2>1, <2>5 DEF Fits
    <3> QED
      BY <2>1, <2>2, <2>3, <2>5, <3>1, <1>1, <1>3 DEF after
  <2> QED
    BY <2>1, <2>4, <2>5 DEF Fits
<1>7. CASE r.ret = "written"
  <2>1. r.todo.name = "other" /\ Fits(r) /\ r.op = "upsert" /\ r.todo.value = r.arg /\ r.arg # Absent
    BY <1>5, <1>7 DEF Updating
  <2>2. Meant(r) = users /\ MeantOther(r) = r.arg
    BY <2>1, <1>7 DEF Meant, MeantOther
  <2>3. CASE r.todo.kind = "insert"
    BY <2>1, <2>2, <2>3, <1>1, <1>2 DEF Fits, after
  <2>4. CASE r.todo.kind = "update"
    <3>1. Named(file, "other") # {}
      BY <2>1, <2>4 DEF Fits
    <3> QED
      BY <2>1, <2>2, <2>4, <3>1, <1>1, <1>3 DEF after
  <2> QED
    BY <2>1, <2>3, <2>4 DEF Fits
<1>8. CASE r.ret = "done" /\ r.op = "insert"
  <2>1. r.todo.name = "other" /\ r.todo.kind = "insert" /\ r.todo.value = r.arg /\ r.arg # Absent
    BY <1>5, <1>8 DEF Updating
  <2>2. Meant(r) = users /\ MeantOther(r) = r.arg /\ Shadows(r) = (other # Absent)
    BY <1>8 DEF Meant, MeantOther, Shadows
  <2> QED
    BY <2>1, <2>2, <1>1, <1>2 DEF after
<1>9. CASE r.ret = "done" /\ r.op = "remove"
  <2>1. r.todo.name = "other" /\ r.todo.kind = "remove"
    BY <1>9 DEF Updating
  <2>2. Meant(r) = users /\ MeantOther(r) = Absent
    BY <1>9 DEF Meant, MeantOther
  <2> QED
    BY <2>1, <2>2, <1>1, <1>4 DEF after
<1> QED
  BY <1>6, <1>7, <1>8, <1>9 DEF Updating

\* A write leaves every other thread with what it had, now stale.
LEMMA DbWrite ==
    ASSUME SettingsGood, NEW t \in Threads, Write(t), ~crossed',
           position \in Positions
    PROVE  SettingsGood'
<1> DEFINE w == thread[t]
           r == [w EXCEPT !.pc = "truncate", !.buf = << >>, !.found = Absent, !.dict = Absent]
           After(q) == IF q.pc = "idle" THEN q ELSE [q EXCEPT !.stale = TRUE]
<1>1. DOMAIN thread = Threads /\ DOMAIN w = Fields /\ LocalsOK(w) /\ w.pc = "write"
  BY DEF SettingsGood, ThreadInv, LocalsOK, Write
<1>2. /\ DOMAIN r = Fields /\ r.pc = "truncate" /\ r.name = w.name /\ r.ret = w.ret
      /\ r.op = w.op /\ r.found = Absent /\ r.dict = Absent /\ r.stale = w.stale
  BY <1>1 DEF Fields
<1>3. /\ w.stale = FALSE /\ position = "start" /\ file' = Changed(w.buf, w.todo)
      /\ users' = Meant(w) /\ other' = MeantOther(w) /\ shadowed' = Shadows(w)
      /\ UNCHANGED <<queries, objects>>
      /\ readable' = TRUE
  <2>1. w.stale \in BOOLEAN /\ ~w.stale
    BY <1>1 DEF Write, LocalsOK
  <2>2. position = "start"
    BY DEF Write
  <2>3. readable' = TRUE
    BY <2>2 DEF Write, SettingsGood, FileInv
  <2> QED
    BY <2>1, <2>2, <2>3 DEF Write
<1>4. DOMAIN thread' = Threads /\ thread'[t] = r /\ \A s \in Threads \ {t} : thread'[s] = After(thread[s])
  BY DEF Write
<1> HIDE DEF r, After
<1>5. \A s \in Threads : DOMAIN thread[s] = Fields
  BY DEF SettingsGood, ThreadInv, LocalsOK
<1>6. ASSUME NEW q, DOMAIN q = Fields
      PROVE  /\ DOMAIN After(q) = Fields
             /\ After(q).pc = q.pc /\ After(q).ret = q.ret /\ After(q).name = q.name /\ After(q).op = q.op
             /\ After(q).arg = q.arg /\ After(q).found = q.found /\ After(q).dict = q.dict
             /\ After(q).todo = q.todo /\ After(q).buf = q.buf
             /\ q.pc # "idle" => After(q).stale = TRUE
             /\ q.pc = "idle" => After(q) = q
  BY <1>6 DEF After, Fields
<1>7. Updating(w) /\ w.buf = file
  <2>1. Updating(w)
    BY <1>1 DEF LocalsOK, Asking, Lookups
  <2> QED
    BY <2>1, <1>1, <1>3 DEF Updating
<1>8. FileInv'
  <2>1. FileInv
    BY DEF SettingsGood
  <2>2. file' = Changed(file, w.todo)
    BY <1>3, <1>7
  <2>3. /\ Table(file')
        /\ Named(file', "users") # {} => Value(file', "users") = users'
        /\ Named(file', "users") = {} => users' = {}
        /\ ~shadowed' => Value(file', "other") = other'
        /\ Named(file', "other") = {} <=> other' = Absent
        /\ Named(file', "id") = {}
    BY <2>1, <2>2, <1>1, <1>3, <1>7, ChangeIsMeant
  <2>4. Cutting'
    BY <1>2, <1>4 DEF Cutting
  <2> QED
    BY <2>3, <2>4, <1>3 DEF FileInv, DocsInv
<1>9. ASSUME NEW s \in Threads \ {t}
       PROVE  /\ thread'[s].pc = thread[s].pc /\ thread'[s].name = thread[s].name
              /\ thread'[s].found = thread[s].found /\ thread'[s].dict = thread[s].dict
              /\ thread[s].pc # "idle" => thread'[s].stale = TRUE
  <2> DEFINE p == thread[s]
  <2>1. thread'[s] = After(p) /\ DOMAIN p = Fields
    BY <1>4, <1>5
  <2> HIDE DEF p
  <2>2. /\ After(p).pc = p.pc /\ After(p).name = p.name /\ After(p).found = p.found
        /\ After(p).dict = p.dict /\ (p.pc # "idle" => After(p).stale = TRUE)
    BY <2>1, <1>6
  <2> QED
    BY <2>1, <2>2 DEF p
<1>10. \A s \in Threads : /\ thread'[s].dict \in {Absent, thread[s].dict}
                          /\ thread'[s].found # Absent => thread'[s].found = thread[s].found
                                                          /\ thread'[s].name = thread[s].name
  <2> TAKE s \in Threads
  <2>1. CASE s = t
    BY <2>1, <1>2, <1>4
  <2>2. CASE s # t
    BY <2>2, <1>9
  <2> QED
    BY <2>1, <2>2
<1>11. CacheInv'
  <2>2. ASSUME NEW o \in Results PROVE ~(AsUsers(o) /\ AsOther(o))'
    <3>1. o # Absent
      BY SettingsConstants
    <3>2. (AsUsers(o)' => AsUsers(o)) /\ (AsOther(o)' => AsOther(o))
      <4>1. ASSUME NEW s \in Threads, thread'[s].dict = o PROVE thread[s].dict = o
        BY <4>1, <3>1, <1>10
      <4>2. ASSUME NEW s \in Threads, thread'[s].found = o
            PROVE  thread[s].found = o /\ thread'[s].name = thread[s].name
        BY <4>2, <3>1, <1>10
      <4> QED
        BY <4>1, <4>2, <3>1, <1>3 DEF AsUsers, AsOther
    <3> QED
      BY <3>2 DEF SettingsGood, CacheInv
  <2>3. Cutting'
    BY <1>2, <1>4 DEF Cutting
  <2> QED
    BY <2>2, <2>3, <1>3 DEF SettingsGood, CacheInv
<1>12. ASSUME NEW q, q = r PROVE LocalsOK(q)'
  <2>1. Asking(q)'
    BY <1>2, <1>7, <1>12 DEF Asking, Updating, Lookups, Edits
  <2>2. FoundOK(q)'
    <3>1. q.name # "id" \/ q.found = Absent
      BY <1>2, <1>12
    <3> QED
      BY <3>1, <1>2, <1>12 DEF FoundOK
  <2>3. q.name \in Names \union {"id"} /\ q.pc # "search" /\ q.stale \in BOOLEAN /\ DOMAIN q = Fields
    BY <1>1, <1>2, <1>7, <1>12 DEF LocalsOK, Updating
  <2> QED
    BY <2>1, <2>2, <2>3 DEF LocalsOK
<1>13. ASSUME NEW s \in Threads \ {t}, NEW q, q = thread'[s] PROVE LocalsOK(q)'
  <2> DEFINE p == thread[s]
  <2>1. LocalsOK(p) /\ DOMAIN p = Fields /\ q = After(p)
    BY <1>4, <1>5, <1>13 DEF SettingsGood, ThreadInv
  <2>2. /\ DOMAIN q = Fields
        /\ q.pc = p.pc /\ q.ret = p.ret /\ q.name = p.name /\ q.op = p.op
        /\ q.arg = p.arg /\ q.found = p.found /\ q.dict = p.dict
        /\ q.todo = p.todo /\ q.buf = p.buf
        /\ p.pc # "idle" => q.stale = TRUE
        /\ p.pc = "idle" => q = p
    BY <2>1, <1>6
  <2> HIDE DEF p
  <2>3. CASE p.pc = "idle"
    <3>1. q.pc = "idle" /\ q.found = Absent /\ q.dict = Absent
      BY <2>1, <2>2, <2>3 DEF LocalsOK, FoundOK, Asking, Updating, Lookups, Updates
    <3>2. Asking(q)' /\ FoundOK(q)'
      BY <3>1, <2>1, <2>2, <2>3 DEF Asking, FoundOK, LocalsOK
    <3> QED
      BY <3>1, <3>2, <2>1, <2>2, <2>3 DEF LocalsOK
  <2>4. CASE p.pc # "idle"
    <3>1. Asking(q)' \/ Updating(q)'
      <4>1. CASE Asking(p)
        BY <4>1, <2>2, <2>4 DEF Asking
      <4>2. CASE Updating(p)
        BY <4>2, <2>2, <2>4 DEF Updating, Fits
      <4> QED
        BY <2>1, <4>1, <4>2 DEF LocalsOK
    <3>2. FoundOK(q)'
      BY <2>1, <2>2, <2>4 DEF LocalsOK, FoundOK
    <3> QED
      BY <3>1, <3>2, <2>1, <2>2, <2>4 DEF LocalsOK
  <2> QED
    BY <2>3, <2>4
<1>14. ASSUME NEW s \in Threads PROVE Private(s)'
  <2>1. CASE s = t
    <3>1. thread'[s].found \notin Results
      BY <2>1, <1>2, <1>4, SettingsConstants
    <3> QED
      BY <3>1 DEF Private
  <2>2. CASE s # t
    <3>1. /\ thread'[s].pc = thread[s].pc /\ thread'[s].found = thread[s].found
          /\ thread[s].pc # "idle" => thread'[s].stale = TRUE
      BY <2>2, <1>9
    <3> SUFFICES ASSUME thread[s].pc = "cache", thread[s].found \in Results
                 PROVE  /\ \A m \in Names : queries[m] # thread[s].found
                        /\ \A u \in Threads : thread'[u].dict # thread[s].found
                                              /\ (u # s => thread'[u].found # thread[s].found)
      BY <3>1, <1>3 DEF Private
    <3>2. \A m \in Names : queries[m] # thread[s].found
      BY DEF SettingsGood, ThreadInv, Private
    <3>6. \A u \in Threads : thread[u].dict # thread[s].found
                             /\ (u # s => thread[u].found # thread[s].found)
      BY DEF SettingsGood, ThreadInv, Private
    <3>3. thread[s].found # Absent /\ thread[s].found # Miss
      BY SettingsConstants
    <3>4. ASSUME NEW u \in Threads PROVE thread'[u].dict # thread[s].found
      BY <3>6, <3>3, <1>10
    <3>5. ASSUME NEW u \in Threads, u # s PROVE thread'[u].found # thread[s].found
      BY <3>6, <3>3, <3>5, <1>10
    <3> QED
      BY <3>2, <3>4, <3>5
  <2> QED
    BY <2>1, <2>2
<1>15. \A s \in Threads : \A q \in {thread'[s]} : LocalsOK(q)'
  BY <1>4, <1>12, <1>13
<1> QED
  BY <1>4, <1>8, <1>11, <1>14, <1>15 DEF SettingsGood, ThreadInv

\* The write is finished: the file is cut off behind its text, the cache is emptied,
\* and an inserted document is looked up.
LEMMA DbCutOff ==
    ASSUME SettingsGood, NEW t \in Threads, CutOff(t), ~crossed', position \in Positions
    PROVE  SettingsGood'
<1> DEFINE w == thread[t]
           insert == w.todo.kind = "insert"
           r == [w EXCEPT !.pc = IF insert THEN "seek" ELSE w.ret,
                          !.name = IF insert THEN "id" ELSE w.name, !.todo = Absent]
<1>1. /\ DOMAIN thread = Threads /\ DOMAIN w = Fields /\ w.pc = "truncate" /\ Asking(w)
      /\ w.stale \in BOOLEAN /\ w.name \in Names \union {"id"} /\ w.found = Absent
  BY DEF SettingsGood, ThreadInv, LocalsOK, CutOff, Updating, Updates, FoundOK
<1>2. /\ DOMAIN r = Fields /\ r.pc = (IF insert THEN "seek" ELSE w.ret)
      /\ r.name = (IF insert THEN "id" ELSE w.name) /\ r.ret = w.ret
      /\ r.op = w.op /\ r.found = Absent /\ r.dict = w.dict /\ r.stale = w.stale
  BY <1>1 DEF Fields
<1>3. /\ UNCHANGED <<file, objects, users, other, shadowed>>
      /\ readable' = TRUE /\ excess' = FALSE /\ queries' = [n \in Names |-> Miss]
  <2>1. position # "start" /\ ~(position = "end" /\ excess)
    BY DEF CutOff
  <2>2. readable = TRUE
    BY DEF SettingsGood, FileInv
  <2> QED
    BY <2>1, <2>2 DEF CutOff
<1>4. /\ DOMAIN thread' = Threads /\ thread'[t] = r
      /\ \A s \in Threads \ {t} : thread'[s] = thread[s]
  BY <1>1 DEF CutOff, Put
<1> HIDE DEF r, insert
<1>5. w.dict = Absent
  BY <1>1 DEF Asking, Lookups
<1>6. FileInv'
  <2>1. DocsInv'
    BY <1>3 DEF SettingsGood, FileInv, DocsInv
  <2> QED
    BY <2>1, <1>3 DEF SettingsGood, FileInv
<1>7. \A n \in Names : queries'[n] = Miss
  BY <1>3
<1>8. \A s \in Threads : /\ thread'[s].dict = thread[s].dict
                         /\ thread'[s].found = thread[s].found
                         /\ s # t => thread'[s].name = thread[s].name
  BY <1>1, <1>2, <1>4
<1>9. ASSUME NEW o \in Results PROVE (AsUsers(o)' => AsUsers(o)) /\ (AsOther(o)' => AsOther(o))
  <2>1. o # Absent /\ o # Miss /\ queries'["users"] = Miss /\ queries'["other"] = Miss
    BY <1>7, SettingsConstants
  <2>2. \A s \in Threads : thread'[s].found = o => s # t
    BY <2>1, <1>1, <1>8
  <2> QED
    BY <2>1, <2>2, <1>8 DEF AsUsers, AsOther
<1>10. CacheInv'
  <2>1. queries'["other"] \notin Results /\ queries'["users"] \notin Results
    BY <1>7, SettingsConstants
  <2>2. CacheGood'
    BY <2>1, <1>7, SettingsConstants DEF CacheGood
  <2>3. DOMAIN objects' = Results /\ DOMAIN queries' = Names
    BY <1>3 DEF SettingsGood, CacheInv
  <2>4. \A o \in Results : ~(AsUsers(o) /\ AsOther(o))'
    BY <1>9 DEF SettingsGood, CacheInv
  <2> QED
    BY <2>2, <2>3, <2>4, <1>7 DEF CacheInv
<1>11. ASSUME NEW o \in Results, Current(o) PROVE Current(o)'
  <2>1. CASE \E s \in Threads : Editing(s, o)
    <3>1. PICK s \in Threads : Editing(s, o)
      BY <2>1
    <3>2. s # t
      BY <3>1, <1>5, SettingsConstants DEF Editing
    <3>3. Editing(s, o)'
      BY <3>1, <3>2, <1>4 DEF Editing
    <3> QED
      BY <3>3, <1>3, <1>11 DEF Current
  <2>2. CASE objects[o] = users
    BY <2>2, <1>3, <1>11 DEF Current
  <2> QED
    BY <1>11, <2>1, <2>2 DEF Current
<1>12. LocalsOK(r)
  <2>1. r.pc \in {"seek", "saved", "defaults", "written", "done"}
    BY <1>1, <1>2 DEF Asking, Lookups
  <2>2. Asking(r)
    <3>1. CASE insert
      BY <3>1, <1>1, <1>2 DEF Asking, Lookups, Edits
    <3>2. CASE ~insert
      BY <3>2, <1>1, <1>2 DEF Asking, Lookups, Edits
    <3> QED
      BY <3>1, <3>2
  <2>3. FoundOK(r)
    BY <2>1, <1>2 DEF FoundOK
  <2>4. r.name \in Names \union {"id"}
    BY <1>1, <1>2
  <2> QED
    BY <1>1, <1>2, <2>1, <2>2, <2>3, <2>4 DEF LocalsOK
<1>13. ASSUME NEW s \in Threads, NEW q \in {thread'[s]} PROVE LocalsOK(q)'
  <2>1. LocalsOK(q)
    BY <1>4, <1>12 DEF SettingsGood, ThreadInv
  <2> QED
    BY <2>1, <1>3, <1>11, LocalsKept
<1>14. ASSUME NEW s \in Threads PROVE Private(s)'
  <2>1. CASE s = t
    <3>1. thread'[s].found \notin Results
      BY <2>1, <1>2, <1>4, SettingsConstants
    <3> QED
      BY <3>1 DEF Private
  <2>2. CASE s # t
    <3> SUFFICES ASSUME thread[s].pc = "cache", thread[s].found \in Results
                 PROVE  /\ \A n \in Names : queries'[n] # thread[s].found
                        /\ \A u \in Threads : thread'[u].dict # thread[s].found
                                              /\ (u # s => thread'[u].found # thread[s].found)
                        /\ ~thread[s].stale => objects[thread[s].found] = Value(file, thread[s].name)
      BY <2>2, <1>3, <1>4 DEF Private
    <3>1. /\ \A u \in Threads : thread[u].dict # thread[s].found
                                /\ (u # s => thread[u].found # thread[s].found)
          /\ ~thread[s].stale => objects[thread[s].found] = Value(file, thread[s].name)
      BY DEF SettingsGood, ThreadInv, Private
    <3>2. \A n \in Names : queries'[n] # thread[s].found
      BY <1>7, SettingsConstants
    <3> QED
      BY <3>1, <3>2, <1>8
  <2> QED
    BY <2>1, <2>2
<1> QED
  BY <1>4, <1>6, <1>10, <1>13, <1>14 DEF SettingsGood, ThreadInv

\* The core plugin is added to the cached list, or to one that nobody looks up any more.
LEMMA DbAddCore ==
    ASSUME SettingsGood, NEW t \in Threads, AddCore(t)
    PROVE  SettingsGood'
<1> DEFINE f == thread[t].found
<1>1. /\ DOMAIN thread = Threads /\ thread[t].pc = "loaded" /\ thread[t].name = "other"
      /\ thread[t].dict = Absent /\ f \in {Absent} \union Results
  BY Locals DEF SettingsGood, ThreadInv, AddCore, Asking, Updating, Lookups, Updates, FoundOK
<1>2. /\ UNCHANGED <<file, readable, excess, queries, users, other, shadowed>>
      /\ DOMAIN objects = Results /\ DOMAIN objects' = Results
      /\ \A o \in Results : o # f => objects'[o] = objects[o]
      /\ f \in Results => objects'[f] = objects[f] \union {Core}
  BY <1>1, SettingsConstants DEF AddCore, settingsHistory, SettingsGood, CacheInv
<1>3. /\ DOMAIN thread' = Threads /\ thread'[t] = Resting
      /\ \A s \in Threads \ {t} : thread'[s] = thread[s]
  BY <1>1 DEF AddCore, Put
<1>4. Cutting' <=> Cutting
  BY <1>1, <1>3, RestingLocals, CuttingKept
<1>5. FileInv'
  BY <1>2, <1>4, FileKept DEF SettingsGood
<1>6. ASSUME NEW o \in Results, AsUsers(o) PROVE o # f
  BY <1>1, <1>6 DEF SettingsGood, CacheInv, AsOther
<1>7. ASSUME NEW o \in Results, o # f, Current(o) PROVE Current(o)'
  <2>1. CASE \E s \in Threads : Editing(s, o)
    <3>1. PICK s \in Threads : Editing(s, o)
      BY <2>1
    <3>2. s # t
      BY <3>1, <1>1, SettingsConstants DEF Editing
    <3>3. Editing(s, o)'
      BY <3>1, <3>2, <1>3 DEF Editing
    <3> QED
      BY <3>3, <1>2, <1>7 DEF Current
  <2>2. CASE objects[o] = users
    BY <2>2, <1>2, <1>7 DEF Current
  <2> QED
    BY <1>7, <2>1, <2>2 DEF Current
<1>8. \A s \in Threads : /\ thread'[s].dict \in {Absent, thread[s].dict}
                         /\ thread'[s].found # Absent => thread'[s].found = thread[s].found
                                                         /\ thread'[s].name = thread[s].name
  BY <1>1, <1>3, RestingLocals
<1>9. \A o \in Results : (AsUsers(o)' => AsUsers(o)) /\ (AsOther(o)' => AsOther(o))
  <2> TAKE o \in Results
  <2>1. o # Absent
    BY SettingsConstants
  <2> QED
    BY <2>1, <1>2, <1>8 DEF AsUsers, AsOther
<1>10. CacheInv'
  <2>1. ASSUME CacheGood PROVE CacheGood'
    <3>1. (queries["other"] \in Results => OtherOK(objects[queries["other"]]))'
      <4>1. CASE queries["other"] = f
        BY <2>1, <4>1, <1>2 DEF CacheGood, OtherOK
      <4>2. CASE queries["other"] # f
        BY <2>1, <4>2, <1>2 DEF CacheGood, OtherOK
      <4> QED
        BY <4>1, <4>2
    <3>2. (queries["users"] \in Results => Current(queries["users"]))'
      <4>1. PICK o : o = queries["users"]
        OBVIOUS
      <4>2. o \in Results => o # f
        BY <4>1, <1>6 DEF AsUsers
      <4>3. o \in Results => Current(o)'
        BY <2>1, <4>1, <4>2, <1>7 DEF CacheGood
      <4>4. queries'["users"] = o
        BY <4>1, <1>2
      <4> QED
        BY <4>3, <4>4 DEF Current, Editing
    <3> QED
      BY <2>1, <3>1, <3>2, <1>2 DEF CacheGood, OtherOK
  <2> QED
    BY <2>1, <1>2, <1>4, <1>9 DEF SettingsGood, CacheInv
<1>11. ASSUME NEW s \in Threads, NEW q \in {thread'[s]} PROVE LocalsOK(q)'
  <2>1. LocalsOK(q)
    BY <1>3, RestingLocals DEF SettingsGood, ThreadInv
  <2>2. ASSUME NEW o \in Results, o = q.dict \/ q.name = "users", o \in {q.found, q.dict} PROVE o # f
    <3>1. o # Absent
      BY SettingsConstants
    <3>2. s # t
      BY <2>2, <3>1, <1>3, RestingLocals
    <3>3. q = thread[s]
      BY <3>2, <1>3
    <3>4. AsUsers(o)
      BY <2>2, <3>3 DEF AsUsers
    <3> QED
      BY <3>4, <1>6
  <2> QED
    BY <2>1, <2>2, <1>2, <1>7, LocalsKept
<1>12. ASSUME NEW s \in Threads PROVE Private(s)'
  <2>1. CASE s = t
    BY <2>1, <1>3, RestingLocals DEF Private
  <2>2. CASE s # t
    <3> SUFFICES ASSUME thread[s].pc = "cache", thread[s].found \in Results
                 PROVE  /\ \A n \in Names : queries[n] # thread[s].found
                        /\ \A u \in Threads : thread'[u].dict # thread[s].found
                                              /\ (u # s => thread'[u].found # thread[s].found)
                        /\ ~thread[s].stale => objects'[thread[s].found] = Value(file, thread[s].name)
      BY <2>2, <1>2, <1>3 DEF Private
    <3>1. /\ \A n \in Names : queries[n] # thread[s].found
          /\ \A u \in Threads : thread[u].dict # thread[s].found
                                /\ (u # s => thread[u].found # thread[s].found)
          /\ ~thread[s].stale => objects[thread[s].found] = Value(file, thread[s].name)
      BY DEF SettingsGood, ThreadInv, Private
    <3>2. thread[s].found # Absent /\ thread[s].found # f
      BY <2>2, <3>1, SettingsConstants
    <3>3. \A u \in Threads : thread'[u].dict # thread[s].found
                             /\ (u # s => thread'[u].found # thread[s].found)
      BY <3>1, <3>2, <1>8
    <3> QED
      BY <3>1, <3>2, <3>3, <1>2
  <2> QED
    BY <2>1, <2>2
<1> QED
  BY <1>3, <1>5, <1>10, <1>11, <1>12 DEF SettingsGood, ThreadInv

-----------------------------------------------------------------------------
(* Steps that only change the locals *)

\* A thread that has no dictionary, or has not changed it, may stop.
LEMMA DbStops ==
    ASSUME SettingsGood, NEW t \in Threads, Put(t, Resting),
           UNCHANGED <<file, readable, excess, queries, objects, users, other, shadowed>>,
           thread[t].pc \in {"edit", "again", "done"}
    PROVE  SettingsGood'
<1>1. \A o \in Results : ~Editing(t, o)
  <2>1. thread[t].pc \in {"again", "done"} => thread[t].dict = Absent
    BY Locals DEF Asking, Updating, Lookups, Updates
  <2> QED
    BY <2>1, SettingsConstants DEF Editing
<1> DEFINE r == Resting
<1>2. LocalsOK(r) /\ r.pc \notin {"cache", "truncate"} /\ r.found = Absent /\ r.dict = Absent
  BY RestingLocals
<1>3. Put(t, r)
  OBVIOUS
<1> HIDE DEF r
<1> QED
  BY <1>1, <1>2, <1>3, DbLocal

\* A cached result is as good as one that was read now.
LEMMA DbSearch ==
    ASSUME SettingsGood, NEW t \in Threads, Search(t)
    PROVE  SettingsGood'
<1> DEFINE w == thread[t]
           f == queries[w.name]
           miss == [w EXCEPT !.pc = "seek"]
           hit == [w EXCEPT !.pc = w.ret, !.found = f, !.stale = (w.stale /\ Decided(w)) \/ Emptying(t)]
<1>1. /\ DOMAIN w = Fields /\ LocalsOK(w) /\ w.pc = "search" /\ w.name \in Names
      /\ Asking(w) /\ FoundOK(w) /\ w.stale \in BOOLEAN
  <2>1. w.pc = "search"
    BY DEF Search
  <2>2. ~Updating(w)
    BY <2>1 DEF Updating, Updates
  <2> QED
    BY <2>1, <2>2, Locals DEF LocalsOK
<1>2. CASE f = Miss
  <2>1. Put(t, miss) /\ UNCHANGED <<file, readable, excess, queries, objects, users, other, shadowed>>
    BY <1>2 DEF Search, settingsHistory
  <2>2. /\ DOMAIN miss = Fields /\ miss.pc = "seek" /\ miss.ret = w.ret /\ miss.name = w.name
        /\ miss.op = w.op /\ miss.arg = w.arg /\ miss.found = w.found /\ miss.dict = w.dict
        /\ miss.todo = w.todo /\ miss.stale = w.stale
    BY <1>1 DEF Fields
  <2> HIDE DEF miss
  <2>3. Asking(miss)
    BY <1>1, <2>2 DEF Asking, Lookups
  <2>4. FoundOK(miss)
    BY <1>1, <2>2 DEF FoundOK, Names
  <2>5. LocalsOK(miss)
    BY <1>1, <2>2, <2>3, <2>4 DEF LocalsOK
  <2>6. \A o \in Results : Editing(t, o) => miss.dict = o /\ miss.pc # "edit"
    BY <2>2 DEF Editing
  <2> QED
    BY <2>1, <2>2, <2>5, <2>6, <1>1, DbLocal
<1>3. CASE f # Miss
  <2>1. Put(t, hit) /\ UNCHANGED <<file, readable, excess, queries, objects, users, other, shadowed>>
    BY <1>3 DEF Search, settingsHistory
  <2>2. /\ DOMAIN hit = Fields /\ hit.pc = w.ret /\ hit.ret = w.ret /\ hit.name = w.name
        /\ hit.op = w.op /\ hit.arg = w.arg /\ hit.found = f /\ hit.dict = w.dict
        /\ hit.todo = w.todo /\ hit.stale \in BOOLEAN
        /\ hit.stale <=> (w.stale /\ Decided(w)) \/ Emptying(t)
    BY <1>1 DEF Fields, Decided, Emptying
  <2>3. f \in {Absent} \union Results
    BY <1>1, <1>3, SettingsConstants DEF SettingsGood, CacheInv
  <2>4. ASSUME ~hit.stale
        PROVE  /\ f = Absent <=> Named(file, w.name) = {}
               /\ w.name = "users" /\ f \in Results => Current(f)
    <3>1. ~Emptying(t)
      BY <2>2, <2>4
    <3>2. ~Cutting
      BY <3>1, <1>1 DEF Emptying, Cutting
    <3>3. CacheGood
      BY <3>2 DEF SettingsGood, CacheInv
    <3> QED
      BY <3>3, <2>3, <1>1, SettingsConstants DEF CacheGood
  <2> HIDE DEF hit, f
  <2>5. /\ hit.pc \in {"got", "created", "again", "upsert", "loaded", "done"}
        /\ hit.pc \in {"got", "again"} => hit.name = "users"
    BY <1>1, <2>2 DEF Asking, Lookups, Names
  <2>6. Asking(hit)
    <3>1. w.dict \in Results => w.dict # Absent
      BY SettingsConstants
    <3> QED
      BY <1>1, <2>2, <3>1 DEF Asking, Lookups, Names, Decided
  <2>7. FoundOK(hit)
    BY <1>1, <2>2, <2>3, <2>4, <2>5 DEF FoundOK, Names
  <2>8. LocalsOK(hit)
    BY <1>1, <2>2, <2>5, <2>6, <2>7 DEF LocalsOK
  <2>9. \A o \in Results : Editing(t, o) => hit.dict = o /\ hit.pc # "edit"
    BY <2>2, <2>5 DEF Editing
  <2>10. hit.found = queries[hit.name] /\ hit.name \in Names /\ hit.pc \notin {"cache", "truncate"}
    BY <1>1, <2>2, <2>5 DEF f
  <2> QED
    BY <2>1, <2>2, <2>8, <2>9, <2>10, <1>1, DbLocal
<1> QED
  BY <1>2, <1>3

\* Moving the position of the file changes nothing else.
LEMMA DbSeek ==
    ASSUME SettingsGood, NEW t \in Threads, Seek(t)
    PROVE  SettingsGood'
<1> DEFINE w == thread[t]
           then == CASE w.pc = "seek" -> "load" [] w.pc = "seek_update" -> "load_update"
                   [] w.pc = "seek_write" -> "write"
           r == [w EXCEPT !.pc = then]
<1>1. /\ DOMAIN w = Fields /\ LocalsOK(w) /\ w.pc \in {"seek", "seek_update", "seek_write"}
      /\ (Asking(w) \/ Updating(w)) /\ FoundOK(w)
  BY Locals DEF Seek
<1>2. Put(t, r) /\ UNCHANGED <<file, readable, excess, queries, objects, users, other, shadowed>>
  BY DEF Seek, settingsHistory
<1>3. /\ w.pc = "seek" => then = "load"
      /\ w.pc = "seek_update" => then = "load_update"
      /\ w.pc = "seek_write" => then = "write"
  OBVIOUS
<1> HIDE DEF then
<1>4. /\ DOMAIN r = Fields /\ r.pc = then /\ r.ret = w.ret /\ r.name = w.name
      /\ r.op = w.op /\ r.arg = w.arg /\ r.found = w.found /\ r.dict = w.dict
      /\ r.todo = w.todo /\ r.stale = w.stale /\ r.buf = w.buf
  BY <1>1 DEF Fields
<1> HIDE DEF r
<1>5. Asking(r) \/ Updating(r)
  <2>1. CASE w.pc = "seek"
    <3>1. Asking(w) /\ r.pc = "load"
      BY <2>1, <1>1, <1>3, <1>4 DEF Updating, Updates
    <3>2. Asking(r)
      BY <2>1, <3>1, <1>4 DEF Asking, Lookups
    <3> QED
      BY <3>2
  <2>2. CASE w.pc = "seek_update"
    <3>1. Updating(w) /\ r.pc = "load_update"
      BY <2>2, <1>1, <1>3, <1>4 DEF Asking, Lookups
    <3>2. Updating(r)
      BY <2>2, <3>1, <1>4 DEF Updating, Updates, Fits
    <3> QED
      BY <3>2
  <2>3. CASE w.pc = "seek_write"
    <3>1. Updating(w) /\ r.pc = "write"
      BY <2>3, <1>1, <1>3, <1>4 DEF Asking, Lookups
    <3>2. Updating(r)
      BY <2>3, <3>1, <1>4 DEF Updating, Updates, Fits
    <3> QED
      BY <3>2
  <2> QED
    BY <1>1, <2>1, <2>2, <2>3
<1>6. r.pc \in {"load", "load_update", "write"} /\ (r.pc = "load" => w.pc = "seek")
  BY <1>1, <1>3, <1>4
<1>7. FoundOK(r)
  BY <1>1, <1>4, <1>6 DEF FoundOK
<1>8. LocalsOK(r)
  BY <1>1, <1>4, <1>5, <1>6, <1>7 DEF LocalsOK
<1>9. \A o \in Results : Editing(t, o) => r.dict = o /\ r.pc # "edit"
  BY <1>4, <1>6 DEF Editing
<1> QED
  BY <1>1, <1>2, <1>4, <1>6, <1>8, <1>9, DbLocal

\* What is read for an update is the file.
LEMMA DbLoadForUpdate ==
    ASSUME SettingsGood, NEW t \in Threads, LoadForUpdate(t)
    PROVE  SettingsGood'
<1> DEFINE w == thread[t]
           r == [w EXCEPT !.pc = "seek_write", !.buf = file,
                          !.stale = w.stale /\ w.op \notin {"insert", "remove"}]
<1>1. /\ DOMAIN w = Fields /\ w.pc = "load_update" /\ Updating(w) /\ FoundOK(w) /\ w.stale \in BOOLEAN
      /\ w.name \in Names \union {"id"}
  BY Locals DEF LoadForUpdate, Asking, Lookups
<1>2. Put(t, r) /\ UNCHANGED <<file, readable, excess, queries, objects, users, other, shadowed>>
  <2>1. DOMAIN thread = Threads
    BY DEF SettingsGood, ThreadInv
  <2> QED
    BY <2>1 DEF LoadForUpdate, settingsHistory, Put
<1>3. /\ DOMAIN r = Fields /\ r.pc = "seek_write" /\ r.ret = w.ret /\ r.name = w.name
      /\ r.op = w.op /\ r.arg = w.arg /\ r.found = w.found /\ r.dict = w.dict
      /\ r.todo = w.todo /\ r.buf = file /\ r.stale \in BOOLEAN
      /\ r.stale <=> w.stale /\ w.op \notin {"insert", "remove"}
  BY <1>1 DEF Fields
<1> HIDE DEF r
<1>4. Updating(r)
  BY <1>1, <1>3 DEF Updating, Updates, Fits, Edits
<1>5. FoundOK(r)
  BY <1>1, <1>3 DEF FoundOK
<1>6. LocalsOK(r)
  BY <1>1, <1>3, <1>4, <1>5 DEF LocalsOK
<1>7. \A o \in Results : Editing(t, o) => r.dict = o /\ r.pc # "edit"
  BY <1>3 DEF Editing
<1> QED
  BY <1>1, <1>2, <1>3, <1>6, <1>7, DbLocal

\* The kind of an update follows from what the lookup has found.
LEMMA DbUpsert ==
    ASSUME SettingsGood, NEW t \in Threads, Upsert(t)
    PROVE  SettingsGood'
<1> DEFINE w == thread[t]
           kind == IF w.found = Absent THEN "insert" ELSE "update"
           todo == IF w.op = "upsert" THEN [kind |-> kind, name |-> "other", value |-> w.arg]
                   ELSE [kind |-> kind, name |-> "users", value |-> w.todo]
           ret == IF w.op = "upsert" THEN "written" ELSE IF w.dict = Absent THEN "defaults" ELSE "saved"
           r == [w EXCEPT !.pc = "seek_update", !.todo = todo, !.ret = ret]
<1>1. /\ DOMAIN w = Fields /\ w.pc = "upsert" /\ Asking(w) /\ FoundOK(w) /\ w.stale \in BOOLEAN
      /\ w.name \in Names \union {"id"}
  BY Locals DEF Upsert, Updating, Updates
<1>2. Put(t, r) /\ UNCHANGED <<file, readable, excess, queries, objects, users, other, shadowed>>
  BY DEF Upsert, settingsHistory, Put, Writing
<1>3. /\ todo.kind = kind /\ (w.op = "upsert" => todo.name = "other" /\ todo.value = w.arg)
      /\ (w.op # "upsert" => todo.name = "users" /\ todo.value = w.todo)
  OBVIOUS
<1> HIDE DEF todo
<1>4. /\ DOMAIN r = Fields /\ r.pc = "seek_update" /\ r.ret = ret /\ r.name = w.name
      /\ r.op = w.op /\ r.arg = w.arg /\ r.found = w.found /\ r.dict = w.dict
      /\ r.todo = todo /\ r.stale = w.stale
  BY <1>1 DEF Fields
<1> HIDE DEF r
<1>5. ~w.stale => (kind = "insert" <=> Named(file, w.name) = {})
  BY <1>1 DEF FoundOK
<1>6. kind \in {"insert", "update"}
  OBVIOUS
<1> HIDE DEF kind
<1>7. Updating(r)
  <2>1. CASE w.op = "upsert"
    <3>1. w.name = "other" /\ w.dict = Absent /\ w.arg \in Values
      BY <2>1, <1>1 DEF Asking, Lookups, Edits
    <3>2. Fits(r)
      BY <2>1, <3>1, <1>3, <1>4, <1>5, <1>6 DEF Fits
    <3> QED
      BY <2>1, <3>1, <3>2, <1>3, <1>4 DEF Updating, Updates
  <2>2. CASE w.op # "upsert" /\ w.dict = Absent
    <3>1. w.name = "users" /\ w.op \in Edits \union {"read_users"} /\ w.todo = Defaults
      BY <2>2, <1>1, SettingsConstants DEF Asking, Lookups
    <3>2. Fits(r)
      BY <2>2, <3>1, <1>3, <1>4, <1>5, <1>6 DEF Fits
    <3> QED
      BY <2>2, <3>1, <3>2, <1>3, <1>4 DEF Updating, Updates
  <2>3. CASE w.op # "upsert" /\ w.dict # Absent
    <3>1. /\ w.name = "users" /\ w.op \in Edits /\ w.dict \in Results
          /\ ~w.stale => w.todo = Edited(w.op, w.arg, users)
      BY <2>3, <1>1 DEF Asking, Lookups
    <3>2. Fits(r)
      BY <2>3, <3>1, <1>3, <1>4, <1>5, <1>6 DEF Fits
    <3> QED
      BY <2>3, <3>1, <3>2, <1>3, <1>4 DEF Updating, Updates
  <2> QED
    BY <2>1, <2>2, <2>3
<1>8. FoundOK(r)
  BY <1>1, <1>4 DEF FoundOK
<1>9. LocalsOK(r)
  BY <1>1, <1>4, <1>7, <1>8 DEF LocalsOK
<1>10. \A o \in Results : Editing(t, o) => r.dict = o /\ r.pc # "edit"
  BY <1>4 DEF Editing
<1> QED
  BY <1>1, <1>2, <1>4, <1>9, <1>10, DbLocal

\* Without users, the defaults are saved.
LEMMA DbNoUsers ==
    ASSUME SettingsGood, NEW t \in Threads, GotUsers(t), thread[t].found = Absent
    PROVE  SettingsGood'
<1> DEFINE w == thread[t]
           none == [Searching(w, "users", "upsert") EXCEPT !.todo = Defaults]
<1>1. /\ DOMAIN w = Fields /\ w.pc = "got" /\ w.stale \in BOOLEAN
      /\ w.op \in Edits \union {"read_users"} /\ w.dict = Absent
  BY Locals DEF GotUsers, Asking, Updating, Lookups, Updates
<1>2. \A o \in Results : ~Editing(t, o)
  BY <1>1, SettingsConstants DEF Editing
<1>3. Put(t, none) /\ UNCHANGED <<file, readable, excess, queries, objects, users, other, shadowed>>
  BY DEF GotUsers, settingsHistory
<1>4. /\ DOMAIN none = Fields /\ none.pc = "search" /\ none.ret = "upsert" /\ none.name = "users"
      /\ none.op = w.op /\ none.found = Absent /\ none.dict = w.dict
      /\ none.todo = Defaults /\ none.stale = w.stale
  BY <1>1 DEF Fields, Searching
<1> HIDE DEF none
<1>5. Asking(none)
  BY <1>1, <1>4 DEF Asking, Lookups
<1>6. FoundOK(none)
  BY <1>4 DEF FoundOK
<1>7. LocalsOK(none)
  BY <1>1, <1>4, <1>5, <1>6 DEF LocalsOK, Names
<1> QED
  BY <1>1, <1>2, <1>3, <1>4, <1>7, DbLocal

\* The users that were looked up for a change are as in the file.
LEMMA DbTakeUsers ==
    ASSUME SettingsGood, NEW t \in Threads, TakeUsers(t), thread[t].found # Absent
    PROVE  SettingsGood'
<1> DEFINE w == thread[t]
           r == [w EXCEPT !.pc = "edit", !.dict = w.found]
<1>1. /\ DOMAIN w = Fields /\ w.pc = "again" /\ FoundOK(w) /\ w.stale \in BOOLEAN
      /\ w.name = "users" /\ w.op \in Edits \union {"read_users"} /\ w.dict = Absent
      /\ w.found \in Results
  BY Locals DEF TakeUsers, Asking, Updating, Lookups, Updates, FoundOK
<1>2. \A o \in Results : ~Editing(t, o)
  BY <1>1, SettingsConstants DEF Editing
<1>3. Put(t, r) /\ UNCHANGED <<file, readable, excess, queries, objects, users, other, shadowed>>
  BY DEF TakeUsers, settingsHistory
<1>4. /\ DOMAIN r = Fields /\ r.pc = "edit" /\ r.name = "users"
      /\ r.op = w.op /\ r.found = w.found /\ r.dict = w.found /\ r.stale = w.stale
  BY <1>1 DEF Fields
<1> HIDE DEF r
<1>5. Asking(r)
  BY <1>1, <1>4 DEF Asking
<1>6. FoundOK(r)
  BY <1>1, <1>4 DEF FoundOK
<1>7. LocalsOK(r)
  BY <1>1, <1>4, <1>5, <1>6 DEF LocalsOK, Names
<1> QED
  BY <1>1, <1>2, <1>3, <1>4, <1>7, DbLocal

\* A thread that goes on with a new lookup, and drops what it found before.
LEMMA DbLooksUp ==
    ASSUME SettingsGood, NEW t \in Threads, NEW n, NEW ret,
           Put(t, Anew(thread[t], n, ret)),
           UNCHANGED <<file, readable, excess, queries, objects, users, other, shadowed>>,
           \/ thread[t].pc \in {"got", "created"} /\ n = "users" /\ ret = "again"
           \/ thread[t].pc = "defaults" /\ n = "users" /\ ret = "created"
           \/ thread[t].pc = "saved" /\ n = "users" /\ ret = "done"
           \/ thread[t].pc = "written" /\ n = "other" /\ ret = "done"
    PROVE  SettingsGood'
<1> DEFINE w == thread[t]
           r == Anew(w, n, ret)
<1>1. /\ DOMAIN w = Fields /\ w.dict = Absent /\ n \in Names
      /\ w.pc \in {"got", "created", "defaults"} => w.op \in Edits \union {"read_users"}
      /\ w.pc = "saved" => w.op \in Edits
      /\ w.pc = "written" => w.op = "upsert"
  BY Locals DEF Asking, Updating, Lookups, Updates, Names
<1>2. Put(t, r)
  OBVIOUS
<1>3. /\ DOMAIN r = Fields /\ r.pc = "search" /\ r.ret = ret /\ r.name = n
      /\ r.op = w.op /\ r.found = Absent /\ r.dict = Absent /\ r.stale = FALSE
  BY <1>1 DEF Anew, Searching, Fields
<1> HIDE DEF r
<1>4. Asking(r)
  BY <1>1, <1>3 DEF Asking, Lookups
<1>5. FoundOK(r)
  BY <1>1, <1>3 DEF FoundOK, Names
<1>6. LocalsOK(r)
  BY <1>1, <1>3, <1>4, <1>5 DEF LocalsOK, Names
<1>7. \A o \in Results : ~Editing(t, o)
  BY <1>1, SettingsConstants DEF Editing
<1> QED
  BY <1>2, <1>3, <1>6, <1>7, DbLocal

\* The result of a lookup by id is not asked for again.
LEMMA DbLookupById ==
    ASSUME SettingsGood, NEW t \in Threads, CacheResult(t), thread[t].name = "id"
    PROVE  SettingsGood'
<1> DEFINE w == thread[t]
           r == [w EXCEPT !.pc = w.ret]
<1>1. /\ DOMAIN w = Fields /\ w.pc = "cache" /\ Asking(w) /\ FoundOK(w) /\ w.stale \in BOOLEAN
      /\ w.found = Absent
  BY Locals DEF CacheResult, Updating, Updates, FoundOK
<1>2. Put(t, r) /\ UNCHANGED <<file, readable, excess, queries, objects, users, other, shadowed>>
  BY DEF CacheResult
<1>3. /\ DOMAIN r = Fields /\ r.pc = w.ret /\ r.ret = w.ret /\ r.name = "id"
      /\ r.op = w.op /\ r.found = Absent /\ r.dict = w.dict /\ r.stale = w.stale
  BY <1>1 DEF Fields
<1> HIDE DEF r
<1>4. r.pc \in {"done", "defaults", "saved", "written"} /\ w.dict = Absent
  BY <1>1, <1>3 DEF Asking, Lookups
<1>5. Asking(r)
  BY <1>1, <1>3, <1>4 DEF Asking, Lookups
<1>6. FoundOK(r)
  BY <1>3, <1>4 DEF FoundOK
<1>7. LocalsOK(r)
  BY <1>1, <1>3, <1>4, <1>5, <1>6 DEF LocalsOK
<1>8. \A o \in Results : ~Editing(t, o)
  BY <1>4, SettingsConstants DEF Editing
<1> QED
  BY <1>1, <1>2, <1>3, <1>4, <1>7, <1>8, DbLocal

\* A request starts with a lookup, or with an update of the other setting.
LEMMA DbRequest ==
    ASSUME SettingsGood, NEW t \in Threads, NEW op, NEW arg, NEW r, Request(t, op, arg, r),
           \/ r = Searching(Resting, "users", "got") /\ op \in Edits \union {"read_users"}
           \/ r = Searching(Resting, "other", "loaded") /\ op = "load_plugins"
           \/ r = Searching(Resting, "other", "upsert") /\ op = "upsert" /\ arg \in Values
           \/ /\ r = Writing(Resting, [kind |-> "insert", name |-> "other", value |-> arg], "done")
              /\ op = "insert" /\ arg \in Values
           \/ r = Writing(Resting, [kind |-> "remove", name |-> "other"], "done") /\ op = "remove"
    PROVE  SettingsGood'
<1> DEFINE q == [r EXCEPT !.op = op, !.arg = arg]
<1>1. Put(t, q) /\ UNCHANGED <<file, readable, excess, queries, objects, users, other, shadowed>> /\ thread[t].pc = "idle"
  BY DEF Request, settingsHistory
<1>2. \A o \in Results : ~Editing(t, o)
  <2>1. thread[t].dict = Absent
    BY <1>1, Locals DEF Asking, Updating, Lookups, Updates
  <2> QED
    BY <2>1, SettingsConstants DEF Editing
<1>3. /\ DOMAIN q = Fields /\ q.op = op /\ q.arg = arg /\ q.found = Absent /\ q.dict = Absent
      /\ q.stale = FALSE /\ q.name \in Names /\ q.pc = r.pc /\ q.ret = r.ret /\ q.todo = r.todo
      /\ q.name = r.name
  BY DEF Searching, Writing, Resting, Fields, Names
<1> HIDE DEF q
<1>4. (Asking(q) \/ Updating(q)) /\ q.pc \in {"search", "seek_update"}
  <2>1. CASE r = Searching(Resting, "users", "got") /\ op \in Edits \union {"read_users"}
    <3>1. q.pc = "search" /\ q.ret = "got" /\ q.name = "users"
      BY <2>1, <1>3 DEF Searching, Resting
    <3> QED
      BY <2>1, <3>1, <1>3 DEF Asking, Lookups
  <2>2. CASE r = Searching(Resting, "other", "upsert") /\ op = "upsert" /\ arg \in Values
    <3>1. q.pc = "search" /\ q.ret = "upsert" /\ q.name = "other"
      BY <2>2, <1>3 DEF Searching, Resting
    <3> QED
      BY <2>2, <3>1, <1>3 DEF Asking, Lookups
  <2>5. CASE r = Searching(Resting, "other", "loaded") /\ op = "load_plugins"
    <3>1. q.pc = "search" /\ q.ret = "loaded" /\ q.name = "other"
      BY <2>5, <1>3 DEF Searching, Resting
    <3> QED
      BY <2>5, <3>1, <1>3 DEF Asking, Lookups
  <2>3. CASE /\ r = Writing(Resting, [kind |-> "insert", name |-> "other", value |-> arg], "done")
             /\ op = "insert" /\ arg \in Values
    <3>1. /\ q.pc = "seek_update" /\ q.ret = "done" /\ q.todo.kind = "insert"
          /\ q.todo.name = "other" /\ q.todo.value = arg
      BY <2>3, <1>3 DEF Writing, Resting
    <3> QED
      BY <2>3, <3>1, <1>3 DEF Updating, Updates
  <2>4. CASE r = Writing(Resting, [kind |-> "remove", name |-> "other"], "done") /\ op = "remove"
    <3>1. q.pc = "seek_update" /\ q.ret = "done" /\ q.todo.kind = "remove" /\ q.todo.name = "other"
      BY <2>4, <1>3 DEF Writing, Resting
    <3> QED
      BY <2>4, <3>1, <1>3 DEF Updating, Updates
  <2> QED
    BY <2>1, <2>2, <2>3, <2>4, <2>5
<1>5. FoundOK(q)
  BY <1>3, <1>4 DEF FoundOK, Names
<1>6. LocalsOK(q)
  BY <1>3, <1>4, <1>5 DEF LocalsOK
<1> QED
  BY <1>1, <1>2, <1>3, <1>4, <1>6, DbLocal

-----------------------------------------------------------------------------
(* The theorems *)

\* A new database.
LEMMA SettingsStarts == ASSUME SettingsInit PROVE SettingsInv
<1>1. \A n : Named(file, n) = {} /\ Value(file, n) = Absent
  BY DEF SettingsInit, Named, Value
<1>2. FileInv
  <2>1. Table(file)
    <3>1. DOMAIN file = {}
      BY DEF SettingsInit
    <3>2. DOMAIN file \subseteq 1 .. 0 /\ 0 \in Nat
      BY <3>1
    <3> QED
      BY <3>1, <3>2 DEF Table
  <2> QED
    BY <2>1, <1>1 DEF SettingsInit, FileInv, DocsInv
<1>3. \A n \in Names : queries[n] = Miss
  BY DEF SettingsInit
<1>4. DOMAIN queries = Names /\ DOMAIN objects = Results
  BY DEF SettingsInit
<1>5. DOMAIN thread = Threads /\ \A t \in Threads : thread[t] = Resting
  BY DEF SettingsInit
<1>6. CacheInv
  <2>1. ASSUME NEW o \in Results PROVE ~AsUsers(o)
    <3>1. o # Absent /\ o # Miss /\ queries["users"] = Miss
      BY <1>3, SettingsConstants
    <3>2. \A t \in Threads : thread[t].dict = Absent /\ thread[t].found = Absent
      BY <1>5, RestingLocals
    <3> QED
      BY <3>1, <3>2 DEF AsUsers
  <2>2. queries["users"] = Miss /\ queries["other"] = Miss
    BY <1>3, SettingsConstants
  <2> QED
    BY <2>1, <2>2, <1>3, <1>4, SettingsConstants DEF CacheInv, CacheGood
<1>7. ThreadInv
  <2>1. \A t \in Threads : \A q \in {thread[t]} : LocalsOK(q)
    BY <1>5, RestingLocals
  <2>2. \A t \in Threads : Private(t)
    BY <1>5, RestingLocals DEF Private
  <2> QED
    BY <1>5, <2>1, <2>2 DEF ThreadInv
<1> QED
  BY <1>2, <1>6, <1>7 DEF SettingsInit, SettingsInv, SettingsGood, Positions

\* What a crossing or a failure leaves is recorded for good.
LEMMA SettingsRecords ==
    ASSUME SettingsInv, SettingsNext
    PROVE  /\ crossed' \in BOOLEAN /\ failed' \in BOOLEAN /\ position' \in Positions
           /\ crossed => crossed'
           /\ failed => failed'
<1>1. crossed \in BOOLEAN /\ failed \in BOOLEAN /\ position \in Positions
  BY DEF SettingsInv
<1> USE <1>1 DEF settingsHistory, Positions
<1>2. ASSUME NEW t \in Threads, Step(t)
      PROVE  /\ crossed' \in BOOLEAN /\ failed' \in BOOLEAN /\ position' \in Positions
             /\ crossed => crossed'
             /\ failed => failed'
  <2>1. CASE Search(t)
    BY <2>1 DEF Search
  <2>2. CASE Seek(t)
    BY <2>2 DEF Seek
  <2>3. CASE LoadFails(t)
    BY <2>3 DEF LoadFails
  <2>4. CASE Load(t)
    BY <2>4 DEF Load
  <2>5. CASE CacheResult(t)
    <3>1. crossed' \in BOOLEAN /\ (crossed => crossed') /\ failed' = failed /\ position' = position
      BY <2>5 DEF CacheResult
    <3> QED
      BY <3>1
  <2>6. CASE LoadForUpdate(t)
    BY <2>6 DEF LoadForUpdate
  <2>7. CASE Write(t)
    <3>1. crossed' \in BOOLEAN /\ (crossed => crossed') /\ failed' = failed /\ position' \in {"written", "end"}
      BY <2>7 DEF Write
    <3> QED
      BY <3>1
  <2>8. CASE WriteFails(t)
    BY <2>8 DEF WriteFails
  <2>9. CASE \/ Upsert(t) \/ GotUsers(t) \/ DefaultsSaved(t) \/ LookUpCreated(t) \/ TakeUsers(t)
             \/ LookUpSaved(t) \/ AddCore(t) \/ Done(t)
    BY <2>9 DEF Upsert, GotUsers, DefaultsSaved, LookUpCreated, TakeUsers, LookUpSaved, AddCore, Done
  <2>15. CASE CutOff(t)
    <3>1. crossed' \in BOOLEAN /\ (crossed => crossed') /\ failed' = failed /\ position' \in {"start", "end"}
      BY <2>15 DEF CutOff
    <3> QED
      BY <3>1
  <2>10. ASSUME NEW given, SaveUsers(t, given)
         PROVE crossed' \in BOOLEAN /\ (crossed => crossed') /\ failed' = failed /\ position' = position
    BY <2>10 DEF SaveUsers
  <2>11. CASE ReadUsers(t)
    BY <2>11 DEF ReadUsers, NoChange
  <2>12. CASE CreateUser(t)
    BY <2>10, <2>12 DEF CreateUser, NoChange
  <2>13. CASE UpdateUser(t)
    BY <2>10, <2>13 DEF UpdateUser, NoChange
  <2>14. CASE DeleteUser(t)
    BY <2>10, <2>14 DEF DeleteUser, NoChange
  <2> QED
    BY <1>2, <2>1, <2>2, <2>3, <2>4, <2>5, <2>6, <2>7, <2>8, <2>9, <2>11, <2>12, <2>13, <2>14, <2>15
       DEF Step
<1>3. ASSUME NEW t \in Threads, NEW op, NEW arg, NEW r, Request(t, op, arg, r)
      PROVE  crossed' = crossed /\ failed' = failed /\ position' = position
  BY <1>3 DEF Request
<1> QED
  BY <1>2, <1>3 DEF SettingsNext, read_users, create_user, update_user, delete_user,
        upsert_setting_by_name, create_setting, delete_settings_by_category, load_active_plugins

\* Without a crossing or a failure, every step keeps what holds.
LEMMA SettingsStep ==
    ASSUME SettingsInv, SettingsNext, ~crossed', ~failed'
    PROVE  SettingsGood'
<1>1. SettingsGood /\ position \in Positions
  BY SettingsRecords DEF SettingsInv
<1>2. ASSUME NEW t \in Threads, Step(t) PROVE SettingsGood'
  <2>1. CASE Search(t)
    BY <2>1, <1>1, DbSearch
  <2>2. CASE Seek(t)
    BY <2>2, <1>1, DbSeek
  <2>3. CASE LoadFails(t)
    BY <2>3 DEF LoadFails
  <2>4. CASE Load(t)
    BY <2>4, <1>1, DbLoad
  <2>5. CASE CacheResult(t)
    BY <2>5, <1>1, DbCache, DbLookupById
  <2>6. CASE LoadForUpdate(t)
    BY <2>6, <1>1, DbLoadForUpdate
  <2>7. CASE Write(t)
    BY <2>7, <1>1, DbWrite
  <2>8. CASE WriteFails(t)
    BY <2>8 DEF WriteFails
  <2>9. CASE Upsert(t)
    BY <2>9, <1>1, DbUpsert
  <2>10. CASE GotUsers(t)
    <3>1. CASE thread[t].found = Absent
      BY <2>10, <3>1, <1>1, DbNoUsers
    <3>2. CASE thread[t].found # Absent
      <4>1. /\ Put(t, Anew(thread[t], "users", "again")) /\ thread[t].pc = "got"
            /\ UNCHANGED <<file, readable, excess, queries, objects, users, other, shadowed>>
        BY <2>10, <3>2 DEF GotUsers, settingsHistory
      <4> QED
        BY <4>1, <1>1, DbLooksUp
    <3> QED
      BY <3>1, <3>2
  <2>11. CASE DefaultsSaved(t)
    <3>1. /\ Put(t, Anew(thread[t], "users", "created"))
          /\ UNCHANGED <<file, readable, excess, queries, objects, users, other, shadowed>>
          /\ thread[t].pc = "defaults"
      BY <2>11 DEF DefaultsSaved, settingsHistory
    <3> QED
      BY <3>1, <1>1, DbLooksUp
  <2>12. CASE LookUpSaved(t)
    <3> DEFINE n == IF thread[t].pc = "saved" THEN "users" ELSE "other"
    <3>1. /\ Put(t, Anew(thread[t], n, "done"))
          /\ UNCHANGED <<file, readable, excess, queries, objects, users, other, shadowed>>
          /\ thread[t].pc \in {"saved", "written"}
      BY <2>12 DEF LookUpSaved, settingsHistory
    <3>2. /\ thread[t].pc = "saved" => n = "users"
          /\ thread[t].pc = "written" => n = "other"
      OBVIOUS
    <3> HIDE DEF n
    <3> QED
      BY <3>1, <3>2, <1>1, DbLooksUp
  <2>19. CASE CutOff(t)
    BY <2>19, <1>1, DbCutOff
  <2>20. CASE LookUpCreated(t)
    <3>1. /\ Put(t, Anew(thread[t], "users", "again")) /\ thread[t].pc = "created"
          /\ UNCHANGED <<file, readable, excess, queries, objects, users, other, shadowed>>
      BY <2>20 DEF LookUpCreated, settingsHistory
    <3> QED
      BY <3>1, <1>1, DbLooksUp
  <2>21. CASE TakeUsers(t)
    <3>1. CASE thread[t].found = Absent
      BY <2>21, <3>1, <1>1, DbStops DEF TakeUsers, settingsHistory
    <3>2. CASE thread[t].found # Absent
      BY <2>21, <3>2, <1>1, DbTakeUsers
    <3> QED
      BY <3>1, <3>2
  <2>22. CASE AddCore(t)
    BY <2>22, <1>1, DbAddCore
  <2>13. CASE Done(t)
    BY <2>13, <1>1, DbStops DEF Done, settingsHistory
  <2>14. ASSUME NoChange(t), thread[t].pc = "edit" PROVE SettingsGood'
    BY <2>14, <1>1, DbStops DEF NoChange, settingsHistory
  <2>15. CASE ReadUsers(t)
    BY <2>14, <2>15 DEF ReadUsers
  <2>16. CASE CreateUser(t)
    <3> DEFINE d == objects[thread[t].dict] \union {thread[t].arg}
    <3>1. \/ NoChange(t) /\ thread[t].pc = "edit"
          \/ SaveUsers(t, d) /\ thread[t].pc = "edit" /\ thread[t].op = "create_user"
      BY <2>16 DEF CreateUser
    <3>2. thread[t].op = "create_user" =>
              thread[t].op \in Edits /\ d = Edited(thread[t].op, thread[t].arg, objects[thread[t].dict])
      BY DEF Edited, Edits
    <3> HIDE DEF d
    <3> QED
      BY <3>1, <3>2, <2>14, <1>1, DbSave
  <2>17. CASE UpdateUser(t)
    <3> DEFINE d == {u \in objects[thread[t].dict] : u.id # thread[t].arg.id} \union {thread[t].arg}
    <3>1. \/ NoChange(t) /\ thread[t].pc = "edit"
          \/ SaveUsers(t, d) /\ thread[t].pc = "edit" /\ thread[t].op = "update_user"
      BY <2>17 DEF UpdateUser
    <3>2. thread[t].op = "update_user" =>
              thread[t].op \in Edits /\ d = Edited(thread[t].op, thread[t].arg, objects[thread[t].dict])
      BY DEF Edited, Edits
    <3> HIDE DEF d
    <3> QED
      BY <3>1, <3>2, <2>14, <1>1, DbSave
  <2>18. CASE DeleteUser(t)
    <3> DEFINE d == {u \in objects[thread[t].dict] : u.id # thread[t].arg}
    <3>1. \/ NoChange(t) /\ thread[t].pc = "edit"
          \/ SaveUsers(t, d) /\ thread[t].pc = "edit" /\ thread[t].op = "delete_user"
      BY <2>18 DEF DeleteUser
    <3>2. thread[t].op = "delete_user" =>
              thread[t].op \in Edits /\ d = Edited(thread[t].op, thread[t].arg, objects[thread[t].dict])
      BY DEF Edited, Edits
    <3> HIDE DEF d
    <3> QED
      BY <3>1, <3>2, <2>14, <1>1, DbSave
  <2> QED
    BY <1>2, <2>1, <2>2, <2>3, <2>4, <2>5, <2>6, <2>7, <2>8, <2>9, <2>10, <2>11, <2>12, <2>13,
       <2>15, <2>16, <2>17, <2>18, <2>19, <2>20, <2>21, <2>22 DEF Step
<1>3. ASSUME NEW t \in Threads PROVE read_users(t) => SettingsGood'
  BY <1>1, DbRequest DEF read_users
<1>4. ASSUME NEW t \in Threads, NEW name PROVE create_user(t, name) => SettingsGood'
  BY <1>1, DbRequest DEF create_user, Edits
<1>5. ASSUME NEW t \in Threads, NEW id, NEW name PROVE update_user(t, id, name) => SettingsGood'
  BY <1>1, DbRequest DEF update_user, Edits
<1>6. ASSUME NEW t \in Threads, NEW id PROVE delete_user(t, id) => SettingsGood'
  BY <1>1, DbRequest DEF delete_user, Edits
<1>7. ASSUME NEW t \in Threads, NEW v \in Values PROVE upsert_setting_by_name(t, v) => SettingsGood'
  BY <1>1, DbRequest DEF upsert_setting_by_name
<1>8. ASSUME NEW t \in Threads, NEW v \in Values PROVE create_setting(t, v) => SettingsGood'
  BY <1>1, DbRequest DEF create_setting
<1>9. ASSUME NEW t \in Threads PROVE delete_settings_by_category(t) => SettingsGood'
  BY <1>1, DbRequest DEF delete_settings_by_category
<1>10. ASSUME NEW t \in Threads PROVE load_active_plugins(t) => SettingsGood'
  BY <1>1, DbRequest DEF load_active_plugins
<1> QED
  BY <1>2, <1>3, <1>4, <1>5, <1>6, <1>7, <1>8, <1>9, <1>10 DEF SettingsNext

\* Until two changes cross or the disk fails, the file holds the values last saved, the
\* cached objects agree with it unless a thread is changing one in place, and what the
\* threads have read and mean to save is right or marked as stale.
THEOREM SettingsInvariant == SettingsSpec => []SettingsInv
<1>1. SettingsInit => SettingsInv
  BY SettingsStarts
<1>2. SettingsInv /\ [SettingsNext]_settingsVars => SettingsInv'
  <2>1. CASE SettingsNext
    BY <2>1, SettingsRecords, SettingsStep DEF SettingsInv
  <2>2. ASSUME SettingsInv, UNCHANGED settingsVars PROVE SettingsInv'
    <3>1. UNCHANGED <<file, readable, excess, position, queries, objects, thread, users, other, shadowed,
                      crossed, failed>>
      BY <2>2 DEF settingsVars, settingsHistory
    <3>6. Cutting' <=> Cutting
      BY <3>1 DEF Cutting
    <3>2. FileInv => FileInv'
      BY <3>1, <3>6, FileKept
    <3>3. \A o : Current(o)' <=> Current(o)
      BY <3>1 DEF Current, Editing
    <3>4. CacheInv => CacheInv'
      <4>1. \A o : (AsUsers(o)' <=> AsUsers(o)) /\ (AsOther(o)' <=> AsOther(o))
        BY <3>1 DEF AsUsers, AsOther
      <4>2. ASSUME CacheGood PROVE CacheGood'
        <5>1. PICK o : o = queries["users"]
          OBVIOUS
        <5>2. o \in Results => Current(o)'
          BY <4>2, <5>1, <3>3 DEF CacheGood
        <5>3. (queries["users"] \in Results => Current(queries["users"]))'
          BY <5>1, <5>2, <3>1 DEF Current, Editing
        <5> QED
          BY <4>2, <5>3, <3>1 DEF CacheGood, OtherOK
      <4> QED
        BY <4>1, <4>2, <3>1, <3>6 DEF CacheInv
    <3>5. ThreadInv => ThreadInv'
      <4> SUFFICES ASSUME ThreadInv PROVE ThreadInv'
        OBVIOUS
      <4>1. ASSUME NEW s \in Threads, NEW q \in {thread'[s]} PROVE LocalsOK(q)'
        <5>1. LocalsOK(q)
          BY <3>1 DEF ThreadInv
        <5> QED
          BY <5>1, <3>1, <3>3, LocalsKept
      <4>2. ASSUME NEW s \in Threads PROVE Private(s)'
        <5>1. Private(s)
          BY DEF ThreadInv
        <5> QED
          BY <5>1, <3>1 DEF Private
      <4> QED
        BY <4>1, <4>2, <3>1 DEF ThreadInv
    <3> QED
      BY <2>2, <3>1, <3>2, <3>4, <3>5 DEF SettingsInv, SettingsGood
  <2> QED
    BY <2>1, <2>2
<1> QED
  BY <1>1, <1>2, PTL DEF SettingsSpec

\* When no thread is at work, nobody is changing a dictionary.
LEMMA NobodyEdits ==
    ASSUME ThreadInv, AllIdle, NEW o \in Results
    PROVE  \A s \in Threads : ~Editing(s, o)
BY EditingFacts DEF AllIdle

\* When no thread is at work, the cached results are those of the file.
LEMMA NobodyCuts ==
    ASSUME CacheInv, AllIdle
    PROVE  CacheGood
BY DEF AllIdle, CacheInv, Cutting

\* The users in the file and in the cache are what the completed changes made of them
\* (crud.get_users, create_user, update_user, delete_user), however many threads there
\* are, until changes cross, a read moves the shared position at a bad moment, or a
\* write fails.
THEOREM UsersAreAsSaved == SettingsSpec => []UsersAsSaved
<1>1. SettingsInv => UsersAsSaved
  <2> SUFFICES ASSUME SettingsInv, AllIdle, ~crossed, ~failed
               PROVE  /\ users # {} => Value(file, "users") = users
                      /\ queries["users"] # Miss /\ users # {} => Cached("users") = users
    BY DEF UsersAsSaved
  <2>1. FileInv /\ CacheInv /\ ThreadInv /\ CacheGood
    BY NobodyCuts DEF SettingsInv, SettingsGood
  <2>2. users # {} => Named(file, "users") # {} /\ Value(file, "users") = users
    BY <2>1 DEF FileInv, DocsInv
  <2>3. ASSUME queries["users"] # Miss, users # {} PROVE Cached("users") = users
    <3>1. queries["users"] \in Results
      BY <2>1, <2>2, <2>3 DEF CacheInv, CacheGood, Names
    <3>2. PICK o : o = queries["users"]
      OBVIOUS
    <3>3. Current(o) /\ o \in Results
      BY <2>1, <3>1, <3>2 DEF CacheGood
    <3>4. objects[o] = users
      BY <2>1, <3>3, NobodyEdits DEF Current
    <3> QED
      BY <3>1, <3>2, <3>4, SettingsConstants DEF Cached
  <2> QED
    BY <2>2, <2>3
<1> QED
  BY <1>1, SettingsInvariant, PTL

\* A setting reads as it was last saved (crud.upsert_setting_by_name, create_setting,
\* delete_settings_by_category), in the file and in the cache, until a POST of its name
\* is shadowed by an older document, changes cross, a read moves the shared position
\* at a bad moment, or a write fails.  (load_active_plugins_from_db may have added the
\* core plugin to the cached list.)
THEOREM SettingsAreAsSaved == SettingsSpec => []SettingAsSaved
<1>1. SettingsInv => SettingAsSaved
  <2> SUFFICES ASSUME SettingsInv, AllIdle, ~crossed, ~failed, ~shadowed
               PROVE  /\ Value(file, "other") = other
                      /\ queries["other"] # Miss =>
                            \/ Cached("other") = other
                            \/ other # Absent /\ Cached("other") = other \union {Core}
    BY DEF SettingAsSaved
  <2>1. FileInv /\ CacheInv /\ CacheGood
    BY NobodyCuts DEF SettingsInv, SettingsGood
  <2>2. Value(file, "other") = other /\ (Named(file, "other") = {} <=> other = Absent)
    BY <2>1 DEF FileInv, DocsInv
  <2>3. CASE queries["other"] = Absent
    BY <2>1, <2>2, <2>3 DEF CacheGood, Names, Cached
  <2>4. CASE queries["other"] \in Results
    <3>1. other # Absent /\ OtherOK(objects[queries["other"]])
      BY <2>1, <2>2, <2>4 DEF CacheGood, Names
    <3> QED
      BY <2>2, <2>4, <3>1, SettingsConstants DEF OtherOK, Cached
  <2>5. CASE queries["other"] = Miss
    BY <2>2, <2>5
  <2> QED
    BY <2>1, <2>3, <2>4, <2>5 DEF CacheInv, Names
<1> QED
  BY <1>1, SettingsInvariant, PTL
=============================================================================
