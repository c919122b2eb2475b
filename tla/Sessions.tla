------------------------------ MODULE Sessions ------------------------------
(***************************************************************************)
(* The session of one user: the working memory in the cache, the StrayCat  *)
(* each request and websocket makes of it (auth/connection.py,             *)
(* looking_glass/stray_cat.py), the conversation turn, the deletion of the *)
(* history, and the table of websockets (websocket_manager.py).            *)
(*                                                                         *)
(* A working memory is an object in a heap.  The in_memory cache hands out *)
(* references to the object it holds; the file_system cache pickles it, so *)
(* inserts and loads copy (copies).  It truncates the file before it       *)
(* writes, and a load in between, or after the process died in between,    *)
(* raises.  Of the working memory only the conversation history is kept.   *)
(* Cache keys contain the user id, so other users only matter by filling   *)
(* the in_memory cache (Evict).                                            *)
(***************************************************************************)
EXTENDS Naturals, Sequences, FiniteSets

CONSTANTS
    Sockets,       \* websocket connections the user may open
    Requests,      \* HTTP requests of the user
    CacheKinds,    \* values of copies to try
    MaxHistory,    \* MAX_WORKING_HISTORY_LENGTH
    MaxTurns,      \* bound on conversation turns
    MaxActive,     \* bound on connections and requests open at the same time
    MaxFaults,     \* bound on evictions from the in_memory cache and restarts
    None

Actors == Sockets \union Requests

ASSUME SessionsAssumption ==
    /\ IsFiniteSet(Actors) /\ Sockets \intersect Requests = {}
    /\ None \notin Sockets /\ None \notin Nat
    /\ CacheKinds \subseteq BOOLEAN
    /\ MaxHistory \in Nat \ {0} /\ MaxTurns \in Nat /\ MaxFaults \in Nat

Objects == 1 .. Cardinality(Actors) + 2

VARIABLES
    copies,      \* TRUE: file_system cache, FALSE: in_memory cache
    heap,        \* heap[o]: the history of working memory object o
    cache,       \* the object in the cache, or None
    cut,         \* the file of the file_system cache is truncated
    wm,          \* wm[a]: the object a's StrayCat holds, or None
    pc,          \* pc[a]: where a is
    turn,        \* turn[a]: the number of the turn a runs, 0 between turns
    turns,       \* turns begun so far
    connections, \* the socket WebsocketManager has for the user, or None
    evictions,   \* evictions so far
    restarts,    \* restarts so far
    kept,        \* history: last turn saved since the history was last deleted; 0 for none
    wiped,       \* history: turns that had ended when the history was deleted
    torn,        \* history: turns that were running when the history was deleted
    forked,      \* history: two StrayCats, or one and the cache, have held different
                 \* objects while two were in use
    tail,        \* tail[a]: the slice of the history a has taken and will assign
    interfered   \* history: a turn appended to a history, or it was deleted, between
                 \* another turn's append to it and that turn's assignment

memory == <<heap, cache, cut, wm, forked>>
ghosts == <<kept, wiped, torn>>
bounds == <<evictions, restarts>>
updates == <<tail, interfered>>
vars == <<copies, memory, pc, turn, turns, connections, bounds, updates, ghosts>>

-----------------------------------------------------------------------------
(* Objects and the cache *)

Fresh == CHOOSE o \in Objects : o # cache /\ \A a \in Actors : wm[a] # o

Users(w) == {a \in Actors : w[a] # None}

\* Objects nobody refers to are garbage.
SetMemory(h, c, w) ==
    /\ cache' = c
    /\ wm' = w
    /\ forked' = (forked \/ (/\ Cardinality(Users(w)) > 1
                             /\ \E a, b \in Users(w) : w[a] # w[b] \/ c \notin {w[a], None}))
    /\ heap' = [o \in Objects |-> IF o = c \/ \E a \in Actors : w[a] = o THEN h[o] ELSE <<>>]

\* The cached working memory, or a new one that is not put into the cache.  A
\* truncated file raises.
load_working_memory_from_cache(a) ==
    LET o == IF cache # None /\ ~copies THEN cache ELSE Fresh
        h == IF cache = None THEN <<>> ELSE heap[cache]
    IN  /\ ~cut
        /\ SetMemory([heap EXCEPT ![o] = h], cache, [wm EXCEPT ![a] = o])
        /\ UNCHANGED cut

\* Insert wm[a] into the cache; w says who holds what afterwards.
update_working_memory_cache(a, w) ==
    LET o == IF ~copies THEN wm[a] ELSE IF cache = None THEN Fresh ELSE cache
    IN  /\ SetMemory([heap EXCEPT ![o] = heap[wm[a]]], o, w)
        /\ cut' = FALSE

\* self.history[-MAX_WORKING_HISTORY_LENGTH:]
Recent(h) == SubSeq(h, IF Len(h) > MaxHistory THEN Len(h) - MaxHistory + 1 ELSE 1, Len(h))

\* update_history appends to the list, slices it and assigns the slice, with no
\* lock: stages after the append.
MidUpdate == {"human_slice", "human_assign", "answer_slice", "answer_assign"}

Interferes(a) == \E b \in Actors \ {a} : wm[b] = wm[a] /\ pc[b] \in MidUpdate

Goto(a, l) == pc' = [pc EXCEPT ![a] = l]

Active == {a \in Actors : pc[a] # "idle"}

Running == {turn[a] : a \in {b \in Actors : pc[b] \notin {"idle", "accept", "open", "wipe", "end"}}}

BeginTurn(a) ==
    /\ turns < MaxTurns
    /\ turns' = turns + 1
    /\ turn' = [turn EXCEPT ![a] = turns + 1]

-----------------------------------------------------------------------------
(* HTTP requests *)

\* ConnectionAuth makes a StrayCat before the endpoint runs.
HttpStart(r) ==
    /\ pc[r] = "idle" /\ Cardinality(Active) < MaxActive
    /\ load_working_memory_from_cache(r)
    /\ \/ Goto(r, "human") /\ BeginTurn(r)
       \/ Goto(r, "wipe") /\ UNCHANGED <<turn, turns>>
       \/ Goto(r, "end") /\ UNCHANGED <<turn, turns>>    \* any other endpoint
    /\ UNCHANGED <<updates, copies, connections, bounds, ghosts>>

wipe_conversation_history(r) ==
    /\ pc[r] = "wipe"
    /\ heap' = [heap EXCEPT ![wm[r]] = <<>>]
    /\ interfered' = (interfered \/ Interferes(r))
    /\ Goto(r, "end")
    /\ kept' = 0
    /\ wiped' = (1 .. turns) \ Running
    /\ torn' = torn \union Running
    /\ UNCHANGED <<tail, copies, cache, cut, wm, forked, turn, turns, connections, bounds>>

\* Mutant of End: the working memory is not saved after the endpoint.
EndWithoutSave(a) ==
    /\ pc[a] = "end"
    /\ SetMemory(heap, cache, [wm EXCEPT ![a] = None])
    /\ Goto(a, "idle")
    /\ turn' = [turn EXCEPT ![a] = 0]
    /\ UNCHANGED <<updates, copies, cut, turns, connections, bounds, ghosts>>

\* After the endpoint, of a request or of a websocket, ConnectionAuth saves
\* the working memory and drops the StrayCat.
End(a) ==
    /\ pc[a] = "end"
    /\ update_working_memory_cache(a, [wm EXCEPT ![a] = None])
    /\ Goto(a, "idle")
    /\ turn' = [turn EXCEPT ![a] = 0]
    /\ UNCHANGED <<updates, copies, turns, connections, bounds, ghosts>>

\* An exception in the endpoint skips the rest of the generator.
Abort(a) ==
    /\ pc[a] = "abort"
    /\ SetMemory(heap, cache, [wm EXCEPT ![a] = None])
    /\ Goto(a, "idle")
    /\ turn' = [turn EXCEPT ![a] = 0]
    /\ UNCHANGED <<updates, copies, cut, turns, connections, bounds, ghosts>>

-----------------------------------------------------------------------------
(* The conversation turn, StrayCat.run *)

Dumping == [save |-> "dump", save_reply |-> "dump_reply", save_error |-> "dump_error"]

AfterTurn(a, httpLabel) == Goto(a, IF a \in Sockets THEN "send" ELSE httpLabel)

fast_reply(a) ==
    /\ pc[a] = "human"
    /\ Goto(a, "save_reply")
    /\ UNCHANGED <<updates, copies, memory, turn, turns, connections, bounds, ghosts>>

\* The first statement of update_history appends to the list in place.
Say(a, who, next) ==
    /\ heap' = [heap EXCEPT ![wm[a]] = Append(@, <<who, turn[a]>>)]
    /\ interfered' = (interfered \/ Interferes(a))
    /\ Goto(a, next)
    /\ UNCHANGED <<tail, copies, cache, cut, wm, forked, turn, turns, connections, bounds, ghosts>>

Human(a) == pc[a] = "human" /\ Say(a, "Human", "human_slice")

\* Mutant of Answer: the working memory is loaded again before the AI's part.
AnswerReloads(a) ==
    /\ pc[a] = "answer"
    /\ LET h == IF cache = None THEN <<>> ELSE heap[cache]
       IN  heap' = [heap EXCEPT ![wm[a]] = Append(h, <<"AI", turn[a]>>)]
    /\ interfered' = (interfered \/ Interferes(a))
    /\ Goto(a, "answer_slice")
    /\ UNCHANGED <<tail, copies, cache, cut, wm, forked, turn, turns, connections, bounds, ghosts>>

Answer(a) == pc[a] = "answer" /\ Say(a, "AI", "answer_slice")

\* The second statement makes a new list of the last messages ...
Slice(a) ==
    /\ \/ pc[a] = "human_slice" /\ Goto(a, "human_assign")
       \/ pc[a] = "answer_slice" /\ Goto(a, "answer_assign")
    /\ tail' = [tail EXCEPT ![a] = Recent(heap[wm[a]])]
    /\ UNCHANGED <<interfered, copies, memory, turn, turns, connections, bounds, ghosts>>

\* ... and assigns it: what happened to the history since is lost.
Assign(a) ==
    /\ \/ pc[a] = "human_assign" /\ Goto(a, "answer")
       \/ pc[a] = "answer_assign" /\ Goto(a, "save")
    /\ heap' = [heap EXCEPT ![wm[a]] = tail[a]]
    /\ tail' = [tail EXCEPT ![a] = <<>>]
    /\ UNCHANGED <<interfered, copies, cache, cut, wm, forked, turn, turns, connections, bounds, ghosts>>

\* A recall error becomes a dict, which is neither a CatMessage to serialize
\* nor one to send: an HTTP request fails after the turn was saved.
RecallFails(a) ==
    /\ pc[a] = "answer"
    /\ Goto(a, "save_error")
    /\ UNCHANGED <<updates, copies, memory, turn, turns, connections, bounds, ghosts>>

\* An agent error skips the save; the dict returned over HTTP is no CatMessage.
AgentFails(a) ==
    /\ pc[a] = "answer"
    /\ AfterTurn(a, "abort")
    /\ UNCHANGED <<updates, copies, memory, turn, turns, connections, bounds, ghosts>>

\* FileSystemCache.insert opens the file, which truncates it.
Truncate(a) ==
    /\ copies
    /\ \E l \in DOMAIN Dumping : pc[a] = l /\ Goto(a, Dumping[l])
    /\ cut' = TRUE
    /\ UNCHANGED <<updates, copies, heap, cache, wm, forked, turn, turns, connections, bounds, ghosts>>

\* The working memory cannot be pickled: the file stays truncated, and the turn
\* ends like one that failed.
DumpFails(a) ==
    /\ copies /\ pc[a] \in {"dump", "dump_reply", "dump_error"}
    /\ AfterTurn(a, "abort")
    /\ UNCHANGED <<updates, copies, memory, turn, turns, connections, bounds, ghosts>>

Saving(a) ==
    IF copies THEN pc[a] \in {"dump", "dump_reply", "dump_error"}
    ELSE pc[a] \in {"save", "save_reply", "save_error"}

\* Mutant of Save: the turn is not written to the cache.
SaveNothing(a) ==
    /\ Saving(a)
    /\ kept' = IF pc[a] \in {"save", "dump"} /\ turn[a] \notin torn THEN turn[a] ELSE kept
    /\ AfterTurn(a, IF pc[a] \in {"save_error", "dump_error"} THEN "abort" ELSE "end")
    /\ UNCHANGED <<updates, copies, memory, turn, turns, connections, bounds, wiped, torn>>

Save(a) ==
    /\ Saving(a)
    /\ update_working_memory_cache(a, wm)
    /\ kept' = IF pc[a] \in {"save", "dump"} /\ turn[a] \notin torn THEN turn[a] ELSE kept
    /\ AfterTurn(a, IF pc[a] \in {"save_error", "dump_error"} THEN "abort" ELSE "end")
    /\ UNCHANGED <<updates, copies, turn, turns, connections, bounds, wiped, torn>>

\* The answer goes to the socket in the table.  When its client is gone the
\* exception ends the endpoint, saving (WebSocketDisconnect) or not.
Send(s) ==
    /\ pc[s] = "send"
    /\ \/ Goto(s, "open") /\ UNCHANGED connections
       \/ \E l \in {"end", "abort"} : Goto(s, l) /\ connections' = None
    /\ turn' = [turn EXCEPT ![s] = 0]
    /\ UNCHANGED <<updates, copies, memory, turns, bounds, ghosts>>

-----------------------------------------------------------------------------
(* Websockets *)

WsConnect(s) ==
    /\ pc[s] = "idle" /\ Cardinality(Active) < MaxActive
    /\ load_working_memory_from_cache(s)
    /\ Goto(s, "accept")
    /\ UNCHANGED <<updates, copies, turn, turns, connections, bounds, ghosts>>

add_connection(s) ==
    /\ pc[s] = "accept"
    /\ connections' = s
    /\ Goto(s, "open")
    /\ UNCHANGED <<updates, copies, memory, turn, turns, bounds, ghosts>>

\* handle_messages: the working memory is loaded again, then the turn runs.
WsMessage(s) ==
    /\ pc[s] = "open"
    /\ load_working_memory_from_cache(s)
    /\ BeginTurn(s)
    /\ Goto(s, "human")
    /\ UNCHANGED <<updates, copies, connections, bounds, ghosts>>

\* The file is truncated: the exception ends the endpoint.  A request or a
\* connection that meets it fails before it begins.
WsLoadFails(s) ==
    /\ pc[s] = "open" /\ cut
    /\ connections' = None
    /\ Goto(s, "abort")
    /\ UNCHANGED <<updates, copies, memory, turn, turns, bounds, ghosts>>

\* Mutant of remove_connection: the entry is left behind.
LeaveEntry(s) ==
    /\ pc[s] = "open"
    /\ Goto(s, "end")
    /\ UNCHANGED <<updates, copies, memory, turn, turns, connections, bounds, ghosts>>

\* The client disconnects: the entry of the user is deleted, whoever made it.
remove_connection(s) ==
    /\ pc[s] = "open"
    /\ connections' = None
    /\ Goto(s, "end")
    /\ UNCHANGED <<updates, copies, memory, turn, turns, bounds, ghosts>>

-----------------------------------------------------------------------------

\* InMemoryCache.insert for other users deletes the oldest tenth when full.
Evict ==
    /\ ~copies /\ cache # None /\ evictions + restarts < MaxFaults
    /\ evictions' = evictions + 1
    /\ SetMemory(heap, None, wm)
    /\ UNCHANGED <<updates, copies, cut, restarts, pc, turn, turns, connections, ghosts>>

\* The process dies and starts again, with the files of the file_system cache.
\* Of a save under way, the file may be truncated and not yet written, and a
\* deletion that it was to save is lost.
Restart ==
    /\ evictions + restarts < MaxFaults
    /\ restarts' = restarts + 1
    /\ SetMemory(heap, IF copies THEN cache ELSE None, [a \in Actors |-> None])
    /\ cut' \in IF copies /\ cache # None /\ \E a \in Actors : pc[a] = "end"
                THEN BOOLEAN ELSE {cut}
    /\ pc' = [a \in Actors |-> "idle"]
    /\ connections' = None
    /\ kept' = IF copies THEN kept ELSE 0
    /\ wiped' = IF \E a \in Actors : pc[a] = "end" THEN {} ELSE wiped
    /\ turn' = [a \in Actors |-> 0]
    /\ tail' = [a \in Actors |-> <<>>]
    /\ UNCHANGED <<interfered, copies, turns, evictions, torn>>

Init ==
    /\ copies \in CacheKinds
    /\ forked = FALSE /\ interfered = FALSE
    /\ tail = [a \in Actors |-> <<>>]
    /\ heap = [o \in Objects |-> <<>>]
    /\ cache = None
    /\ wm = [a \in Actors |-> None]
    /\ pc = [a \in Actors |-> "idle"]
    /\ turn = [a \in Actors |-> 0]
    /\ turns = 0
    /\ connections = None
    /\ evictions = 0 /\ restarts = 0
    /\ cut = FALSE
    /\ kept = 0
    /\ wiped = {}
    /\ torn = {}

TurnStep(a) ==
    \/ fast_reply(a) \/ Human(a) \/ Answer(a) \/ Slice(a) \/ Assign(a)
    \/ RecallFails(a) \/ AgentFails(a)
    \/ Truncate(a) \/ DumpFails(a) \/ Save(a)

Next ==
    \/ Evict \/ Restart
    \/ \E r \in Requests : HttpStart(r) \/ wipe_conversation_history(r)
    \/ \E s \in Sockets : WsConnect(s) \/ add_connection(s) \/ WsMessage(s) \/ WsLoadFails(s)
                          \/ remove_connection(s) \/ Send(s)
    \/ \E a \in Actors : TurnStep(a) \/ End(a) \/ Abort(a)

Spec == Init /\ [][Next]_vars

-----------------------------------------------------------------------------
(* Properties *)

Holds(h, m) == \E i \in 1 .. Len(h) : h[i] = m

\* In every working memory, cached or held by a StrayCat, a message occurs
\* once and no answer comes before its question, however the requests and
\* sockets of the user interleave.  The question is there, too, unless the
\* history was deleted during the turn or cut off in between, or another turn
\* or a deletion came between the append and the assignment of update_history.
HistoryOrdered ==
    \A o \in Objects :
        LET h == heap[o] IN
        /\ \A i, j \in 1 .. Len(h) :
               /\ h[i] = h[j] => i = j
               /\ h[i][1] = "AI" /\ h[j] = <<"Human", h[i][2]>> => j < i
        /\ ~interfered => \A i \in 1 .. Len(h) :
               (h[i][1] = "AI" /\ h[i][2] \notin torn /\ Len(h) < MaxHistory) =>
                   Holds(h, <<"Human", h[i][2]>>)

Quiet == \A a \in Actors : pc[a] \in {"idle", "open"}

\* As long as everyone works on one object (forked) and no update of its
\* history was interrupted by another change of it (interfered), the last turn
\* that was saved since the history was deleted is in the cached conversation
\* between turns, unless the history is full and may have pushed it out, or the
\* cache evicted the session.  With the file_system cache it survives a restart,
\* unless the process died, or pickling failed, in the middle of a later save.
LastTurnKept ==
    (Quiet /\ ~forked /\ ~interfered /\ kept # 0 /\ evictions = 0 /\ ~cut) =>
        /\ cache # None
        /\ \/ Holds(heap[cache], <<"AI", kept>>)
           \/ Len(heap[cache]) >= MaxHistory

WipeHolds ==
    (Quiet /\ cache # None) =>
        \A i \in 1 .. Len(heap[cache]) : heap[cache][i][2] \notin wiped

\* As long as everyone works on one object, and nothing came between the
\* append and the assignment of an update of its history, a deleted conversation
\* stays deleted: between turns the cached history has no message of a turn that
\* had ended before the deletion.
WipeSticks == ~forked /\ ~interfered => WipeHolds

\* The table never names a socket whose endpoint has left handle_messages.
NoDeadConnection ==
    connections # None => pc[connections] \notin {"idle", "accept", "end", "abort"}
=============================================================================
