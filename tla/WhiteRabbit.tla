---------------------------- MODULE WhiteRabbit ----------------------------
(***************************************************************************)
(* The scheduler: WhiteRabbit's methods over the APScheduler it starts, a  *)
(* BackgroundScheduler with a memory job store, coalesce off, a bound on   *)
(* the running instances of a job id and the default misfire grace of one  *)
(* second.  The scheduler thread takes the due jobs out of the store, pool *)
(* threads run them and call the listener; API calls come in between.      *)
(*                                                                         *)
(* Time is counted in ticks, TicksPerSecond to the second, because ids are *)
(* made from whole seconds and instants are not.  An event in tick t       *)
(* happens a little after t, so a run due at t is due during tick t.       *)
(* A job that is not callable makes the schedule methods raise before they *)
(* change anything; such calls are left out.                               *)
(***************************************************************************)
EXTENDS Naturals, Integers, FiniteSets, FiniteSetsExt

CONSTANTS
    Functions,       \* names of the functions that are scheduled
    GivenIds,        \* job ids a caller passes; NoId makes the method generate one
    NoId,
    Delays,          \* ticks to wait, as the caller asks
    Periods,         \* periods of interval and cron jobs
    Ends,            \* their end_date
    Never,           \* no end_date: an instant the clock does not reach
    TicksPerSecond,
    MaxInstances,    \* runs of one id that may be in the pool together
    UtcOffset,       \* local time minus UTC, in ticks (hosts on or east of UTC)
    MaxCalls,        \* bound on schedule calls
    MaxTime          \* bound on the clock

ASSUME RabbitAssumption ==
    /\ Delays \subseteq Nat /\ Periods \subseteq Nat \ {0}
    /\ Never \in Nat /\ Never > MaxTime + UtcOffset /\ Ends \subseteq Nat /\ Never \in Ends
    /\ TicksPerSecond \in Nat \ {0} /\ MaxInstances \in Nat \ {0}
    /\ UtcOffset \in Nat /\ MaxCalls \in Nat /\ MaxTime \in Nat

VARIABLES
    clock,
    store,      \* the job store: records, one per id
    pool,       \* what the scheduler handed to the pool and is not finished
    calls,      \* number of accepted schedule calls
    asked,      \* history, asked[c]: when the caller wants one-shot call c to run
    held,       \* history: calls paused by pause_job and not resumed
    removed,    \* history: calls whose job was removed through the API
    outcome     \* history: what became of the runs handed to the pool, and when a
                \* one-shot job was started

rabbitVars == <<clock, store, pool, calls, asked, held, removed, outcome>>
history == <<asked, held, removed, outcome>>

NoTime == -1
Grace == TicksPerSecond
Second(t) == t \div TicksPerSecond
Ids == {j.id : j \in store}
JobOf(id) == CHOOSE j \in store : j.id = id

-----------------------------------------------------------------------------
(* The triggers of APScheduler.  every = 0 is a date trigger.              *)

\* The first time of the trigger's grid after now, for a job that is added or
\* resumed.  A date trigger gives its date, past or not.
FirstFire(j, now) ==
    IF j.every = 0 THEN j.start
    ELSE LET grid == {t \in j.start .. j.end : t > now /\ (t - j.start) % j.every = 0}
         IN  IF grid = {} THEN NoTime ELSE Min(grid)

\* The time after prev, which has been handled.
FireAfter(j, prev) ==
    IF j.every # 0 /\ prev + j.every <= j.end THEN prev + j.every ELSE NoTime

\* Mutant of AddJob: a job of the same id is replaced.
AddJobReplacing(id, start, every, end, want) ==
    LET j == [id |-> id, call |-> calls + 1, start |-> start, every |-> every,
              end |-> end, next |-> NoTime]
    IN  /\ calls < MaxCalls
        /\ store' = {k \in store : k.id # id} \union {[j EXCEPT !.next = FirstFire(j, clock)]}
        /\ calls' = calls + 1
        /\ asked' = [asked EXCEPT ![calls + 1] = want]
        /\ UNCHANGED <<clock, pool, held, removed, outcome>>

\* scheduler.add_job raises ConflictingIdError when the store has the id.
AddJob(id, start, every, end, want) ==
    LET j == [id |-> id, call |-> calls + 1, start |-> start, every |-> every,
              end |-> end, next |-> NoTime]
    IN  /\ calls < MaxCalls
        /\ IF id \in Ids
           THEN UNCHANGED rabbitVars
           ELSE /\ store' = store \union {[j EXCEPT !.next = FirstFire(j, clock)]}
                /\ calls' = calls + 1
                /\ asked' = [asked EXCEPT ![calls + 1] = want]
                /\ UNCHANGED <<clock, pool, held, removed, outcome>>

-----------------------------------------------------------------------------
(* WhiteRabbit *)

\* Mutant of Schedule: the date is cut to whole seconds, like the id.
ScheduleInSeconds(delay) == Second(clock + UtcOffset + delay) * TicksPerSecond

\* datetime.today() is local and naive; the scheduler reads it as UTC.
Schedule(delay) == clock + UtcOffset + delay

JobId(given, generated) == IF given = NoId THEN generated ELSE <<"given", given>>

schedule_job(f, given, delay) ==
    /\ clock + delay <= MaxTime
    /\ AddJob(JobId(given, <<f, "at", Second(Schedule(delay))>>),
              Schedule(delay), 0, Never, clock + delay)

schedule_chat_message(delay) ==
    /\ clock + delay <= MaxTime
    /\ AddJob(<<"send_ws_message", "at", Second(Schedule(delay))>>,
              Schedule(delay), 0, Never, clock + delay)

\* Without a start_date the first run is one period away.
schedule_interval_job(f, given, every, end) ==
    AddJob(JobId(given, <<f, "interval", every>>),
           clock + every, every, end, NoTime)

\* Cron fields select a grid of instants that does not depend on the call.
schedule_cron_job(f, given, every, end) ==
    AddJob(JobId(given, <<f, "cron", 0>>), 0, every, end, NoTime)

\* For an id that is not in the store pause, resume and remove catch the
\* scheduler's error and return False.
pause_job(id) ==
    /\ id \in Ids
    /\ LET j == JobOf(id)
       IN  /\ store' = (store \ {j}) \union {[j EXCEPT !.next = NoTime]}
           /\ held' = held \union {j.call}
    /\ UNCHANGED <<clock, pool, calls, asked, removed, outcome>>

\* Mutant of resume_job: the next run time is not computed again.
resume_without_time(id) ==
    /\ id \in Ids
    /\ held' = held \ {JobOf(id).call}
    /\ UNCHANGED <<clock, store, pool, calls, asked, removed, outcome>>

\* Mutant of resume_job: the grid begins again at the first run.
resume_from_start(id) ==
    /\ id \in Ids
    /\ LET j == JobOf(id)
       IN  /\ store' = (store \ {j}) \union {[j EXCEPT !.next = j.start]}
           /\ held' = held \ {j.call}
    /\ UNCHANGED <<clock, pool, calls, asked, removed, outcome>>

\* A job whose trigger has no further time is removed.
resume_job(id) ==
    /\ id \in Ids
    /\ LET j == JobOf(id)
           next == FirstFire(j, clock)
       IN  /\ store' = (store \ {j}) \union
                       (IF next = NoTime THEN {} ELSE {[j EXCEPT !.next = next]})
           /\ held' = held \ {j.call}
           /\ removed' = IF next = NoTime THEN removed \union {j.call} ELSE removed
    /\ UNCHANGED <<clock, pool, calls, asked, outcome>>

remove_job(id) ==
    /\ id \in Ids
    /\ LET j == JobOf(id)
       IN  /\ store' = store \ {j}
           /\ held' = held \ {j.call}
           /\ removed' = removed \union {j.call}
    /\ UNCHANGED <<clock, pool, calls, asked, outcome>>

-----------------------------------------------------------------------------
(* The scheduler thread and the pool *)

Instances(id) == Cardinality({e \in pool : e.id = id})

\* The scheduler thread, under the store's lock: all run times up to now go to
\* the pool as one submission, or are skipped when the id has MaxInstances
\* submissions there; the job moves to its next time or leaves the store.
SubmitDue(j) ==
    /\ j.next # NoTime /\ j.next <= clock
    /\ LET due == {t \in j.next .. Min({clock, j.end}) :
                      t = j.next \/ (j.every # 0 /\ (t - j.next) % j.every = 0)}
           next == FireAfter(j, Max(due))
       IN  /\ IF Instances(j.id) < MaxInstances
              THEN /\ pool' = pool \union
                             {[id |-> j.id, call |-> j.call, todo |-> due, at |-> NoTime]}
                   /\ UNCHANGED outcome
              ELSE /\ outcome' = outcome \union
                             {[call |-> j.call, due |-> t, what |-> "skipped", when |-> NoTime] :
                                 t \in due}
                   /\ UNCHANGED pool
           /\ store' = (store \ {j}) \union
                       (IF next = NoTime THEN {} ELSE {[j EXCEPT !.next = next]})
    /\ UNCHANGED <<clock, calls, asked, held, removed>>

\* A submission with nothing left to run is over: its instance is given back
\* and _job_ended_listener logs what was executed.
_job_ended_listener(e) == IF e.at = NoTime /\ e.todo = {} THEN {} ELSE {e}

\* A pool thread takes the next run time.  Later than the grace it is a misfire,
\* an event the listener has not subscribed to; a difference of Grace ticks is
\* a little more or a little less than one second.
StartRun(e) ==
    /\ e.at = NoTime
    /\ LET t == Min(e.todo)
       IN  \E what \in {"run", "missed"} :
               /\ clock - t < Grace => what = "run"
               /\ clock - t > Grace => what = "missed"
               /\ pool' = (pool \ {e}) \union _job_ended_listener(
                     [e EXCEPT !.todo = @ \ {t}, !.at = IF what = "run" THEN t ELSE NoTime])
               /\ outcome' = outcome \union
                     {[call |-> e.call, due |-> t, what |-> what,
                       when |-> IF what = "run" /\ asked[e.call] # NoTime THEN clock ELSE NoTime]}
    /\ UNCHANGED <<clock, store, calls, asked, held, removed>>

\* The function returns or raises.
EndRun(e) ==
    /\ e.at # NoTime
    /\ pool' = (pool \ {e}) \union _job_ended_listener([e EXCEPT !.at = NoTime])
    /\ UNCHANGED <<clock, store, calls, history>>

Tick ==
    /\ clock < MaxTime
    /\ clock' = clock + 1
    /\ UNCHANGED <<store, pool, calls, history>>

-----------------------------------------------------------------------------
(* WhiteRabbit.__init__: an empty store, a started scheduler *)
RabbitInit ==
    /\ clock = 0 /\ store = {} /\ pool = {} /\ calls = 0
    /\ asked = [c \in 1 .. MaxCalls |-> NoTime]
    /\ held = {} /\ removed = {} /\ outcome = {}

ScheduleCall ==
    \/ \E delay \in Delays : schedule_chat_message(delay)
    \/ \E f \in Functions, given \in GivenIds \union {NoId} :
          \/ \E delay \in Delays : schedule_job(f, given, delay)
          \/ \E every \in Periods, end \in Ends :
                schedule_interval_job(f, given, every, end)
          \/ \E every \in Periods, end \in Ends :
                schedule_cron_job(f, given, every, end)

ManageCall == \E id \in Ids : pause_job(id) \/ resume_job(id) \/ remove_job(id)

Scheduler == \E j \in store : SubmitDue(j)
Worker == \E e \in pool : StartRun(e) \/ EndRun(e)

RabbitNext == ScheduleCall \/ ManageCall \/ Scheduler \/ Worker \/ Tick

\* Time passes, the scheduler thread wakes for due jobs and pool threads go on;
\* nobody has to call the API.
Fairness == WF_rabbitVars(Tick) /\ WF_rabbitVars(Scheduler) /\ WF_rabbitVars(Worker)

RabbitSpec == RabbitInit /\ [][RabbitNext]_rabbitVars /\ Fairness

-----------------------------------------------------------------------------
(* Properties *)

Calls == 1 .. calls
InStore(c) == {j \in store : j.call = c}
InPool(c) == {e \in pool : e.call = c}
Handled(c) == {o \in outcome : o.call = c}
Waiting(c) == UNION {e.todo : e \in InPool(c)}

\* The life of an accepted call is one thing at a time: its job is in the
\* store, or removed through the API, or has left the store because its
\* trigger is exhausted.  No call disappears because of another one, whatever
\* ids the two have, and a removed call never comes back.
NoJobLost ==
    \A c \in Calls :
        /\ Cardinality(InStore(c)) + (IF c \in removed THEN 1 ELSE 0) <= 1
        /\ InStore(c) = {} /\ c \notin removed =>
              Waiting(c) \union {o.due : o \in Handled(c)} # {}

\* Each instant of a trigger is handed to the pool at most once, whatever the
\* pauses, resumes and delays: the next run of a job is later than all the
\* runs it had, and no run has two outcomes.
EachInstantOnce ==
    \A c \in Calls :
        /\ \A j \in InStore(c) : j.next # NoTime =>
               \A t \in Waiting(c) \union {o.due : o \in Handled(c)} : t < j.next
        /\ \A o, p \in Handled(c) : o.due = p.due => o = p
        /\ Waiting(c) \intersect {o.due : o \in Handled(c)} = {}

\* A one-shot job that is run starts when its caller asked for it: not before,
\* and not more than the misfire grace after ("Send a websocket message after
\* 30 seconds", stray_cat.py), although it may have been paused and resumed.
RunsWhenAsked ==
    \A o \in outcome :
        o.what = "run" /\ asked[o.call] # NoTime =>
            asked[o.call] <= o.when /\ o.when <= asked[o.call] + Grace

\* A one-shot job that is neither paused nor removed is run, missed or skipped
\* in the end; a job resumed after its date is not forgotten.
JobsSettle ==
    \A c \in 1 .. MaxCalls :
        (\E j \in InStore(c) : j.every = 0)
            ~> (Handled(c) # {} \/ c \in removed \/ c \in held)
=============================================================================
