--------------------------- MODULE CatForm_proofs ---------------------------
(***************************************************************************)
(* Proofs about CatForm for any number of turns that run at once, any form *)
(* class and any number of forms.                                          *)
(***************************************************************************)
EXTENDS CatForm, SequenceTheorems, TLAPS

\* The steps of a turn that is in a form.
InForm == {"confirm", "declined", "exit", "extract"}

Data == UNION {[K -> Values] : K \in SUBSET Keys}

Form ==
    [state : {"INCOMPLETE", "WAIT_CONFIRM", "CLOSED"}, model : Data, ask_confirm : BOOLEAN,
     ends : 0 .. 2, sent : SUBSET Data, shown : SUBSET Data, shared : BOOLEAN, failed : BOOLEAN]

Turn == [pc : InForm \union {"idle", "procedures"}, form : Nat, nested : BOOLEAN]

\* A form at rest is never COMPLETE: next asks or submits in the same step.
TypeOK ==
    /\ forms \in Seq(Form)
    /\ active \in {0} \union DOMAIN forms
    /\ turn \in [Turns -> Turn]
    /\ \A t \in Turns : turn[t].pc \in InForm => turn[t].form \in DOMAIN forms

Complete(m) == Required \subseteq DOMAIN m /\ Invalid(m) = {}

\* A form's history follows its state; one that waits for confirmation holds
\* complete data, which it has shown.
History(f) ==
    /\ f.ends = IF f.state = "CLOSED" THEN 1 ELSE 0
    /\ f.state # "CLOSED" => f.sent = {}
    /\ \A m \in f.sent : Complete(m)
    /\ f.ask_confirm => f.sent \subseteq f.shown
    /\ f.state = "WAIT_CONFIRM" => f.ask_confirm /\ f.shown = {f.model} /\ Complete(f.model)

\* The states a form may be in while a turn is at pc in it.
Fits(pc, f) ==
    /\ pc \in {"confirm", "declined"} => f.state = "WAIT_CONFIRM"
    /\ pc = "exit" => f.state # "WAIT_CONFIRM"
    /\ pc = "extract" => f.state = "INCOMPLETE"

\* An unshared form has one turn in it at most, and the turn's position fits.
OneTurn ==
    \A i \in Unshared : \A t \in Turns :
        turn[t].pc \in InForm /\ turn[t].form = i =>
            /\ Fits(turn[t].pc, forms[i])
            /\ \A u \in Turns \ {t} : ~(turn[u].pc \in InForm /\ turn[u].form = i)

\* While a form is open and has not failed, every turn is idle or in it.
OpenHoldsTurns ==
    \A i \in Unshared : forms[i].state # "CLOSED" /\ ~forms[i].failed =>
        \A t \in Turns : turn[t].pc = "idle" \/ (turn[t].pc \in InForm /\ turn[t].form = i)

\* The inductive invariant.
IInv ==
    /\ TypeOK
    /\ \A i \in Unshared : History(forms[i])
    /\ OneTurn
    /\ OpenHoldsTurns
    /\ OpenIsActive

-----------------------------------------------------------------------------
(* A turn writes the form it is in, or takes up, and moves on. *)

\* What a step may leave in place of form j: form f, and x as the turn's next
\* position.
LeavesIn(j, f, x) ==
    /\ f \in Form /\ x \in Turn
    /\ f.shared = forms[j].shared
    /\ x.pc \in InForm => x.form = j
    /\ ~f.shared =>
          /\ History(f)
          /\ forms[j].state = "CLOSED" => f.state = "CLOSED"
          /\ forms[j].failed => f.failed
          /\ x.pc = "procedures" => f.failed \/ f.state = "CLOSED"
          /\ x.pc \in InForm => Fits(x.pc, f)

Leaves(t, f, x) == LeavesIn(turn[t].form, f, x)

\* After drops the history of a form that turns share and keeps its type.
LEMMA AfterFacts ==
    ASSUME NEW t \in Turns, NEW f \in Form
    PROVE  /\ After(t, f) \in Form
           /\ ~After(t, f).shared => After(t, f) = f /\ ~f.shared /\ ~Overlap(t)
<1>1. CASE f.shared \/ Overlap(t)
  <2>1. After(t, f) = [f EXCEPT !.shared = TRUE, !.failed = FALSE, !.ends = 0, !.sent = {}, !.shown = {}]
    BY <1>1 DEF After
  <2>2. /\ After(t, f) = [state |-> f.state, model |-> f.model, ask_confirm |-> f.ask_confirm,
                          ends |-> 0, sent |-> {}, shown |-> {}, shared |-> TRUE, failed |-> FALSE]
    BY <2>1 DEF Form
  <2>3. After(t, f).shared = TRUE
    BY <2>2
  <2>4. /\ f.state \in {"INCOMPLETE", "WAIT_CONFIRM", "CLOSED"} /\ f.model \in Data
        /\ f.ask_confirm \in BOOLEAN
    BY DEF Form
  <2>5. After(t, f) \in Form
    BY <2>2, <2>4 DEF Form
  <2> QED
    BY <2>3, <2>5
<1>2. CASE ~(f.shared \/ Overlap(t))
  BY <1>2 DEF After
<1> QED
  BY <1>1, <1>2

\* A form that is open and active is replaced, or the form of the turn.
LEMMA WriteStep ==
    ASSUME IInv, NEW t \in Turns, NEW j \in DOMAIN forms,
           (turn[t].pc \in InForm /\ turn[t].form = j) \/ (turn[t].pc = "idle" /\ j = active),
           NEW f, NEW x, LeavesIn(j, f, x),
           forms' = [forms EXCEPT ![j] = After(t, f)], turn' = [turn EXCEPT ![t] = x], active' = active
    PROVE  IInv'
<1> DEFINE g == After(t, f)
<1>1. /\ forms \in Seq(Form) /\ turn \in [Turns -> Turn] /\ j \in DOMAIN forms
      /\ DOMAIN forms = 1 .. Len(forms)
  BY DEF IInv, TypeOK
<1>2. f \in Form /\ x \in Turn
  BY DEF LeavesIn
<1>3. /\ g \in Form
      /\ ~g.shared => g = f /\ ~f.shared /\ \A u \in Turns \ {t} : turn[u].pc = "idle"
  BY <1>2, AfterFacts DEF Overlap
<1>4. ~g.shared => ~forms[j].shared
  BY <1>3 DEF LeavesIn
<1>5. forms' = [forms EXCEPT ![j] = g]
  OBVIOUS
<1> HIDE DEF g
<1>6. /\ forms' \in Seq(Form) /\ DOMAIN forms' = DOMAIN forms
      /\ forms'[j] = g /\ \A i \in DOMAIN forms \ {j} : forms'[i] = forms[i]
  BY <1>1, <1>3, <1>5
<1>7. /\ turn' \in [Turns -> Turn] /\ turn'[t] = x
      /\ \A u \in Turns \ {t} : turn'[u] = turn[u]
  BY <1>1, <1>2
<1>8. Unshared' \subseteq Unshared
  BY <1>4, <1>6 DEF Unshared
<1>9. TypeOK'
  <2>1. \A u \in Turns : turn'[u].pc \in InForm => turn'[u].form \in DOMAIN forms'
    BY <1>1, <1>6, <1>7 DEF LeavesIn, IInv, TypeOK
  <2> QED
    BY <1>6, <1>7, <2>1 DEF IInv, TypeOK
<1>10. ASSUME NEW i \in Unshared' PROVE History(forms'[i])
  <2>1. CASE i = j
    BY <2>1, <1>3, <1>6 DEF Unshared, LeavesIn
  <2>2. CASE i # j
    BY <2>2, <1>6, <1>8 DEF Unshared, IInv
  <2> QED
    BY <2>1, <2>2
<1>11. OneTurn'
  <2>1. SUFFICES ASSUME NEW i \in Unshared', NEW u \in Turns, turn'[u].pc \in InForm, turn'[u].form = i
                 PROVE  /\ Fits(turn'[u].pc, forms'[i])
                        /\ \A v \in Turns \ {u} : ~(turn'[v].pc \in InForm /\ turn'[v].form = i)
    BY DEF OneTurn
  <2>2. CASE u = t
    <3>1. i = j /\ turn'[u].pc = x.pc
      BY <2>1, <2>2, <1>7 DEF LeavesIn
    <3>2. g = f /\ ~f.shared /\ \A v \in Turns \ {t} : turn[v].pc = "idle"
      BY <3>1, <1>3, <1>6 DEF Unshared
    <3>3. Fits(turn'[u].pc, forms'[i])
      BY <2>1, <3>1, <3>2, <1>6 DEF LeavesIn
    <3> QED
      BY <2>2, <3>2, <3>3, <1>7 DEF InForm
  <2>3. CASE u # t
    <3>1. turn'[u] = turn[u] /\ i \in Unshared
      BY <2>3, <1>7, <1>8
    <3>2. i # j
      BY <2>1, <2>3, <3>1, <1>3, <1>6 DEF InForm, Unshared
    <3>3. forms'[i] = forms[i]
      BY <3>1, <3>2, <1>6 DEF Unshared
    <3>4. ~(turn'[t].pc \in InForm /\ turn'[t].form = i)
      BY <3>2, <1>7 DEF LeavesIn
    <3> QED
      BY <2>1, <3>1, <3>3, <3>4, <1>7 DEF IInv, OneTurn
  <2> QED
    BY <2>2, <2>3
<1>12. ASSUME NEW i \in Unshared', forms'[i].state # "CLOSED", ~forms'[i].failed
       PROVE  /\ forms[i].state # "CLOSED" /\ ~forms[i].failed
              /\ \A u \in Turns : turn'[u].pc = "idle" \/ (turn'[u].pc \in InForm /\ turn'[u].form = i)
  <2>1. i \in Unshared
    BY <1>8
  <2>2. CASE i = j
    <3>1. g = f /\ ~f.shared /\ \A v \in Turns \ {t} : turn[v].pc = "idle"
      BY <2>2, <1>3, <1>6 DEF Unshared
    <3>2. f.state # "CLOSED" /\ ~f.failed
      BY <3>1, <2>2, <1>6, <1>12
    <3>3. forms[i].state # "CLOSED" /\ ~forms[i].failed
      BY <2>2, <3>1, <3>2 DEF LeavesIn
    <3>4. x.pc = "idle" \/ (x.pc \in InForm /\ x.form = i)
      BY <2>2, <3>1, <3>2 DEF LeavesIn, Turn
    <3> QED
      BY <3>1, <3>3, <3>4, <1>7
  <2>3. CASE i # j
    <3>1. forms'[i] = forms[i]
      BY <2>1, <2>3, <1>6 DEF Unshared
    <3>2. turn[t].pc = "idle" \/ turn[t].form = i
      BY <2>1, <3>1, <1>12 DEF IInv, OpenHoldsTurns
    <3>3. turn[t].pc = "idle" /\ j = active
      BY <2>3, <3>2 DEF InForm
    <3>4. i = active
      BY <2>1, <3>1, <1>12 DEF IInv, OpenIsActive
    <3> QED
      BY <2>3, <3>3, <3>4
  <2> QED
    BY <2>2, <2>3
<1>13. OpenHoldsTurns'
  BY <1>12 DEF OpenHoldsTurns
<1>14. OpenIsActive'
  BY <1>8, <1>12 DEF OpenIsActive, IInv
<1> QED
  BY <1>9, <1>10, <1>11, <1>13, <1>14 DEF IInv

\* Every step of CatForm.next: the form of the turn is replaced.
LEMMA PutStep ==
    ASSUME IInv, NEW t \in Turns, turn[t].pc \in InForm, NEW f, NEW x, Leaves(t, f, x),
           Put(t, f), turn' = [turn EXCEPT ![t] = x], active' = active
    PROVE  IInv'
<1> DEFINE j == turn[t].form
<1>1. j \in DOMAIN forms
  BY DEF IInv, TypeOK
<1>2. LeavesIn(j, f, x) /\ forms' = [forms EXCEPT ![j] = After(t, f)]
  BY DEF Leaves, Put
<1>3. (turn[t].pc \in InForm /\ turn[t].form = j) \/ (turn[t].pc = "idle" /\ j = active)
  OBVIOUS
<1> HIDE DEF j
<1> QED
  BY <1>1, <1>2, <1>3, WriteStep

-----------------------------------------------------------------------------
(* submit and the end of next *)

\* A form in the middle of a step, which validate may have completed.
Draft ==
    [state : {"INCOMPLETE", "COMPLETE", "WAIT_CONFIRM", "CLOSED"}, model : Data, ask_confirm : BOOLEAN,
     ends : 0 .. 2, sent : SUBSET Data, shown : SUBSET Data, shared : BOOLEAN, failed : BOOLEAN]

\* What a draft takes over from the form of turn t.
Continues(t, f) ==
    /\ f \in Draft
    /\ f.shared = Mine(t).shared
    /\ Mine(t).failed => f.failed
    /\ ~f.shared /\ Mine(t).state = "CLOSED" => f.state = "CLOSED"

\* The form that a turn is in.
LEMMA MineFacts ==
    ASSUME IInv, NEW t \in Turns, turn[t].pc \in InForm
    PROVE  /\ turn[t] \in Turn
           /\ Mine(t) \in Form
           /\ Continues(t, Mine(t))
           /\ ~Mine(t).shared => History(Mine(t)) /\ Fits(turn[t].pc, Mine(t))
<1>1. turn[t] \in Turn /\ turn[t].form \in DOMAIN forms /\ Mine(t) \in Form
  BY DEF IInv, TypeOK, Mine
<1>2. Mine(t) \in Draft
  BY <1>1 DEF Form, Draft
<1>3. ~Mine(t).shared => History(Mine(t)) /\ Fits(turn[t].pc, Mine(t))
  BY <1>1 DEF IInv, OneTurn, Unshared, Mine
<1> QED
  BY <1>1, <1>2, <1>3 DEF Continues

\* The turn answers and leaves form f.
LEMMA ReplyStep ==
    ASSUME IInv, NEW t \in Turns, turn[t].pc \in InForm, NEW f, Continues(t, f), f.state # "COMPLETE",
           ~f.shared => History(f), Put(t, f), Reply(t), active' = active
    PROVE  IInv'
<1>1. Idle \in Turn /\ Idle.pc \notin InForm /\ Idle.pc # "procedures"
  BY DEF Idle, Turn, InForm
<1>2. f \in Form
  BY DEF Continues, Draft, Form
<1>3. Leaves(t, f, Idle)
  BY <1>1, <1>2 DEF Leaves, LeavesIn, Mine, Continues
<1>4. turn' = [turn EXCEPT ![t] = Idle]
  BY DEF Reply
<1> QED
  BY <1>3, <1>4, PutStep DEF Put

\* The turn goes on in form f.
LEMMA GotoStep ==
    ASSUME IInv, NEW t \in Turns, turn[t].pc \in InForm, NEW f, Continues(t, f), f.state # "COMPLETE",
           NEW pc \in InForm,
           ~f.shared => History(f) /\ Fits(pc, f), Put(t, f), Goto(t, pc), active' = active
    PROVE  IInv'
<1> DEFINE x == [turn[t] EXCEPT !.pc = pc]
<1>1. x \in Turn /\ x.pc = pc /\ x.form = turn[t].form
  BY MineFacts DEF Turn
<1>2. f \in Form
  BY DEF Continues, Draft, Form
<1>3. pc # "procedures"
  BY DEF InForm
<1>4. turn' = [turn EXCEPT ![t] = x]
  BY DEF Goto
<1> HIDE DEF x
<1>5. Leaves(t, f, x)
  BY <1>1, <1>2, <1>3 DEF Leaves, LeavesIn, Mine, Continues
<1> QED
  BY <1>4, <1>5, PutStep DEF Put

\* An exception ends the turn or lets it go on with the form marked failed.
LEMMA RaiseStep ==
    ASSUME IInv, NEW t \in Turns, turn[t].pc \in InForm, NEW f, Continues(t, f), f.state # "COMPLETE",
           ~f.shared => History(f), Raise(t, f), active' = active
    PROVE  IInv'
<1>1. CASE turn[t].nested
  BY <1>1, ReplyStep DEF Raise, Put, Reply
<1>2. CASE ~turn[t].nested
  <2> DEFINE g == [f EXCEPT !.failed = TRUE]
             x == [turn[t] EXCEPT !.pc = "procedures"]
  <2>1. f \in Form
    BY DEF Continues, Draft, Form
  <2>2. /\ g.state = f.state /\ g.model = f.model /\ g.ask_confirm = f.ask_confirm /\ g.ends = f.ends
        /\ g.sent = f.sent /\ g.shown = f.shown /\ g.shared = f.shared /\ g.failed = TRUE
    BY <2>1 DEF Form
  <2>3. g \in Form
    BY <2>1, <2>2 DEF Form
  <2>4. g.shared = f.shared /\ g.failed = TRUE /\ g.state = f.state
    BY <2>2
  <2>5. ~f.shared => History(g)
    BY <2>2 DEF History
  <2>6. x \in Turn /\ x.pc = "procedures"
    BY MineFacts DEF Turn
  <2>7. Put(t, g) /\ turn' = [turn EXCEPT ![t] = x]
    BY <1>2 DEF Raise
  <2>8. x.pc \notin InForm
    BY <2>6 DEF InForm
  <2> HIDE DEF g, x
  <2>9. Leaves(t, g, x)
    BY <2>3, <2>4, <2>5, <2>6, <2>8 DEF Leaves, LeavesIn, Mine, Continues
  <2> QED
    BY <2>7, <2>9, PutStep DEF Put
<1> QED
  BY <1>1, <1>2

\* submit closes a form that has not ended and holds complete data, which it
\* has shown if it asks for confirmation.
LEMMA SubmitStep ==
    ASSUME IInv, NEW t \in Turns, turn[t].pc \in InForm, NEW f, Continues(t, f),
           ~f.shared => /\ f.ends = 0 /\ f.sent = {} /\ Complete(f.model)
                        /\ f.ask_confirm => f.model \in f.shown,
           submit(t, f), active' = active
    PROVE  IInv'
<1> DEFINE done == [f EXCEPT !.state = "CLOSED", !.ends = Counted(f), !.sent = @ \union {f.model}]
<1>1. f \in Draft
  BY DEF Continues
<1>2. /\ done.state = "CLOSED" /\ done.model = f.model /\ done.ask_confirm = f.ask_confirm
      /\ done.ends = Counted(f) /\ done.sent = f.sent \union {f.model} /\ done.shown = f.shown
      /\ done.shared = f.shared /\ done.failed = f.failed
  BY <1>1 DEF Draft
<1>3. Counted(f) \in 0 .. 2 /\ (f.ends = 0 => Counted(f) = 1)
  BY <1>1 DEF Counted, Draft
<1>4. (Put(t, done) /\ Reply(t)) \/ Raise(t, done)
  BY DEF submit
<1>5. done \in Draft
  <2>1. f.sent \union {f.model} \in SUBSET Data
    BY <1>1 DEF Draft
  <2> QED
    BY <1>1, <1>3, <2>1 DEF Draft
<1> HIDE DEF done
<1>6. Continues(t, done)
  BY <1>2, <1>5 DEF Continues
<1>7. ~done.shared => History(done)
  BY <1>2, <1>3 DEF History
<1>8. done.state # "COMPLETE"
  BY <1>2
<1> QED
  BY <1>4, <1>6, <1>7, <1>8, ReplyStep, RaiseStep DEF Put, Reply, Raise

\* The end of next.
LEMMA OnCompleteStep ==
    ASSUME IInv, NEW t \in Turns, turn[t].pc \in InForm, NEW f, Continues(t, f),
           ~f.shared => IF f.state = "COMPLETE"
                        THEN f.ends = 0 /\ f.sent = {} /\ Complete(f.model)
                        ELSE History(f),
           OnComplete(t, f), active' = active
    PROVE  IInv'
<1>1. CASE f.state = "COMPLETE" /\ ~f.ask_confirm
  <2>1. submit(t, f)
    BY <1>1 DEF OnComplete
  <2> QED
    BY <1>1, <2>1, SubmitStep DEF submit, Put, Raise, Reply
<1>2. CASE f.state = "COMPLETE" /\ f.ask_confirm
  <2> DEFINE g == [f EXCEPT !.state = "WAIT_CONFIRM", !.shown = {f.model}]
  <2>1. f \in Draft
    BY DEF Continues
  <2>2. /\ g.state = "WAIT_CONFIRM" /\ g.shared = f.shared /\ g.failed = f.failed /\ g.ends = f.ends
        /\ g.sent = f.sent /\ g.ask_confirm = f.ask_confirm /\ g.shown = {f.model} /\ g.model = f.model
    BY <2>1 DEF Draft
  <2>3. Put(t, g) /\ Reply(t)
    BY <1>2 DEF OnComplete
  <2>4. g \in Draft
    BY <2>1 DEF Draft
  <2> HIDE DEF g
  <2>6. Continues(t, g) /\ g.state # "COMPLETE"
    BY <1>2, <2>2, <2>4 DEF Continues
  <2>7. ~g.shared => History(g)
    BY <1>2, <2>2 DEF History
  <2> QED
    BY <2>3, <2>6, <2>7, ReplyStep DEF Put, Reply
<1>3. CASE f.state # "COMPLETE"
  <2>1. Put(t, f) /\ Reply(t)
    BY <1>3 DEF OnComplete
  <2> QED
    BY <1>3, <2>1, ReplyStep DEF Put, Reply
<1> QED
  BY <1>1, <1>2, <1>3 DEF Continues, Draft

-----------------------------------------------------------------------------
(* update *)

\* Data stays data when it is merged with details and when keys are deleted.
LEMMA DataFacts ==
    /\ <<>> \in Data
    /\ \A m \in Data : DOMAIN m \subseteq Keys /\ \A k \in DOMAIN m : m[k] \in Values
    /\ \A m, n \in Data : Merge(m, n) \in Data
    /\ \A m \in Data : \A K : Without(m, K) \in Data
    /\ Models \subseteq Data
<1>1. <<>> \in Data
  <2>1. <<>> \in [{} -> Values]
    OBVIOUS
  <2> QED
    BY <2>1 DEF Data
<1>2. \A m \in Data : DOMAIN m \subseteq Keys /\ \A k \in DOMAIN m : m[k] \in Values
  BY DEF Data
<1>3. ASSUME NEW m \in Data, NEW n \in Data PROVE Merge(m, n) \in Data
  <2>1. DOMAIN m \union DOMAIN n \in SUBSET Keys
    BY <1>2
  <2>2. Merge(m, n) \in [DOMAIN m \union DOMAIN n -> Values]
    BY <1>2 DEF Merge
  <2> QED
    BY <2>1, <2>2 DEF Data
<1>4. ASSUME NEW m \in Data, NEW K PROVE Without(m, K) \in Data
  <2>1. DOMAIN m \ K \in SUBSET Keys
    BY <1>2
  <2>2. Without(m, K) \in [DOMAIN m \ K -> Values]
    BY <1>2 DEF Without
  <2> QED
    BY <2>1, <2>2 DEF Data
<1>5. Models \subseteq Data
  BY DEF Models, Data
<1> QED
  BY <1>1, <1>2, <1>3, <1>4, <1>5

\* What validate calls complete is complete, and stays so.
LEMMA ValidateFacts ==
    ASSUME NEW f \in Draft
    PROVE  /\ validate(f) \in Draft
           /\ validate(f).state \in {"COMPLETE", "INCOMPLETE"}
           /\ validate(f).state = "COMPLETE" => Complete(validate(f).model)
           /\ validate(f).ends = f.ends /\ validate(f).sent = f.sent /\ validate(f).shown = f.shown
           /\ validate(f).ask_confirm = f.ask_confirm
           /\ validate(f).shared = f.shared /\ validate(f).failed = f.failed
<1> DEFINE m == Without(f.model, Invalid(f.model))
           st == IF Invalid(f.model) = {} /\ Required \subseteq DOMAIN f.model
                 THEN "COMPLETE" ELSE "INCOMPLETE"
<1>1. validate(f) = [f EXCEPT !.model = m, !.state = st]
  BY DEF validate
<1>2. m \in Data /\ st \in {"COMPLETE", "INCOMPLETE"}
  BY DataFacts DEF Draft
<1>3. st = "COMPLETE" => Complete(m)
  BY DEF Complete, Invalid, Without
<1> HIDE DEF m, st
<1>4. validate(f) \in Draft
  BY <1>1, <1>2 DEF Draft
<1>5. validate(f).state = st /\ validate(f).model = m
  BY <1>1 DEF Draft
<1>6. /\ validate(f).ends = f.ends /\ validate(f).sent = f.sent /\ validate(f).shown = f.shown
      /\ validate(f).ask_confirm = f.ask_confirm
      /\ validate(f).shared = f.shared /\ validate(f).failed = f.failed
  BY <1>1 DEF Draft
<1> QED
  BY <1>2, <1>3, <1>4, <1>5, <1>6

\* A draft whose data alone differs from the form of a turn that extracts.
LEMMA WithModel ==
    ASSUME IInv, NEW t \in Turns, turn[t].pc = "extract", NEW m \in Data
    PROVE  LET f == [Mine(t) EXCEPT !.model = m]
           IN  /\ f \in Draft /\ Continues(t, f)
               /\ f.model = m /\ f.state = Mine(t).state /\ f.failed = Mine(t).failed
               /\ f.shared = Mine(t).shared
               /\ ~f.shared => /\ f.state = "INCOMPLETE" /\ History(f)
                               /\ f.ends = 0 /\ f.sent = {}
<1> DEFINE f == [Mine(t) EXCEPT !.model = m]
<1>1. turn[t].pc \in InForm
  BY DEF InForm
<1>2. /\ Mine(t) \in Form
      /\ ~Mine(t).shared => History(Mine(t)) /\ Mine(t).state = "INCOMPLETE"
  BY <1>1, MineFacts DEF Fits
<1>3. f \in Draft
  BY <1>2 DEF Form, Draft
<1>4. /\ f.model = m /\ f.state = Mine(t).state /\ f.failed = Mine(t).failed
      /\ f.shared = Mine(t).shared /\ f.ends = Mine(t).ends /\ f.sent = Mine(t).sent
      /\ f.shown = Mine(t).shown /\ f.ask_confirm = Mine(t).ask_confirm
  BY <1>2 DEF Form
<1> HIDE DEF f
<1>5. Continues(t, f)
  BY <1>3, <1>4 DEF Continues
<1>6. ~f.shared => f.state = "INCOMPLETE" /\ History(f) /\ f.ends = 0 /\ f.sent = {}
  BY <1>2, <1>4 DEF History
<1>7. /\ f \in Draft /\ Continues(t, f)
      /\ f.model = m /\ f.state = Mine(t).state /\ f.failed = Mine(t).failed
      /\ f.shared = Mine(t).shared
      /\ ~f.shared => /\ f.state = "INCOMPLETE" /\ History(f)
                      /\ f.ends = 0 /\ f.sent = {}
  BY <1>3, <1>4, <1>5, <1>6
<1> QED
  BY <1>7 DEF f

\* update, which may raise half way through validate.
LEMMA UpdateStep ==
    ASSUME IInv, NEW t \in Turns, update(t)
    PROVE  IInv'
<1>1. turn[t].pc = "extract" /\ turn[t].pc \in InForm /\ active' = active
  BY DEF update, InForm
<1>2. Mine(t) \in Form /\ Mine(t).model \in Data
  BY <1>1, MineFacts DEF Form
<1> DEFINE merged(details) == [Mine(t) EXCEPT !.model = Merge(@, details)]
           twice(details)  == {k \in Invalid(merged(details).model) : merged(details).model[k] = "worse"}
<1>3. PICK details \in Models :
          IF twice(details) = {}
          THEN OnComplete(t, validate(merged(details)))
          ELSE \E gone \in SUBSET Invalid(merged(details).model) :
                  /\ Cardinality(gone \intersect twice(details)) = 1
                  /\ Raise(t, [merged(details) EXCEPT !.model = Without(@, gone)])
  BY DEF update
<1> DEFINE n == Merge(Mine(t).model, details)
           f == [Mine(t) EXCEPT !.model = n]
<1>4. n \in Data
  BY <1>2, DataFacts
<1>5. f = merged(details) /\ f.model = n
  BY <1>2 DEF Form
<1>6. /\ f \in Draft /\ Continues(t, f) /\ f.state = Mine(t).state
      /\ f.shared = Mine(t).shared /\ f.failed = Mine(t).failed
      /\ ~f.shared => f.state = "INCOMPLETE" /\ f.ends = 0 /\ f.sent = {}
  BY <1>1, <1>4, WithModel
<1>7. CASE twice(details) = {}
  <2>1. OnComplete(t, validate(f))
    BY <1>3, <1>5, <1>7
  <2> HIDE DEF f
  <2>2. Continues(t, validate(f))
    BY <1>6, ValidateFacts DEF Continues
  <2>3. ~validate(f).shared => validate(f).ends = 0 /\ validate(f).sent = {}
    BY <1>6, ValidateFacts
  <2>4. /\ validate(f).state \in {"COMPLETE", "INCOMPLETE"}
        /\ validate(f).state = "COMPLETE" => Complete(validate(f).model)
    BY <1>6, ValidateFacts
  <2>5. ~validate(f).shared /\ validate(f).state # "COMPLETE" => History(validate(f))
    BY <2>3, <2>4 DEF History
  <2> DEFINE g == validate(f)
  <2> HIDE DEF g
  <2>6. Continues(t, g) /\ OnComplete(t, g)
    BY <2>1, <2>2 DEF g
  <2>7. ~g.shared => IF g.state = "COMPLETE"
                     THEN g.ends = 0 /\ g.sent = {} /\ Complete(g.model)
                     ELSE History(g)
    BY <2>3, <2>4, <2>5 DEF g
  <2> QED
    BY <1>1, <2>6, <2>7, OnCompleteStep DEF OnComplete, submit, Put, Reply, Raise
<1>8. CASE twice(details) # {}
  <2>1. PICK gone : Raise(t, [f EXCEPT !.model = Without(@, gone)])
    BY <1>3, <1>5, <1>8
  <2> DEFINE m == Without(n, gone)
             g == [Mine(t) EXCEPT !.model = m]
  <2>2. [f EXCEPT !.model = Without(@, gone)] = g
    BY <1>2, <1>5 DEF Form
  <2>3. m \in Data
    BY <1>4, DataFacts
  <2> HIDE DEF m
  <2>4. Continues(t, g) /\ g.state = Mine(t).state /\ (~g.shared => History(g))
    BY <1>1, <2>3, WithModel
  <2>5. Mine(t).state # "COMPLETE"
    BY <1>2 DEF Form
  <2>6. Raise(t, g)
    BY <2>1, <2>2
  <2> HIDE DEF g
  <2> QED
    BY <1>1, <2>4, <2>5, <2>6, RaiseStep DEF Raise, Put, Reply
<1> QED
  BY <1>7, <1>8

-----------------------------------------------------------------------------
(* The other steps of next *)

\* Exiting ends a form once.
LEMMA ExitedFacts ==
    ASSUME NEW t, NEW f \in Form, Continues(t, f), ~f.shared => History(f)
    PROVE  /\ Continues(t, Exited(f)) /\ Exited(f).state = "CLOSED"
           /\ ~Exited(f).shared => History(Exited(f))
<1>1. CASE f.state = "CLOSED"
  BY <1>1 DEF Exited
<1>2. CASE f.state # "CLOSED"
  <2> DEFINE g == [f EXCEPT !.state = "CLOSED", !.ends = Counted(f)]
  <2>1. Exited(f) = g
    BY <1>2 DEF Exited
  <2>2. Counted(f) \in 0 .. 2 /\ (f.ends = 0 => Counted(f) = 1)
    BY DEF Counted, Form
  <2>3. g \in Draft
    BY <2>2 DEF Form, Draft
  <2>4. /\ g.state = "CLOSED" /\ g.ends = Counted(f) /\ g.sent = f.sent /\ g.shown = f.shown
        /\ g.ask_confirm = f.ask_confirm /\ g.shared = f.shared /\ g.failed = f.failed
    BY DEF Form
  <2> HIDE DEF g
  <2>5. Continues(t, g)
    BY <2>3, <2>4 DEF Continues
  <2>6. ~g.shared => History(g)
    BY <1>2, <2>2, <2>4 DEF History
  <2> QED
    BY <2>1, <2>4, <2>5, <2>6
<1> QED
  BY <1>1, <1>2

\* The user says yes or no.
LEMMA ConfirmStep ==
    ASSUME IInv, NEW t \in Turns, Confirm(t)
    PROVE  IInv'
<1>1. turn[t].pc = "confirm" /\ turn[t].pc \in InForm /\ active' = active
  BY DEF Confirm, InForm
<1> DEFINE f == Mine(t)
<1>2. /\ f \in Form /\ Continues(t, f)
      /\ ~f.shared => History(f) /\ f.state = "WAIT_CONFIRM"
  BY <1>1, MineFacts DEF Fits
<1>3. submit(t, f) \/ (Put(t, f) /\ Goto(t, "declined"))
  BY DEF Confirm
<1> HIDE DEF f
<1>4. CASE submit(t, f)
  <2>1. ~f.shared => /\ f.ends = 0 /\ f.sent = {} /\ Complete(f.model)
                     /\ f.ask_confirm => f.model \in f.shown
    BY <1>2 DEF History
  <2> QED
    BY <1>1, <1>2, <1>4, <2>1, SubmitStep DEF submit, Put, Reply, Raise
<1>5. CASE Put(t, f) /\ Goto(t, "declined")
  <2>1. ~f.shared => History(f) /\ Fits("declined", f)
    BY <1>2 DEF Fits
  <2>2. f.state # "COMPLETE" /\ "declined" \in InForm
    BY <1>2 DEF Form, InForm
  <2> QED
    BY <1>1, <1>2, <1>5, <2>1, <2>2, GotoStep DEF Put, Goto
<1> QED
  BY <1>3, <1>4, <1>5

\* After a no the form is exited or opened again.
LEMMA DeclinedStep ==
    ASSUME IInv, NEW t \in Turns, Declined(t)
    PROVE  IInv'
<1>1. turn[t].pc = "declined" /\ turn[t].pc \in InForm /\ active' = active /\ Goto(t, "exit")
  BY DEF Declined, InForm
<1>2. "exit" \in InForm
  BY DEF InForm
<1> DEFINE f == Mine(t)
           open == [f EXCEPT !.state = "INCOMPLETE"]
<1>3. /\ f \in Form /\ Continues(t, f)
      /\ ~f.shared => History(f) /\ f.state = "WAIT_CONFIRM"
  BY <1>1, MineFacts DEF Fits
<1>4. Put(t, Exited(f)) \/ Put(t, open)
  BY DEF Declined
<1>5. open \in Draft
  BY <1>3 DEF Form, Draft
<1>6. /\ open.state = "INCOMPLETE" /\ open.ends = f.ends /\ open.sent = f.sent /\ open.shown = f.shown
      /\ open.ask_confirm = f.ask_confirm /\ open.shared = f.shared /\ open.failed = f.failed
  BY <1>3 DEF Form
<1>7. f = Mine(t)
  OBVIOUS
<1> HIDE DEF f, open
<1>8. CASE Put(t, Exited(f))
  <2> DEFINE g == Exited(f)
  <2>1. Continues(t, g) /\ g.state = "CLOSED" /\ (~g.shared => History(g))
    BY <1>3, ExitedFacts
  <2>2. Fits("exit", g) /\ g.state # "COMPLETE"
    BY <2>1 DEF Fits
  <2>3. Put(t, g)
    BY <1>8
  <2> HIDE DEF g
  <2> QED
    BY <1>1, <1>2, <2>1, <2>2, <2>3, GotoStep DEF Put, Goto
<1>9. CASE Put(t, open)
  <2>1. Continues(t, open)
    BY <1>3, <1>5, <1>6, <1>7 DEF Continues
  <2>2. ~open.shared => History(open)
    BY <1>3, <1>6 DEF History
  <2>3. Fits("exit", open) /\ open.state # "COMPLETE"
    BY <1>6 DEF Fits
  <2> QED
    BY <1>1, <1>2, <1>9, <2>1, <2>2, <2>3, GotoStep DEF Put, Goto
<1> QED
  BY <1>4, <1>8, <1>9

\* The check of every turn.
LEMMA ExitIntentStep ==
    ASSUME IInv, NEW t \in Turns, ExitIntent(t)
    PROVE  IInv'
<1>1. turn[t].pc = "exit" /\ turn[t].pc \in InForm /\ active' = active
  BY DEF ExitIntent, InForm
<1> DEFINE f == Mine(t)
<1>2. /\ f \in Form /\ Continues(t, f)
      /\ ~f.shared => History(f)
  BY <1>1, MineFacts
<1>3. f.state # "COMPLETE"
  BY <1>2 DEF Form
<1>4. \/ Put(t, Exited(f)) /\ Reply(t)
      \/ f.state = "INCOMPLETE" /\ Put(t, f) /\ Goto(t, "extract")
      \/ OnComplete(t, f)
  BY DEF ExitIntent
<1> HIDE DEF f
<1>5. CASE Put(t, Exited(f)) /\ Reply(t)
  <2> DEFINE g == Exited(f)
  <2>1. Continues(t, g) /\ g.state = "CLOSED" /\ (~g.shared => History(g))
    BY <1>2, ExitedFacts
  <2>2. Put(t, g) /\ Reply(t) /\ g.state # "COMPLETE"
    BY <1>5, <2>1
  <2> HIDE DEF g
  <2> QED
    BY <1>1, <2>1, <2>2, ReplyStep DEF Put, Reply
<1>6. CASE f.state = "INCOMPLETE" /\ Put(t, f) /\ Goto(t, "extract")
  <2>1. Fits("extract", f) /\ "extract" \in InForm
    BY <1>6 DEF Fits, InForm
  <2> QED
    BY <1>1, <1>2, <1>3, <1>6, <2>1, GotoStep DEF Put, Goto
<1>7. CASE OnComplete(t, f)
  BY <1>1, <1>2, <1>3, <1>7, OnCompleteStep DEF OnComplete, submit, Put, Reply, Raise
<1> QED
  BY <1>4, <1>5, <1>6, <1>7

\* An LLM call raises.
LEMMA LlmFailsStep ==
    ASSUME IInv, NEW t \in Turns, LlmFails(t)
    PROVE  IInv'
<1>1. turn[t].pc \in InForm /\ active' = active
  BY DEF LlmFails, InForm
<1> DEFINE f == Mine(t)
<1>2. f \in Form /\ Continues(t, f) /\ (~f.shared => History(f))
  BY <1>1, MineFacts
<1>3. f.state # "COMPLETE" /\ Raise(t, f)
  BY <1>2 DEF Form, LlmFails
<1> HIDE DEF f
<1> QED
  BY <1>1, <1>2, <1>3, RaiseStep DEF Put, Reply, Raise

-----------------------------------------------------------------------------
(* FormAgent and ProceduresAgent *)

\* A turn that is not in a form, or leaves the procedures, moves without
\* touching a form.
LEMMA ElsewhereStep ==
    ASSUME IInv, NEW t \in Turns, turn[t].pc \notin InForm, NEW x \in Turn, x.pc \notin InForm,
           turn' = [turn EXCEPT ![t] = x], forms' = forms, active' \in {0, active},
           x.pc = "idle" => active' = active,
           x.pc = "procedures" => active = 0 \/ forms[active].state = "CLOSED"
    PROVE  IInv'
<1>1. /\ turn' \in [Turns -> Turn] /\ turn'[t] = x
      /\ \A u \in Turns \ {t} : turn'[u] = turn[u]
      /\ Unshared' = Unshared
  BY DEF IInv, TypeOK, Unshared
<1>2. TypeOK'
  BY <1>1 DEF IInv, TypeOK
<1>3. \A i \in Unshared' : History(forms'[i])
  BY <1>1 DEF IInv
<1>4. OneTurn'
  BY <1>1 DEF IInv, OneTurn
<1>5. x.pc \in {"idle", "procedures"}
  BY DEF Turn
<1>6. ASSUME NEW i \in Unshared, forms[i].state # "CLOSED", ~forms[i].failed
      PROVE  x.pc = "idle" /\ i = active'
  <2>1. i = active /\ i # 0
    BY <1>6 DEF IInv, TypeOK, OpenIsActive, Unshared
  <2> QED
    BY <1>5, <1>6, <2>1
<1>7. OpenHoldsTurns'
  BY <1>1, <1>6 DEF IInv, OpenHoldsTurns
<1>8. OpenIsActive'
  BY <1>1, <1>6 DEF OpenIsActive
<1> QED
  BY <1>2, <1>3, <1>4, <1>7, <1>8 DEF IInv

\* A turn begins: it takes up the active form or drops a closed one.
LEMMA FormAgentStep ==
    ASSUME IInv, NEW t \in Turns, FormAgent(t)
    PROVE  IInv'
<1>1. turn[t].pc = "idle" /\ turn[t].pc \notin InForm
  BY DEF FormAgent, InForm
<1>2. CASE active # 0 /\ forms[active].state # "CLOSED"
  <2> DEFINE j == active
             f == forms[j]
             x == [pc |-> IF forms[j].state = "WAIT_CONFIRM" THEN "confirm" ELSE "exit",
                   form |-> j, nested |-> FALSE]
  <2>1. j \in DOMAIN forms /\ forms[j] \in Form /\ j \in Nat
    BY <1>2 DEF IInv, TypeOK
  <2>2. /\ turn' = [turn EXCEPT ![t] = x]
        /\ forms' = [forms EXCEPT ![j] = After(t, f)]
        /\ active' = active
    BY <1>2, <2>1 DEF FormAgent, Enter
  <2>3. x \in Turn /\ x.form = j
    BY <2>1 DEF Turn, InForm
  <2>4. Fits(x.pc, f) /\ x.pc # "procedures"
    BY <1>2 DEF Fits
  <2>5. ~f.shared => History(f)
    BY <2>1 DEF IInv, Unshared
  <2> HIDE DEF x
  <2>6. LeavesIn(j, f, x)
    BY <2>1, <2>3, <2>4, <2>5 DEF LeavesIn
  <2> HIDE DEF j, f
  <2>7. (turn[t].pc \in InForm /\ turn[t].form = j) \/ (turn[t].pc = "idle" /\ j = active)
    BY <1>1 DEF j
  <2> QED
    BY <2>1, <2>2, <2>6, <2>7, WriteStep
<1>3. CASE ~(active # 0 /\ forms[active].state # "CLOSED")
  <2> DEFINE x == [Idle EXCEPT !.pc = "procedures"]
  <2>1. active' = 0 /\ forms' = forms /\ turn' = [turn EXCEPT ![t] = x]
    BY <1>3 DEF FormAgent
  <2>2. x \in Turn /\ x.pc = "procedures"
    BY DEF Idle, Turn, InForm
  <2>3. x.pc \notin InForm /\ x.pc # "idle"
    BY <2>2 DEF InForm
  <2> HIDE DEF x
  <2> QED
    BY <1>1, <1>3, <2>1, <2>2, <2>3, ElsewhereStep
<1> QED
  BY <1>2, <1>3

\* The turn ends without a form.
LEMMA OtherProcedureStep ==
    ASSUME IInv, NEW t \in Turns, OtherProcedure(t)
    PROVE  IInv'
<1>1. /\ turn[t].pc \notin InForm /\ turn' = [turn EXCEPT ![t] = Idle]
      /\ forms' = forms /\ active' = active
  BY DEF OtherProcedure, Reply, InForm
<1>2. Idle \in Turn /\ Idle.pc = "idle" /\ Idle.pc \notin InForm
  BY DEF Idle, Turn, InForm
<1> QED
  BY <1>1, <1>2, ElsewhereStep

\* A new form replaces the active one, which is closed or failed if it is
\* unshared: an open one would have kept the turn.
LEMMA StartFormStep ==
    ASSUME IInv, NEW t \in Turns, StartForm(t)
    PROVE  IInv'
<1> DEFINE j == Len(forms) + 1
<1>1. turn[t].pc = "procedures" /\ turn[t].pc \notin InForm /\ turn[t].pc # "idle"
  BY DEF StartForm, InForm
<1>2. PICK ask \in BOOLEAN : forms' = Append(forms, After(t, NewForm(ask)))
  BY DEF StartForm
<1> DEFINE f == NewForm(ask)
           g == After(t, f)
<1>3. /\ f \in Form /\ f.state = "INCOMPLETE" /\ f.ends = 0 /\ f.sent = {} /\ ~f.shared
  BY DataFacts DEF NewForm, Form
<1>4. History(f) /\ Fits("exit", f)
  BY <1>3 DEF History, Fits
<1>5. /\ g \in Form
      /\ ~g.shared => g = f /\ \A u \in Turns \ {t} : turn[u].pc = "idle"
  BY <1>3, AfterFacts DEF Overlap
<1>6. /\ forms \in Seq(Form) /\ Len(forms) \in Nat /\ DOMAIN forms = 1 .. Len(forms)
      /\ turn \in [Turns -> Turn]
  BY DEF IInv, TypeOK
<1> HIDE DEF f, g
<1>7. forms' = Append(forms, g)
  BY <1>2 DEF f, g
<1>8. /\ forms' \in Seq(Form) /\ DOMAIN forms' = DOMAIN forms \union {j} /\ j \notin DOMAIN forms
      /\ forms'[j] = g /\ \A i \in DOMAIN forms : forms'[i] = forms[i]
  BY <1>5, <1>6, <1>7
<1>9. active' = j /\ turn' = [turn EXCEPT ![t] = [pc |-> "exit", form |-> j, nested |-> TRUE]]
  BY <1>8 DEF StartForm, Enter
<1>10. [pc |-> "exit", form |-> j, nested |-> TRUE] \in Turn
  BY <1>6 DEF Turn, InForm
<1>11. /\ turn' \in [Turns -> Turn] /\ turn'[t].pc = "exit" /\ turn'[t].form = j
       /\ \A u \in Turns \ {t} : turn'[u] = turn[u]
  BY <1>6, <1>9, <1>10
<1>12. \A u \in Turns \ {t} : turn[u].pc \in InForm => turn[u].form \in DOMAIN forms
  BY DEF IInv, TypeOK
<1>13. TypeOK'
  <2>1. \A u \in Turns : turn'[u].pc \in InForm => turn'[u].form \in DOMAIN forms'
    BY <1>8, <1>11, <1>12
  <2> QED
    BY <1>8, <1>9, <1>11, <2>1 DEF TypeOK
<1>14. Unshared' \subseteq Unshared \union {j}
  BY <1>8 DEF Unshared
<1>15. j \in Unshared' => g = f /\ \A u \in Turns \ {t} : turn[u].pc = "idle"
  BY <1>5, <1>8 DEF Unshared
<1>16. \A i \in Unshared : i # j /\ forms'[i] = forms[i]
  BY <1>8 DEF Unshared
<1> HIDE DEF j
<1>17. \A i \in Unshared' : History(forms'[i])
  BY <1>4, <1>8, <1>14, <1>15, <1>16 DEF IInv
<1>18. OneTurn'
  <2>1. SUFFICES ASSUME NEW i \in Unshared', NEW u \in Turns, turn'[u].pc \in InForm, turn'[u].form = i
                 PROVE  /\ Fits(turn'[u].pc, forms'[i])
                        /\ \A v \in Turns \ {u} : ~(turn'[v].pc \in InForm /\ turn'[v].form = i)
    BY DEF OneTurn
  <2>2. CASE i = j
    <3>1. \A v \in Turns \ {t} : turn'[v].pc = "idle"
      BY <2>2, <1>11, <1>15
    <3>2. u = t
      BY <2>1, <3>1 DEF InForm
    <3> QED
      BY <2>2, <3>1, <3>2, <1>4, <1>8, <1>11, <1>15 DEF InForm
  <2>3. CASE i # j
    <3>1. i \in Unshared /\ forms'[i] = forms[i]
      BY <2>3, <1>14, <1>16
    <3>2. u # t /\ turn'[u] = turn[u]
      BY <2>1, <2>3, <1>11
    <3> QED
      BY <2>1, <2>3, <3>1, <3>2, <1>11 DEF IInv, OneTurn
  <2> QED
    BY <2>2, <2>3
<1>19. ASSUME NEW i \in Unshared', forms'[i].state # "CLOSED", ~forms'[i].failed
       PROVE  i = j
  <2>1. SUFFICES ASSUME i # j PROVE FALSE
    OBVIOUS
  <2>2. i \in Unshared /\ forms'[i] = forms[i]
    BY <2>1, <1>14, <1>16
  <2> QED
    BY <2>2, <1>1, <1>19 DEF IInv, OpenHoldsTurns
<1>20. OpenHoldsTurns'
  BY <1>11, <1>15, <1>19 DEF OpenHoldsTurns, InForm
<1>21. OpenIsActive'
  BY <1>9, <1>19 DEF OpenIsActive
<1> QED
  BY <1>13, <1>17, <1>18, <1>20, <1>21 DEF IInv

\* The inductive invariant holds in every reachable state.
LEMMA Inductive == Spec => []IInv
<1>1. Init => IInv
  <2> SUFFICES ASSUME Init PROVE IInv
    OBVIOUS
  <2>1. forms = <<>> /\ forms \in Seq(Form) /\ DOMAIN forms = {}
    BY DEF Init
  <2>2. Idle \in Turn /\ Idle.pc = "idle" /\ "idle" \notin InForm
    BY DEF Idle, Turn, InForm
  <2>3. TypeOK
    BY <2>1, <2>2 DEF Init, TypeOK
  <2> QED
    BY <2>1, <2>3 DEF IInv, OneTurn, OpenHoldsTurns, OpenIsActive, Unshared
<1>2. IInv /\ [Next]_vars => IInv'
  <2> SUFFICES ASSUME IInv, [Next]_vars PROVE IInv'
    OBVIOUS
  <2>1. CASE Next
    <3>1. PICK t \in Turns : \/ FormAgent(t) \/ StartForm(t) \/ OtherProcedure(t)
                             \/ Confirm(t) \/ Declined(t) \/ ExitIntent(t) \/ update(t) \/ LlmFails(t)
      BY <2>1 DEF Next
    <3> QED
      BY <3>1, FormAgentStep, StartFormStep, OtherProcedureStep, ConfirmStep, DeclinedStep,
         ExitIntentStep, UpdateStep, LlmFailsStep
  <2>2. CASE UNCHANGED vars
    BY <2>2 DEF vars, IInv, TypeOK, OneTurn, OpenHoldsTurns, OpenIsActive, Unshared
  <2> QED
    BY <2>1, <2>2
<1> QED
  BY <1>1, <1>2, PTL DEF Spec

-----------------------------------------------------------------------------
(* Theorems *)

\* A form is submitted once or exited once, never both: next sets CLOSED before
\* it calls submit, and no later step of a turn opens or ends it again.
THEOREM EndsOnceHolds == Spec => []EndsOnce
<1>1. IInv => EndsOnce
  BY DEF IInv, EndsOnce, History
<1> QED
  BY <1>1, Inductive, PTL

\* Whatever is submitted has every required field with a valid value.
THEOREM SubmittedCompleteHolds == Spec => []SubmittedComplete
<1>1. IInv => SubmittedComplete
  BY DEF IInv, SubmittedComplete, History, Complete
<1> QED
  BY <1>1, Inductive, PTL

\* A form that asks for confirmation submits what it showed last.
THEOREM ConfirmedAsShownHolds == Spec => []ConfirmedAsShown
<1>1. IInv => ConfirmedAsShown
  BY DEF IInv, ConfirmedAsShown, History
<1> QED
  BY <1>1, Inductive, PTL

\* An open form stays the active one, unless an error let the turn go on.
THEOREM OpenIsActiveHolds == Spec => []OpenIsActive
<1>1. IInv => OpenIsActive
  BY DEF IInv
<1> QED
  BY <1>1, Inductive, PTL
=============================================================================
