------------------------------ MODULE CatForm -------------------------------
(***************************************************************************)
(* The conversational forms of one user: CatForm, FormAgent and the part of *)
(* ProceduresAgent that starts forms.  A form lives in the user's working   *)
(* memory across turns.  Turns run in threads and share the memory; they    *)
(* are split at the LLM calls, which is where a turn spends its time.       *)
(*                                                                          *)
(* What the LLM answers is a choice.  A form's data is a function from the  *)
(* keys found so far to values; pydantic accepts it when every required     *)
(* field is there with a value of Good.                                     *)
(***************************************************************************)
EXTENDS Naturals, Sequences, FiniteSets

CONSTANTS
    Turns,      \* threads that run conversation turns
    Keys,       \* keys the LLM may write
    Required,   \* those that are fields of the form's model class
    Good,       \* values a field accepts
    MaxForms    \* bound on the forms started

ASSUME FormAssumption ==
    /\ Required \subseteq Keys
    /\ MaxForms \in Nat
    /\ {"bad", "worse"} \intersect Good = {}

VARIABLES
    forms,    \* every form started, in order
    active,   \* working_memory.active_form: 0 or an index of forms
    turn      \* turn[t]: where it is, in which form, and who called the FormAgent

vars == <<forms, active, turn>>

\* A "bad" value has one validation error, a "worse" one has two.
Values == Good \union {"bad", "worse"}

Models == {m \in UNION {[K -> Values] : K \in SUBSET Keys} :
             \A k \in DOMAIN m \ Required : m[k] \in Good}

\* CatForm.__init__.  A state is INCOMPLETE, COMPLETE, WAIT_CONFIRM or CLOSED.
\* The fields from ends on are history: how often the form
\* was exited or submitted, what was submitted, what the last request for
\* confirmation showed, whether a turn touched it while another one was
\* running, and whether an error in it let a turn go on to other procedures.
NewForm(ask) ==
    [state |-> "INCOMPLETE", model |-> <<>>, ask_confirm |-> ask,
     ends |-> 0, sent |-> {}, shown |-> {}, shared |-> FALSE, failed |-> FALSE]

Idle == [pc |-> "idle", form |-> 0, nested |-> FALSE]

Overlap(t) == \E u \in Turns \ {t} : turn[u].pc # "idle"

\* What turn t leaves of form f.  Nothing is claimed about a form that turns
\* share, so its history is dropped.
After(t, f) ==
    IF f.shared \/ Overlap(t)
    THEN [f EXCEPT !.shared = TRUE, !.failed = FALSE, !.ends = 0, !.sent = {}, !.shown = {}]
    ELSE f

Put(t, f) == forms' = [forms EXCEPT ![turn[t].form] = After(t, f)]

Mine(t) == forms[turn[t].form]

Goto(t, pc) == turn' = [turn EXCEPT ![t].pc = pc]

\* The turn answers with what the form returned.
Reply(t) == turn' = [turn EXCEPT ![t] = Idle]

Counted(f) == IF f.ends = 2 THEN 2 ELSE f.ends + 1

-----------------------------------------------------------------------------
(* CatForm.next *)

\* An exception in next: the FormAgent returns an empty output.  Called first
\* thing in the turn, that lets the turn go on to the procedures.
Raise(t, f) ==
    IF turn[t].nested
    THEN Put(t, f) /\ Reply(t)
    ELSE Put(t, [f EXCEPT !.failed = TRUE]) /\ turn' = [turn EXCEPT ![t].pc = "procedures"]

\* Mutant of submit: the form is closed when submit has returned.
SubmitThenClose(t, f) ==
    LET done == [f EXCEPT !.ends = Counted(f), !.sent = @ \union {f.model}]
    IN  \/ Put(t, [done EXCEPT !.state = "CLOSED"]) /\ Reply(t)
        \/ Raise(t, done)

\* The form is closed first; submit, which is the plugin's code, may raise.
submit(t, f) ==
    LET done == [f EXCEPT !.state = "CLOSED", !.ends = Counted(f), !.sent = @ \union {f.model}]
    IN  \/ Put(t, done) /\ Reply(t)
        \/ Raise(t, done)

Exited(f) ==
    IF f.state = "CLOSED" THEN f ELSE [f EXCEPT !.state = "CLOSED", !.ends = Counted(f)]

\* Mutant of OnComplete: a form that should ask does not.
NeverAsk(t, f) ==
    IF f.state = "COMPLETE" THEN submit(t, f) ELSE Put(t, f) /\ Reply(t)

\* The end of next: a complete form asks for confirmation or is submitted, any
\* other state is answered with a message.
OnComplete(t, f) ==
    IF f.state = "COMPLETE" /\ ~f.ask_confirm
    THEN submit(t, f)
    ELSE /\ Put(t, IF f.state = "COMPLETE"
                   THEN [f EXCEPT !.state = "WAIT_CONFIRM", !.shown = {f.model}]
                   ELSE f)
         /\ Reply(t)

\* confirm: yes submits what the form holds now.
Confirm(t) ==
    /\ turn[t].pc = "confirm"
    /\ \/ submit(t, Mine(t))
       \/ Put(t, Mine(t)) /\ Goto(t, "declined")
    /\ UNCHANGED active

\* The first check_exit_intent, after a no.
Declined(t) ==
    /\ turn[t].pc = "declined"
    /\ \/ Put(t, Exited(Mine(t)))
       \/ Put(t, [Mine(t) EXCEPT !.state = "INCOMPLETE"])
    /\ Goto(t, "exit")
    /\ UNCHANGED active

\* The check_exit_intent of every turn.
ExitIntent(t) ==
    /\ turn[t].pc = "exit"
    /\ \/ Put(t, Exited(Mine(t))) /\ Reply(t)
       \/ Mine(t).state = "INCOMPLETE" /\ Put(t, Mine(t)) /\ Goto(t, "extract")
       \/ Mine(t).state # "INCOMPLETE" /\ OnComplete(t, Mine(t))
    /\ UNCHANGED active

-----------------------------------------------------------------------------
(* CatForm.update *)

Merge(old, new) ==
    [k \in DOMAIN old \union DOMAIN new |-> IF k \in DOMAIN new THEN new[k] ELSE old[k]]

Without(m, K) == [k \in DOMAIN m \ K |-> m[k]]

Invalid(m) == {k \in DOMAIN m \intersect Required : m[k] \notin Good}

\* Mutant of validate: fields that are missing do not count.
ValidateIgnoresMissing(f) ==
    [f EXCEPT !.model = Without(@, Invalid(@)),
              !.state = IF Invalid(f.model) = {} THEN "COMPLETE" ELSE "INCOMPLETE"]

\* Invalid values are deleted.  What pydantic would add or drop is not kept, so
\* keys that are no fields of the class stay.
validate(f) ==
    [f EXCEPT !.model = Without(@, Invalid(@)),
              !.state = IF Invalid(f.model) = {} /\ Required \subseteq DOMAIN f.model
                        THEN "COMPLETE" ELSE "INCOMPLETE"]

\* extract, sanitize, merge, validate.  An answer that is not JSON gives no
\* details.  Two errors of one field delete it twice: that raises, with the
\* fields from there on not looked at.
update(t) ==
    /\ turn[t].pc = "extract"
    /\ \E details \in Models :
          LET merged == [Mine(t) EXCEPT !.model = Merge(@, details)]
              twice  == {k \in Invalid(merged.model) : merged.model[k] = "worse"}
          IN  IF twice = {}
              THEN OnComplete(t, validate(merged))
              ELSE \E gone \in SUBSET Invalid(merged.model) :
                      /\ Cardinality(gone \intersect twice) = 1
                      /\ Raise(t, [merged EXCEPT !.model = Without(@, gone)])
    /\ UNCHANGED active

\* The LLM call of any of these steps raises.
LlmFails(t) ==
    /\ turn[t].pc \in {"confirm", "declined", "exit", "extract"}
    /\ Raise(t, Mine(t))
    /\ UNCHANGED active

-----------------------------------------------------------------------------
(* FormAgent and ProceduresAgent *)

\* Where a turn that takes up form i begins.
Enter(t, i, nested) ==
    turn' = [turn EXCEPT ![t] =
               [pc |-> IF i \in DOMAIN forms /\ forms[i].state = "WAIT_CONFIRM" THEN "confirm" ELSE "exit",
                form |-> i, nested |-> nested]]

\* Mutant of FormAgent: a form that waits for confirmation is taken for closed.
DropWaiting(t) ==
    /\ turn[t].pc = "idle"
    /\ IF active # 0 /\ forms[active].state = "INCOMPLETE"
       THEN /\ Enter(t, active, FALSE)
            /\ forms' = [forms EXCEPT ![active] = After(t, @)]
            /\ UNCHANGED active
       ELSE /\ active' = 0
            /\ turn' = [turn EXCEPT ![t] = [Idle EXCEPT !.pc = "procedures"]]
            /\ UNCHANGED forms

\* A turn begins: it goes on with the active form, or drops a closed one.
FormAgent(t) ==
    /\ turn[t].pc = "idle"
    /\ IF active # 0 /\ forms[active].state # "CLOSED"
       THEN /\ Enter(t, active, FALSE)
            /\ forms' = [forms EXCEPT ![active] = After(t, @)]
            /\ UNCHANGED active
       ELSE /\ active' = 0
            /\ turn' = [turn EXCEPT ![t] = [Idle EXCEPT !.pc = "procedures"]]
            /\ UNCHANGED forms

\* The LLM chooses a form: an instance replaces the active form and is run.
StartForm(t) ==
    /\ turn[t].pc = "procedures"
    /\ Len(forms) < MaxForms
    /\ \E ask \in BOOLEAN :
          forms' = Append(forms, After(t, NewForm(ask)))
    /\ active' = Len(forms) + 1
    /\ Enter(t, Len(forms) + 1, TRUE)

\* No procedure was recalled or chosen, a tool was run, or that failed.
OtherProcedure(t) ==
    /\ turn[t].pc = "procedures"
    /\ Reply(t)
    /\ UNCHANGED <<forms, active>>

-----------------------------------------------------------------------------
Init ==
    /\ forms = <<>>
    /\ active = 0
    /\ turn = [t \in Turns |-> Idle]

Next ==
    \E t \in Turns :
        \/ FormAgent(t) \/ StartForm(t) \/ OtherProcedure(t)
        \/ Confirm(t) \/ Declined(t) \/ ExitIntent(t) \/ update(t) \/ LlmFails(t)

Spec == Init /\ [][Next]_vars

-----------------------------------------------------------------------------
(* Properties.  They are about forms that no overlapping turns touched. *)

Unshared == {i \in DOMAIN forms : ~forms[i].shared}

\* A form ends once: it is submitted once or exited, never both, never twice and
\* never opened again, although submit may raise and the form object stays in
\* working memory until the next turn (next sets CLOSED before it calls submit).
EndsOnce == \A i \in Unshared : forms[i].ends <= 1

\* What is submitted has every required field with a valid value, however often
\* the user corrected it, declined, or an update raised half way through validate.
SubmittedComplete ==
    \A i \in Unshared : \A m \in forms[i].sent : Required \subseteq DOMAIN m /\ Invalid(m) = {}

\* A form with ask_confirm submits the data its last request for confirmation
\* showed: nothing the user said in between has changed it.
ConfirmedAsShown ==
    \A i \in Unshared : forms[i].ask_confirm => forms[i].sent \subseteq forms[i].shown

\* A form that was neither submitted nor exited is still the active one, unless
\* an error in it let a turn go on and start another (FormAgent.execute).
OpenIsActive ==
    \A i \in Unshared : forms[i].state # "CLOSED" /\ ~forms[i].failed => i = active
=============================================================================
