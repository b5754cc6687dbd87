---------------------------------- MODULE Chat ----------------------------------
(***************************************************************************)
(* One chat of the Telegram bot: what every conversation handler of        *)
(* tg_bot.conversations is built from.                                     *)
(*                                                                         *)
(* aiogram reads the chat's FSM state when an update comes in, asks the    *)
(* database in the middlewares and then runs the handler the state         *)
(* selected, every update in a task of its own.  A handler runs to its     *)
(* first await on Telegram or on the database and goes on from await to    *)
(* await; what is left of it is a sequence of steps, one per await, each   *)
(* with the FSM state that is set when the await has returned.  FSM state  *)
(* and data are in memory: reading and writing them awaits nothing, and    *)
(* the objects FSM data refers to are shared by all handlers.              *)
(***************************************************************************)
EXTENDS Integers, Sequences, FiniteSets

CONSTANTS
  Slot,         \* bound: updates of the chat that are handled at a time
  None,
  Short,        \* slippages whose product with 100 floating point makes too small
  MaxFailures   \* bound: failing calls of Telegram, the database or Redis

VARIABLES
  fsm,          \* the FSM state, outermost group first; <<>> when there is none
  data,         \* the FSM data that handlers share: [key -> object or None]
  forms,        \* those objects: [row, value]; row is None before the first save
  rows,         \* the table the forms are saved in; None where a row was deleted
  calls,        \* the updates in hand, by slot
  left,         \* bound: updates the user has still to send
  failures,
  \* history: two handlers met on one field or on a whole form, a state changed
  \* under a handler it had selected, or a call failed
  clash

chatVars == <<fsm, data, forms, rows, calls, left, failures, clash>>

Idle == [seen |-> None, todo |-> <<>>, on |-> "", form |-> None, write |-> {}]

(***************************************************************************)
(* Steps: what is awaited, and the state set afterwards (None: unchanged). *)
(***************************************************************************)
Tell(state)  == <<[do |-> "tell", to |-> state]>>       \* messages, any of which may fail
TidyQuietly  == <<[do |-> "tidy", to |-> None]>>        \* try: delete ... except: log
Save         == <<[do |-> "read", to |-> None], [do |-> "commit", to |-> None]>>
Await(what)  == <<[do |-> what, to |-> None]>>

\* cleanup_conversation_messages raises when a message cannot be deleted.
Tidy == Tell(None)

Running(c) == calls[c].todo # <<>>
Busy       == \E c \in Slot : calls[c] # Idle
At(c, what) == Running(c) /\ Head(calls[c].todo).do = what

\* The await of c has returned: the state is set and the next step is due.
Goes(c) ==
  /\ LET rest == Tail(calls[c].todo)
     IN calls' = [calls EXCEPT ![c] = IF rest = <<>> THEN Idle ELSE [@ EXCEPT !.todo = rest]]
  /\ fsm' = IF Head(calls[c].todo).to = None THEN fsm ELSE Head(calls[c].todo).to

\* The handler of c returns, or an exception leaves it for ErrorHandlerMiddleware.
Ends(c) == calls' = [calls EXCEPT ![c] = Idle]

(***************************************************************************)
(* Handlers                                                                *)
(***************************************************************************)
\* An update comes in; the state filters see the state of this moment.
Receive(c) ==
  /\ calls[c] = Idle /\ left > 0
  /\ calls' = [calls EXCEPT ![c].seen = fsm]
  /\ left' = left - 1
  /\ UNCHANGED <<fsm, data, forms, rows, failures, clash>>

Arrived(c) == calls[c].seen # None

\* An own slippage also sets the flag of the automatic one.
SetBy(on) == IF on = "slippage" THEN {"slippage", "autoSlippage"} ELSE {on}

\* Two handlers clash when they work on the same field, either on a whole form, or
\* one is about to write the other's field.  The code keeps no order between them;
\* clash remembers such a meeting and a failed call, for the properties that speak
\* of chats without one.
Meets(on) ==
  \E d \in Slot :
    /\ Running(d) /\ on # "" /\ calls[d].on # ""
    /\ \/ calls[d].on = on /\ on # "prompt"
       \/ "form" \in {on, calls[d].on}
       \/ \E w \in calls[d].write : w[Len(w) - 1] \in SetBy(on)

\* The handler of c runs to its first await; it works on the field `on` of form.
Runs(c, on, form, steps) ==
  /\ calls' = [calls EXCEPT ![c] = [Idle EXCEPT !.todo = steps, !.on = on, !.form = form]]
  /\ clash' = (clash \/ Meets(on))

\* The same for a handler that the state selected, which may have changed since.
RunsIn(c, state, on, form, steps) ==
  /\ calls' = [calls EXCEPT ![c] = [Idle EXCEPT !.todo = steps, !.on = on, !.form = form]]
  /\ clash' = (clash \/ Meets(on) \/ fsm # state)

\* A button that asks for the value of a field: prompt, then wait for the answer.
Ask(c, state, f) ==
  /\ Arrived(c) /\ calls[c].seen = state
  /\ RunsIn(c, state, "prompt", None, Tell(Append(state, f)))
  /\ UNCHANGED <<fsm, data, forms, rows, left, failures>>

\* A text while a value is waited for.  Without a form the handler returns; what
\* it cannot read it asks for again, which leaves everything as it is; a value the
\* form already has takes the steps `same`, any other is set in the shared object.
Answer(c, key, state, f, values, more(_), same, steps) ==
  /\ Arrived(c) /\ calls[c].seen = Append(state, f)
  /\ LET form == data[key]
     IN \/ Ends(c) /\ UNCHANGED <<fsm, forms, clash>>
        \/ \E v \in values :
             /\ form # None
             /\ IF forms[form].value[f] = v /\ same # <<>>
                THEN /\ fsm' = state /\ UNCHANGED forms
                     /\ RunsIn(c, Append(state, f), "", form, same)
                ELSE /\ forms' = [forms EXCEPT ![form].value = more([@ EXCEPT ![f] = v])]
                     /\ UNCHANGED fsm
                     /\ RunsIn(c, Append(state, f), f, form, steps)
  /\ UNCHANGED <<data, rows, left, failures>>

Unchanged(value) == value

\* A button that changes the form at once.
Press(c, key, state, f, can(_), change(_), steps) ==
  /\ Arrived(c) /\ calls[c].seen = state
  /\ LET form == data[key]
     IN IF form = None \/ ~can(forms[form].value)
        THEN Ends(c) /\ UNCHANGED <<forms, clash>>
        ELSE /\ forms' = [forms EXCEPT ![form].value = change(@)]
             /\ RunsIn(c, state, f, form, steps)
  /\ UNCHANGED <<fsm, data, rows, left, failures>>

(***************************************************************************)
(* Steps on the table                                                      *)
(***************************************************************************)
Exists(r) == r \in 1..Len(rows) /\ rows[r] # None

\* The columns that do not hold what the form does: a slippage is typed in percent,
\* here in thousandths of one, and stored as int(slippage * 100) basis points.
Column(f, v) ==
  IF f = "slippage" THEN (IF v \in Short THEN v \div 10 - 1 ELSE v \div 10) ELSE v

AsRow(value) == [f \in DOMAIN value |-> Column(f, value[f])]

\* What from_db_model makes of a column: bps // 100 percent, and an amount, here in
\* hundred-thousandths of a SOL, rounded to four digits.
Field(f, v) ==
  CASE f = "slippage" -> (v \div 100) * 1000
    [] f = "amount"   -> ((v + 5) \div 10) * 10
    [] OTHER          -> v

AsForm(row) == [f \in DOMAIN row |-> Field(f, row[f])]

\* The columns of the row of form o that update() changes.
Changes(o, fields) ==
  {<<o.row, f, Column(f, o.value[f])>> :
     f \in {g \in fields : Column(g, o.value[g]) # rows[o.row][g]}}

ReadAllButSlippage(c) ==    \* mutant: update() forgets a column
  /\ At(c, "read")
  /\ LET o == forms[calls[c].form]
     IN IF Exists(o.row)
        THEN /\ calls' = [calls EXCEPT
                  ![c].todo = Tail(@),
                  ![c].write = Changes(o, DOMAIN o.value \ {"slippage"})]
             /\ UNCHANGED clash
        ELSE Ends(c) /\ clash' = TRUE
  /\ UNCHANGED <<fsm, data, forms, rows, left, failures>>

\* update(): SELECT the row and assign every field; what differs will be written.
Read(c) ==
  /\ At(c, "read")
  /\ LET o == forms[calls[c].form]
     IN IF Exists(o.row)
        THEN /\ calls' = [calls EXCEPT
                  ![c].todo = Tail(@),
                  ![c].write = Changes(o, DOMAIN o.value)]
             /\ UNCHANGED clash
        ELSE Ends(c) /\ clash' = TRUE
  /\ UNCHANGED <<fsm, data, forms, rows, left, failures>>

Written(r, row, write) ==
  [f \in DOMAIN row |->
     IF \E w \in write : w[1] = r /\ w[2] = f
     THEN (CHOOSE w \in write : w[1] = r /\ w[2] = f)[3] ELSE row[f]]

CommitAnyway(c) ==      \* mutant: INSERT ... ON DUPLICATE KEY UPDATE
  /\ At(c, "commit")
  /\ rows' = [r \in DOMAIN rows |->
                IF rows[r] # None THEN Written(r, rows[r], calls[c].write)
                ELSE IF calls[c].form # None /\ \E w \in calls[c].write : w[1] = r
                THEN AsRow(forms[calls[c].form].value) ELSE None]
  /\ Goes(c)
  /\ UNCHANGED <<data, forms, left, failures, clash>>

\* COMMIT: an UPDATE of a row that was deleted meanwhile raises StaleDataError.
Commit(c) ==
  /\ At(c, "commit")
  /\ IF \A w \in calls[c].write : Exists(w[1])
     THEN /\ rows' = [r \in DOMAIN rows |->
                        IF rows[r] = None THEN None
                        ELSE Written(r, rows[r], calls[c].write)]
          /\ Goes(c) /\ UNCHANGED clash
     ELSE Ends(c) /\ clash' = TRUE /\ UNCHANGED <<rows, fsm>>
  /\ UNCHANGED <<data, forms, left, failures>>

\* add(): the row is built from the form as it was when the handler ran.
Insert(c) ==
  /\ At(c, "insert")
  /\ rows' = Append(rows, AsRow(forms[calls[c].form].value))
  /\ Goes(c)
  /\ UNCHANGED <<data, forms, left, failures, clash>>

\* delete(): a row that is already gone is no error.
Delete(c) ==
  /\ At(c, "delete")
  /\ LET r == forms[calls[c].form].row
     IN rows' = IF Exists(r) THEN [rows EXCEPT ![r] = None] ELSE rows
  /\ Goes(c)
  /\ UNCHANGED <<data, forms, left, failures, clash>>

\* inactive_all(): every row of the owner.
ReadAll(c) ==
  /\ At(c, "readAll")
  /\ calls' = [calls EXCEPT ![c].todo = Tail(@),
                            ![c].write = {<<r, "active", FALSE>> :
                               r \in {q \in DOMAIN rows : Exists(q) /\ rows[q].active}}]
  /\ UNCHANGED <<fsm, data, forms, rows, left, failures, clash>>

\* get_by_id() reads the row r into an object of its own and the selection makes it
\* the form under key, with the value from_db_model makes of the row.
Load(c, r, what, key, value) ==
  /\ At(c, what)
  /\ IF Exists(r)
     THEN /\ forms' = Append(forms, [row |-> r, value |-> value])
          /\ data' = [data EXCEPT ![key] = Len(forms) + 1]
          /\ Goes(c)
     ELSE Ends(c) /\ UNCHANGED <<forms, data, fsm>>
  /\ UNCHANGED <<rows, left, failures, clash>>

\* The last message of a deletion is out: the form is forgotten.
Forget(c, what, key) ==
  /\ At(c, what)
  /\ data' = [data EXCEPT ![key] = None]
  /\ Goes(c)
  /\ UNCHANGED <<forms, rows, left, failures, clash>>

\* A step without effect of its own: messages.
Message(c) ==
  /\ At(c, "tell") \/ At(c, "tidy")
  /\ Goes(c)
  /\ UNCHANGED <<data, forms, rows, left, failures, clash>>

\* An await raises.  inactive_all is called in a try block: the menu is shown all
\* the same.
Fail(c) ==
  /\ Running(c) /\ ~At(c, "tidy") /\ failures < MaxFailures
  /\ LET todo == calls[c].todo
     IN calls' = [calls EXCEPT ![c] =
          IF @.form = None /\ (At(c, "readAll") \/ At(c, "commit"))
          THEN [@ EXCEPT !.todo = <<todo[Len(todo)]>>] ELSE Idle]
  /\ failures' = failures + 1 /\ clash' = TRUE
  /\ UNCHANGED <<fsm, data, forms, rows, left>>

TableStep(c) ==
  Read(c) \/ Commit(c) \/ Insert(c) \/ Delete(c) \/ ReadAll(c)
=============================================================================
