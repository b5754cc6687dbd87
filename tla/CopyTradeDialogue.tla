--------------------------- MODULE CopyTradeDialogue ---------------------------
(***************************************************************************)
(* The copy-trade part of the bot: the menu, the dialogue that creates a   *)
(* copy trade and the one that edits or deletes it                         *)
(* (conversations/copytrade).  One definition per handler: the state its   *)
(* filter asks for, what it does to the form, and what it awaits, in the   *)
(* order of the code.                                                      *)
(***************************************************************************)
EXTENDS Chat

Menu     == <<"copytrade", "menu">>
Creating == <<"copytrade", "creating">>
Editing  == <<"copytrade", "editing">>
Key      == "copytrade_settings"

(***************************************************************************)
(* The form, with the slippage in thousandths of a percent and the amount  *)
(* in hundred-thousandths of a SOL; any other number is 1, or 2 for        *)
(* another one.                                                            *)
(***************************************************************************)
NewForm == [target |-> None, alias |-> None, amount |-> 5000, follow |-> TRUE,
            noSell |-> FALSE, priority |-> 1, sandwich |-> FALSE,
            autoSlippage |-> TRUE, slippage |-> 10000, active |-> TRUE]

\* The row of a copy trade of 0.00001 SOL and 2.3 percent.
StoredRow == [NewForm EXCEPT !.target = 1, !.amount = 1, !.slippage = 229]

\* bound: what the user types
Numbers == {1, 2}
Typed(f) ==
  CASE f = "slippage" -> {2300, 10000}
    [] f = "amount"   -> {1, 5000}
    [] OTHER          -> Numbers

Number   == Numbers \cup {None}
Settings ==
  [target : Number, alias : Number, amount : Nat, follow : BOOLEAN, noSell : BOOLEAN,
   priority : Number, sandwich : BOOLEAN, autoSlippage : BOOLEAN, slippage : Nat,
   active : BOOLEAN]

Always(value) == TRUE

(***************************************************************************)
(* menu.py: each of these shows the menu; none asks for a state.           *)
(***************************************************************************)
ShowMenu == Tell(Menu)

start_copytrade(c) ==
  /\ Arrived(c)
  /\ Runs(c, "", None, ShowMenu)
  /\ UNCHANGED <<fsm, data, forms, rows, left, failures>>

refresh_copytrade(c) == start_copytrade(c)

stop_all_copytrade(c) ==
  /\ Arrived(c)
  /\ Runs(c, "form", None, Await("readAll") \o Await("commit") \o ShowMenu)
  /\ UNCHANGED <<fsm, data, forms, rows, left, failures>>

MenuHandlers(c) ==
  start_copytrade(c) \/ refresh_copytrade(c) \/ stop_all_copytrade(c)

(***************************************************************************)
(* create.py                                                               *)
(***************************************************************************)
\* The owner's wallet is read, then a new form replaces the one in the data.
start_create_copytrade(c) ==
  /\ Arrived(c)
  /\ Runs(c, "form", None, Await("newCopytrade") \o Tell(Creating))
  /\ UNCHANGED <<fsm, data, forms, rows, left, failures>>

NewCopytrade(c) ==
  /\ At(c, "newCopytrade")
  /\ forms' = Append(forms, [row |-> None, value |-> NewForm])
  /\ data' = [data EXCEPT ![Key] = Len(forms) + 1]
  /\ Goes(c)
  /\ UNCHANGED <<rows, left, failures, clash>>

CreateAnswer(c, f, more(_)) ==
  Answer(c, Key, Creating, f, Typed(f), more, <<>>, TidyQuietly \o Tell(Creating))

CreatePress(c, f, can(_), change(_)) ==
  Press(c, Key, Creating, f, can, change, Tell(None))

create_start_set_address(c)  == Ask(c, Creating, "target")
create_set_address(c)        == CreateAnswer(c, "target", Unchanged)
create_start_set_alias(c)    == Ask(c, Creating, "alias")
create_set_alias(c)          == CreateAnswer(c, "alias", Unchanged)
create_start_set_amount(c)   == Ask(c, Creating, "amount")
create_set_amount(c)         == CreateAnswer(c, "amount", Unchanged)
create_start_set_priority(c) == Ask(c, Creating, "priority")
create_set_priority(c)       == CreateAnswer(c, "priority", Unchanged)
create_start_set_slippage(c) == Ask(c, Creating, "slippage")

\* A slippage of one's own turns the automatic one off.
OwnSlippage(value) == [value EXCEPT !.autoSlippage = FALSE]
create_set_slippage(c) == CreateAnswer(c, "slippage", OwnSlippage)

NotFollowing(value) == ~value.follow
Follow(value)       == [value EXCEPT !.follow = TRUE, !.noSell = FALSE]
NotHolding(value)   == ~value.noSell
HoldOnly(value)     == [value EXCEPT !.noSell = TRUE]     \* mutant: follow stays
Hold(value)         == [value EXCEPT !.noSell = TRUE, !.follow = FALSE]
FlipSandwich(value) == [value EXCEPT !.sandwich = ~@]
FlipSlippage(value) == [value EXCEPT !.autoSlippage = ~@]
FlipActive(value)   == [value EXCEPT !.active = ~@]

create_toggle_auto_follow(c)   == CreatePress(c, "follow", NotFollowing, Follow)
create_toggle_no_sell(c)       == CreatePress(c, "follow", NotHolding, Hold)
create_toggle_anti_sandwich(c) == CreatePress(c, "sandwich", Always, FlipSandwich)
create_toggle_auto_slippage(c) == CreatePress(c, "slippage", Always, FlipSlippage)

cancel_copytrade(c) ==
  /\ Arrived(c) /\ calls[c].seen = Creating
  /\ Runs(c, "", None, ShowMenu)
  /\ UNCHANGED <<fsm, data, forms, rows, left, failures>>

\* The form stays in the data: what is inserted is a copy taken now.
submit_copytrade(c) ==
  /\ Arrived(c) /\ calls[c].seen = Creating
  /\ IF data[Key] = None \/ forms[data[Key]].value.target = None
     THEN Ends(c) /\ UNCHANGED <<forms, clash>>
     ELSE /\ forms' = Append(forms, [forms[data[Key]] EXCEPT !.value.active = TRUE])
          /\ Runs(c, "", Len(forms) + 1, Await("insert") \o ShowMenu)
  /\ UNCHANGED <<fsm, data, rows, left, failures>>

CreateHandlers(c) ==
  \/ start_create_copytrade(c) \/ cancel_copytrade(c) \/ submit_copytrade(c)
  \/ create_start_set_address(c) \/ create_set_address(c)
  \/ create_start_set_alias(c) \/ create_set_alias(c)
  \/ create_start_set_amount(c) \/ create_set_amount(c)
  \/ create_start_set_priority(c) \/ create_set_priority(c)
  \/ create_start_set_slippage(c) \/ create_set_slippage(c)
  \/ create_toggle_auto_follow(c) \/ create_toggle_no_sell(c)
  \/ create_toggle_anti_sandwich(c) \/ create_toggle_auto_slippage(c)

(***************************************************************************)
(* edit.py                                                                 *)
(***************************************************************************)
\* copytrade_{id}, on any menu the chat still shows.
handle_copytrade_selection(c) ==
  /\ Arrived(c)
  /\ Runs(c, "form", None, Await("loadCopytrade") \o Tell(Editing))
  /\ UNCHANGED <<fsm, data, forms, rows, left, failures>>

\* The row the button names.
LoadCopytrade(c) ==
  \E r \in DOMAIN rows : Load(c, r, "loadCopytrade", Key, AsForm(rows[r]))

\* The prompt is removed before the change is saved, except for the amount.
SaveLast  == Tidy \o Save \o Tell(Editing)
SaveFirst == Save \o Tell(Editing)

EditAnswer(c, f, more(_), steps) ==
  Answer(c, Key, Editing, f, Typed(f), more, Tidy, steps)

EditPress(c, f, can(_), change(_)) ==
  Press(c, Key, Editing, f, can, change, Save \o Tell(None))

edit_start_set_alias(c)    == Ask(c, Editing, "alias")
edit_set_alias(c)          == EditAnswer(c, "alias", Unchanged, SaveLast)
edit_start_set_amount(c)   == Ask(c, Editing, "amount")
edit_set_amount(c)         == EditAnswer(c, "amount", Unchanged, SaveFirst)
edit_start_set_priority(c) == Ask(c, Editing, "priority")
edit_set_priority(c)       == EditAnswer(c, "priority", Unchanged, SaveLast)
edit_start_set_slippage(c) == Ask(c, Editing, "slippage")
edit_set_slippage(c)       == EditAnswer(c, "slippage", OwnSlippage, SaveLast)

edit_toggle_auto_follow(c)   == EditPress(c, "follow", NotFollowing, Follow)
edit_toggle_no_sell(c)       == EditPress(c, "follow", NotHolding, Hold)
edit_toggle_anti_sandwich(c) == EditPress(c, "sandwich", Always, FlipSandwich)
edit_toggle_auto_slippage(c) == EditPress(c, "slippage", Always, FlipSlippage)
toggle_copytrade(c)          == EditPress(c, "active", Always, FlipActive)

\* delete_copytrade asks and cancel_delete_copytrade removes the question.
delete_copytrade(c) ==
  /\ Arrived(c) /\ calls[c].seen = Editing
  /\ Runs(c, "", None, Tell(None))
  /\ UNCHANGED <<fsm, data, forms, rows, left, failures>>

cancel_delete_copytrade(c) == delete_copytrade(c)

confirm_delete_copytrade(c) ==
  Press(c, Key, Editing, "form", Always, Unchanged,
        Await("delete") \o Await("deletedCopytrade"))

ForgetCopytrade(c) == Forget(c, "deletedCopytrade", Key)

back_to_copytrade(c) ==
  /\ Arrived(c) /\ calls[c].seen = Editing
  /\ data' = [data EXCEPT ![Key] = None]
  /\ Runs(c, "", None, ShowMenu)
  /\ UNCHANGED <<fsm, forms, rows, left, failures>>

EditHandlers(c) ==
  \/ handle_copytrade_selection(c) \/ back_to_copytrade(c)
  \/ edit_start_set_alias(c) \/ edit_set_alias(c)
  \/ edit_start_set_amount(c) \/ edit_set_amount(c)
  \/ edit_start_set_priority(c) \/ edit_set_priority(c)
  \/ edit_start_set_slippage(c) \/ edit_set_slippage(c)
  \/ edit_toggle_auto_follow(c) \/ edit_toggle_no_sell(c)
  \/ edit_toggle_anti_sandwich(c) \/ edit_toggle_auto_slippage(c)
  \/ toggle_copytrade(c) \/ delete_copytrade(c) \/ confirm_delete_copytrade(c)
  \/ cancel_delete_copytrade(c)

CopyTradeStep(c) ==
  \/ MenuHandlers(c) \/ CreateHandlers(c) \/ EditHandlers(c)
  \/ NewCopytrade(c) \/ LoadCopytrade(c) \/ ForgetCopytrade(c)
=============================================================================
