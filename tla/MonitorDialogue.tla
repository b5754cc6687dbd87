---------------------------- MODULE MonitorDialogue ----------------------------
(***************************************************************************)
(* The wallet-monitor part of the bot: menu, creation, editing and         *)
(* deletion of a monitor (conversations/monitor).  The form that is        *)
(* created and the one that is edited have keys of their own.              *)
(***************************************************************************)
EXTENDS Chat

Menu     == <<"monitor", "menu">>
Creating == <<"monitor", "creating">>
Editing  == <<"monitor", "editing">>
NewKey   == "monitor_settings"
Key      == "monitor"

Names     == {1, 2}
NewForm   == [target |-> None, alias |-> None, active |-> TRUE]
StoredRow == [NewForm EXCEPT !.target = 1]
Settings  == [target : Names \cup {None}, alias : Names \cup {None}, active : BOOLEAN]

Always(value)     == TRUE
FlipActive(value) == [value EXCEPT !.active = ~@]

(***************************************************************************)
(* menu.py                                                                 *)
(***************************************************************************)
ShowMenu == Tell(Menu)

enter_monitor_menu(c) ==
  /\ Arrived(c)
  /\ Runs(c, "", None, ShowMenu)
  /\ UNCHANGED <<fsm, data, forms, rows, left, failures>>

stop_all_monitor(c) ==
  /\ Arrived(c)
  /\ Runs(c, "form", None, Await("readAll") \o Await("commit") \o ShowMenu)
  /\ UNCHANGED <<fsm, data, forms, rows, left, failures>>

(***************************************************************************)
(* create.py                                                               *)
(***************************************************************************)
create_new_monitor(c) ==
  /\ Arrived(c)
  /\ forms' = Append(forms, [row |-> None, value |-> NewForm])
  /\ data' = [data EXCEPT ![NewKey] = Len(forms) + 1]
  /\ Runs(c, "", None, Tell(Creating))
  /\ UNCHANGED <<fsm, rows, left, failures>>

CreateAnswer(c, f) ==
  Answer(c, NewKey, Creating, f, Names, Unchanged, <<>>, TidyQuietly \o Tell(Creating))

create_start_set_address(c) == Ask(c, Creating, "target")
create_set_address(c)       == CreateAnswer(c, "target")
create_start_set_alias(c)   == Ask(c, Creating, "alias")
create_set_alias(c)         == CreateAnswer(c, "alias")

back_parent(c) ==
  /\ Arrived(c) /\ calls[c].seen = Creating
  /\ Runs(c, "", None, ShowMenu)
  /\ UNCHANGED <<fsm, data, forms, rows, left, failures>>

\* The state is set once the menu is read, before it is shown.
submit_monitor(c) ==
  /\ Arrived(c) /\ calls[c].seen = Creating
  /\ IF data[NewKey] = None \/ forms[data[NewKey]].value.target = None
     THEN Ends(c) /\ UNCHANGED <<forms, clash>>
     ELSE /\ forms' = Append(forms, forms[data[NewKey]])
          /\ Runs(c, "", Len(forms) + 1, Await("insert") \o Tell(Menu) \o Tell(None))
  /\ UNCHANGED <<fsm, data, rows, left, failures>>

(***************************************************************************)
(* edit.py                                                                 *)
(***************************************************************************)
handle_monitor_selection(c) ==
  /\ Arrived(c)
  /\ Runs(c, "form", None, Await("loadMonitor") \o Tell(Editing))
  /\ UNCHANGED <<fsm, data, forms, rows, left, failures>>

LoadMonitor(c) ==
  \E r \in DOMAIN rows : Load(c, r, "loadMonitor", Key, rows[r])

edit_start_set_alias(c) == Ask(c, Editing, "alias")

\* The alias is saved whether it is new or not.
edit_set_alias(c) ==
  Answer(c, Key, Editing, "alias", Names, Unchanged, <<>>,
         TidyQuietly \o Save \o Tell(Editing))

toggle_monitor(c) ==
  Press(c, Key, Editing, "active", Always, FlipActive, Save \o Tell(None))

delete_monitor(c) ==
  /\ Arrived(c) /\ calls[c].seen = Editing
  /\ Runs(c, "", None, Tell(None))
  /\ UNCHANGED <<fsm, data, forms, rows, left, failures>>

cancel_delete_monitor(c) == delete_monitor(c)

confirm_delete_monitor(c) ==
  Press(c, Key, Editing, "form", Always, Unchanged,
        Await("delete") \o Await("deletedMonitor"))

ForgetMonitor(c) == Forget(c, "deletedMonitor", Key)

back_to_monitor(c) ==
  /\ Arrived(c) /\ calls[c].seen = Editing
  /\ data' = [data EXCEPT ![Key] = None]
  /\ Runs(c, "", None, ShowMenu)
  /\ UNCHANGED <<fsm, forms, rows, left, failures>>

MonitorStep(c) ==
  \/ enter_monitor_menu(c) \/ stop_all_monitor(c)
  \/ create_new_monitor(c) \/ back_parent(c) \/ submit_monitor(c)
  \/ create_start_set_address(c) \/ create_set_address(c)
  \/ create_start_set_alias(c) \/ create_set_alias(c)
  \/ handle_monitor_selection(c) \/ LoadMonitor(c)
  \/ edit_start_set_alias(c) \/ edit_set_alias(c)
  \/ toggle_monitor(c) \/ back_to_monitor(c)
  \/ delete_monitor(c) \/ cancel_delete_monitor(c) \/ confirm_delete_monitor(c)
  \/ ForgetMonitor(c)
=============================================================================
