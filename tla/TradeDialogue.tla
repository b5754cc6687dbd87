----------------------------- MODULE TradeDialogue -----------------------------
(***************************************************************************)
(* The trading part of the bot: the settings menu, the swap menu with its  *)
(* orders, and the wallet menu (conversations/setting, swap, wallet).      *)
(*                                                                         *)
(* The settings of a wallet are one JSON value in Redis: rows[w] is that   *)
(* of wallet w, None when there is none.  A form is a Setting object; FSM  *)
(* data keeps the one shown last, and handlers change it in place.         *)
(***************************************************************************)
EXTENDS Chat

CONSTANT Wallet     \* bound: the wallets the user has keys of, 1 .. n

VARIABLES
  wallet,   \* the chat's default wallet in bot_users
  orders,   \* history: the swap events produced
  asked,    \* history: the token of the last amount prompt the user was shown
  \* history: a menu that was under way put a wallet back into the FSM data that
  \* had been replaced, or two prompts came in another order than their tokens
  astray

tradeVars == <<wallet, orders, asked, astray>>

Numbers == {1, 2}
Tokens  == {1, 2}

\* BotSetting; amounts stands for the custom buttons of one side.
DefaultSetting ==
  [auto |-> TRUE, quick |-> 1, sandwich |-> FALSE, sandwichBps |-> 1,
   buyFee |-> 1, sellFee |-> 1, autoBuy |-> FALSE, autoSell |-> FALSE,
   buyAmount |-> 1, sellAmount |-> 1]

BotSettings ==
  [auto : BOOLEAN, quick : Numbers, sandwich : BOOLEAN, sandwichBps : Numbers,
   buyFee : Numbers, sellFee : Numbers, autoBuy : BOOLEAN, autoSell : BOOLEAN,
   buyAmount : Numbers, sellAmount : Numbers]

\* What a user has made of it.
ChosenSetting == [DefaultSetting EXCEPT !.auto = FALSE]

Setting == "setting"
InState(f) == <<"setting", f>>
MenuOfWallet == <<"wallet", "menu">>

\* What handlers carry from await to await is kept in `write`, by name.
Carried(c, name) == CHOOSE w \in calls[c].write : w[1] = name
Carry(c, name, v) == {w \in calls[c].write : w[1] # name} \cup {<<name, v>>}
Kept(c, name) == {w[2] : w \in {v \in calls[c].write : v[1] = name}}

Quiet == UNCHANGED <<fsm, data, forms, rows, left, failures>>

(***************************************************************************)
(* What is read                                                            *)
(***************************************************************************)
\* get_pubkey
Owner(c) ==
  /\ At(c, "owner")
  /\ calls' = [calls EXCEPT ![c].todo = Tail(@),
                            ![c].write = Carry(c, "wallet", wallet) \cup {<<"was", wallet>>}]
  /\ UNCHANGED <<fsm, data, forms, rows, left, failures, clash, tradeVars>>

\* BotSettingService.get: a new object; the callers raise when there is none.
Fetch(c) ==
  /\ At(c, "fetch")
  /\ LET w == Carried(c, "wallet")[2]
     IN IF rows[w] = None
        THEN Ends(c) /\ UNCHANGED forms
        ELSE /\ forms' = Append(forms, [row |-> w, value |-> rows[w]])
             /\ calls' = [calls EXCEPT ![c].todo = Tail(@), ![c].form = Len(forms) + 1]
  /\ UNCHANGED <<fsm, data, rows, left, failures, clash, tradeVars>>

\* get_setting_from_db, then what the handler keeps of it in the FSM data.
get_setting_from_db == Await("owner") \o Await("fetch")

Keep(c) ==
  /\ At(c, "keep")
  /\ data' = [data EXCEPT ![Setting] = calls[c].form]
  /\ Goes(c)
  /\ UNCHANGED <<forms, rows, left, failures, clash, tradeVars>>

(***************************************************************************)
(* setting/menu.py                                                         *)
(***************************************************************************)
setting_menu(c) ==
  /\ Arrived(c) /\ calls[c].on = ""
  /\ Runs(c, Setting, None, get_setting_from_db \o Await("keep") \o Tell(None))
  /\ Quiet /\ UNCHANGED tradeVars

\* A handler that finds no setting in the data reads it first; which handler it is
\* shows only afterwards.
LoadFirst(c) ==
  /\ Arrived(c) /\ calls[c].on = "" /\ data[Setting] = None
  /\ calls' = [calls EXCEPT ![c].todo = get_setting_from_db \o Await("resume"),
                            ![c].on = Setting]
  /\ clash' = (clash \/ Meets(Setting))
  /\ Quiet /\ UNCHANGED tradeVars

Resume(c) ==
  /\ At(c, "resume")
  /\ data' = [data EXCEPT ![Setting] = calls[c].form]
  /\ calls' = [calls EXCEPT ![c] = [Idle EXCEPT !.seen = calls[c].seen, !.on = "loaded"]]
  /\ UNCHANGED <<fsm, forms, rows, left, failures, clash, tradeVars>>

WithSetting(c) ==
  /\ calls[c].seen # None /\ calls[c].todo = <<>> /\ data[Setting] # None

\* The object in the data is changed and all of it, as it is now, goes to Redis.
Change(c, change(_), after) ==
  /\ LET now == [forms[data[Setting]] EXCEPT !.value = change(@)]
     IN forms' = Append([forms EXCEPT ![data[Setting]] = now], now)
  /\ Runs(c, Setting, Len(forms) + 1, Await("set") \o after)
  /\ UNCHANGED <<fsm, data, rows, left, failures, tradeVars>>

Set(c) ==
  /\ At(c, "set")
  /\ rows' = [rows EXCEPT ![forms[calls[c].form].row] = forms[calls[c].form].value]
  /\ Goes(c)
  /\ UNCHANGED <<data, forms, left, failures, clash, tradeVars>>

FlipAuto(s) ==
  [s EXCEPT !.auto = ~@, !.sandwich = IF s.auto THEN @ ELSE FALSE]
FlipSandwich(s) ==
  [s EXCEPT !.sandwich = ~@, !.auto = IF s.sandwich THEN @ ELSE FALSE]
FlipBuy(s)  == [s EXCEPT !.autoBuy = ~@]
FlipSell(s) == [s EXCEPT !.autoSell = ~@]

toggle_auto_slippage(c) == WithSetting(c) /\ Change(c, FlipAuto, Tell(None))
toggle_auto_buy(c)      == WithSetting(c) /\ Change(c, FlipBuy, Tell(None))
toggle_auto_sell(c)     == WithSetting(c) /\ Change(c, FlipSell, Tell(None))

\* The prompt for a value, with the message it will update afterwards.
Prompt(c, f) ==
  /\ data' = [data EXCEPT !["card"] = TRUE]
  /\ Runs(c, "", None, Tell(InState(f)))
  /\ UNCHANGED <<fsm, forms, rows, left, failures, tradeVars>>

edit_quick_slippage(c)    == Arrived(c) /\ calls[c].on = "" /\ Prompt(c, "quick")
edit_sandwich_slippage(c) == Arrived(c) /\ calls[c].on = "" /\ Prompt(c, "sandwichBps")
edit_buy_priority_fee(c)  == WithSetting(c) /\ Prompt(c, "buyFee")
edit_sell_priority_fee(c) == WithSetting(c) /\ Prompt(c, "sellFee")
set_buy_amount(c)         == WithSetting(c) /\ Prompt(c, "buyAmount")
set_sell_amount(c)        == WithSetting(c) /\ Prompt(c, "sellAmount")

\* The answer: a value the setting has already only tidies up.
Entered(c, f, after) ==
  /\ WithSetting(c) /\ calls[c].seen = InState(f)
  /\ \E v \in Numbers :
       LET Put(s) == [s EXCEPT ![f] = v]
       IN IF forms[data[Setting]].value[f] = v
          THEN Runs(c, "", None, Tidy) /\ Quiet /\ UNCHANGED tradeVars
          ELSE Change(c, Put, Tidy \o after)

\* What cannot be read is asked for again.
Reinput(c) ==
  /\ Arrived(c) /\ calls[c].on = "" /\ calls[c].seen # <<>>
  /\ Runs(c, "", None, Tell(None))
  /\ Quiet /\ UNCHANGED tradeVars

\* The slippages leave the chat waiting for another one.
handle_quick_slippage(c)    == Entered(c, "quick", Tell(None))
handle_sandwich_slippage(c) == Entered(c, "sandwichBps", Tell(None))
handle_buy_priority_fee(c)  == Entered(c, "buyFee", Tell(<<>>))
handle_sell_priority_fee(c) == Entered(c, "sellFee", Tell(<<>>))
handle_custom_buy_amount(c)  == Entered(c, "buyAmount", Tell(<<>>))
handle_custom_sell_amount(c) == Entered(c, "sellAmount", Tell(<<>>))

(***************************************************************************)
(* swap/swap.py                                                            *)
(***************************************************************************)
start_swap(c) ==
  /\ Arrived(c) /\ calls[c].on = ""
  /\ Runs(c, "", None, Tell(<<"swap", "token">>))
  /\ Quiet /\ UNCHANGED tradeVars

\* The menu of a token: the setting and the wallet become those of the chat.
ShowToken(c) ==
  /\ Runs(c, Setting, None, get_setting_from_db \o Await("token") \o Await("keepBoth") \o Tell(None))
  /\ Quiet /\ UNCHANGED tradeVars

show_token_menu(c)    == Arrived(c) /\ calls[c].on = "" /\ calls[c].seen = <<"swap", "token">> /\ ShowToken(c)
refresh_token_menu(c) == Arrived(c) /\ calls[c].on = "" /\ ShowToken(c)

\* The same menu for a token sent at any time, of which the data keeps nothing.
info_command(c) ==
  /\ Arrived(c) /\ calls[c].on = "" /\ calls[c].seen # <<"wallet", "key">>
  /\ Runs(c, "", None, Await("token") \o get_setting_from_db \o Tell(None))
  /\ Quiet /\ UNCHANGED tradeVars

\* token_info_cache.get: an unknown token ends the handler with a message.
Token(c) ==
  /\ At(c, "token")
  /\ \/ Goes(c)
     \/ Ends(c) /\ UNCHANGED fsm
  /\ UNCHANGED <<data, forms, rows, left, failures, clash, tradeVars>>

KeepBoth(c) ==
  /\ At(c, "keepBoth")
  /\ data' = [data EXCEPT ![Setting] = calls[c].form, !["wallet"] = Carried(c, "wallet")[2]]
  /\ astray' = (astray \/ Carried(c, "wallet")[2] # wallet)
  /\ Goes(c)
  /\ UNCHANGED <<forms, rows, left, failures, clash, wallet, orders, asked>>

\* The quick modes of the swap menu change an object of their own.
Toggle(c, what) ==
  /\ Arrived(c) /\ calls[c].on = ""
  /\ Runs(c, Setting, None, get_setting_from_db \o Await("token") \o Await(what) \o Await("keep") \o Tell(None))
  /\ Quiet /\ UNCHANGED tradeVars

toggle_quick_mode(c)    == Toggle(c, "setAuto")
toggle_sandwich_mode(c) == Toggle(c, "setSandwich")

SetOwn(c, what, change(_)) ==
  /\ At(c, what)
  /\ LET now == [forms[calls[c].form] EXCEPT !.value = change(@)]
     IN /\ forms' = [forms EXCEPT ![calls[c].form] = now]
        /\ rows' = [rows EXCEPT ![now.row] = now.value]
  /\ Goes(c)
  /\ UNCHANGED <<data, left, failures, clash, tradeVars>>

(***************************************************************************)
(* Orders.  The data is read before the token: what it had then is used.   *)
(* What the chat's wallet was when the handler began, or when it asked for *)
(* it, and the token the user was asked about, are kept for the            *)
(* properties: "was" and "prompt".  Until an import has cleared the data,  *)
(* the wallet it replaced counts, and until a prompt is shown its token.   *)
(***************************************************************************)
Replaced  == UNION {Kept(d, "replaced") : d \in Slot}
Prompting == UNION {Kept(d, "prompting") : d \in Slot}

Mode(s) == IF s.sandwich THEN "sandwich" ELSE IF s.auto THEN "auto" ELSE "quick"

\* What is missing in the data is read, without keeping it.
Missing ==
  (IF data[Setting] = None THEN get_setting_from_db ELSE <<>>)
  \o (IF data["wallet"] = None THEN Await("owner") ELSE <<>>)

Known == (IF data["wallet"] = None THEN {} ELSE {<<"wallet", data["wallet"]>>})
         \cup {<<"was", w>> : w \in {wallet} \cup Replaced}

Trade(c, steps, carried) ==
  /\ calls' = [calls EXCEPT ![c] = [Idle EXCEPT !.todo = steps, !.on = Setting,
                                       !.form = data[Setting], !.write = Known \cup carried]]
  /\ clash' = (clash \/ Meets(Setting))
  /\ Quiet /\ UNCHANGED tradeVars

\* The mode, then the event, which is produced with what the handler has by then.
Produce(order) == Await("decide") \o Await(order)

\* A button with its amount: a buy, a sale, or the commands /buy and /sell, which
\* always read the setting and the wallet.
buy(c) ==
  /\ Arrived(c) /\ calls[c].on = ""
  /\ \E t \in Tokens :
       Trade(c, Await("token") \o Missing \o Produce("order") \o Tell(None), {<<"token", t>>})

\* The balance may be unknown or too small.
sell(c) ==
  /\ Arrived(c) /\ calls[c].on = ""
  /\ \E t \in Tokens :
       Trade(c, Await("token") \o Missing \o Await("token") \o Produce("order") \o Tell(None),
             {<<"token", t>>})

swap_command(c) ==
  /\ Arrived(c) /\ calls[c].on = ""
  /\ \E t \in Tokens :
       Trade(c, get_setting_from_db \o Await("token") \o Produce("order") \o Tell(None), {<<"token", t>>})

\* Buttons that ask for the amount; the token is remembered before the prompt.
Start(c, ask) ==
  /\ Arrived(c) /\ calls[c].on = ""
  /\ \E t \in Tokens :
       Trade(c, Await("token") \o Missing \o Await("remember") \o Await(ask), {<<"token", t>>})

start_buyx(c)  == Start(c, "askBuy")
start_sellx(c) == Start(c, "askSell")

Remember(c) ==
  /\ At(c, "remember")
  /\ calls' = [calls EXCEPT ![c].todo = Tail(@),
                            ![c].write = @ \cup {<<"prompting", Carried(c, "token")[2]>>}]
  /\ data' = [data EXCEPT ![Setting] = calls[c].form, !["card"] = TRUE,
                          !["wallet"] = Carried(c, "wallet")[2],
                          !["token"] = Carried(c, "token")[2]]
  /\ astray' = (astray \/ Carried(c, "wallet")[2] # wallet)
  /\ UNCHANGED <<fsm, forms, rows, left, failures, clash, wallet, orders, asked>>

Shown(c) ==
  /\ At(c, "askBuy") \/ At(c, "askSell")
  /\ asked' = Carried(c, "token")[2]
  /\ astray' = (astray \/ data["token"] \notin {None, Carried(c, "token")[2]})
  /\ fsm' = IF At(c, "askBuy") THEN <<"swap", "buyAmount">> ELSE <<"swap", "sellPct">>
  /\ Ends(c)
  /\ UNCHANGED <<data, forms, rows, left, failures, clash, wallet, orders>>

\* The amount.  handle_buyx goes on after asking again for a positive one and
\* forgets the state when the order is out; handle_sellx keeps waiting.
Answering ==
  {<<"token", data["token"]>>} \cup {<<"prompt", t>> : t \in {asked} \cup Prompting}

handle_buyx(c) ==
  /\ Arrived(c) /\ calls[c].on = "" /\ calls[c].seen = <<"swap", "buyAmount">> /\ data["token"] # None
  /\ Trade(c, Await("token") \o Missing \o Produce("orderAsked") \o Tell(<<>>), Answering)

handle_sellx(c) ==
  /\ Arrived(c) /\ calls[c].on = "" /\ calls[c].seen = <<"swap", "sellPct">> /\ data["token"] # None
  /\ Trade(c, Await("token") \o Missing \o Await("token") \o Produce("orderAsked") \o Tell(None), Answering)

\* The mode is that of the setting object when the await before has returned; the
\* automatic slippage is calculated in an await of its own.
Decide(c) ==
  /\ At(c, "decide")
  /\ LET mode == Mode(forms[calls[c].form].value)
     IN calls' = [calls EXCEPT
          ![c].todo = (IF mode = "auto" THEN Tell(None) ELSE <<>>) \o Tail(@),
          ![c].write = Carry(c, "mode", mode)]
  /\ UNCHANGED <<fsm, data, forms, rows, left, failures, clash, tradeVars>>

\* SwapEventProducer.produce
Order(c) ==
  /\ At(c, "order") \/ At(c, "orderAsked")
  /\ orders' = Append(orders, [wallet |-> Carried(c, "wallet")[2], were |-> Kept(c, "was"),
                               token |-> Carried(c, "token")[2], prompts |-> Kept(c, "prompt"),
                               mode |-> Carried(c, "mode")[2],
                               answer |-> At(c, "orderAsked")])
  /\ Goes(c)
  /\ UNCHANGED <<data, forms, rows, left, failures, clash, wallet, asked, astray>>

(***************************************************************************)
(* wallet/menu.py                                                          *)
(***************************************************************************)
refresh(c) ==
  /\ Arrived(c) /\ calls[c].on = ""
  /\ Runs(c, "", None, Tell(MenuOfWallet))
  /\ Quiet /\ UNCHANGED tradeVars

\* new_wallet shows the key and its message is deleted later; so does export.
new_wallet(c) ==
  /\ Arrived(c) /\ calls[c].on = ""
  /\ data' = [data EXCEPT !["card"] = TRUE]
  /\ Runs(c, "", None, Tell(None))
  /\ UNCHANGED <<fsm, forms, rows, left, failures, tradeVars>>

export(c) ==
  /\ Arrived(c) /\ calls[c].on = ""
  /\ Runs(c, "", None, Tell(None))
  /\ Quiet /\ UNCHANGED tradeVars

\* The message of the wallet is deleted before the state is set: without one the
\* handler fails, with the prompt already shown.
import_wallet(c) ==
  /\ Arrived(c) /\ calls[c].on = ""
  /\ Runs(c, "", None, Tell(None) \o (IF data["card"] = None THEN <<>> ELSE Tell(<<"wallet", "key">>)))
  /\ Quiet /\ UNCHANGED tradeVars

\* A key: that of the default wallet is asked for again (a message and no more).
handle_new_private_key(c) ==
  /\ Arrived(c) /\ calls[c].on = "" /\ calls[c].seen = <<"wallet", "key">>
  /\ \E w \in Wallet :
       /\ calls' = [calls EXCEPT ![c] =
            [Idle EXCEPT !.todo = Await("owner") \o Await("newDefault") \o Await("register") \o Tell(None) \o Await("clear"),
                         !.on = Setting, !.write = {<<"key", w>>}]]
       /\ clash' = (clash \/ Meets(Setting))
  /\ Quiet /\ UNCHANGED tradeVars

\* create_default writes Redis before the session is committed.
NewDefault(c) ==
  /\ At(c, "newDefault")
  /\ LET w == Carried(c, "key")[2]
     IN IF w = Carried(c, "wallet")[2]
        THEN Ends(c) /\ UNCHANGED <<rows, fsm>>
        ELSE rows' = [rows EXCEPT ![w] = DefaultSetting] /\ Goes(c)
  /\ UNCHANGED <<data, forms, left, failures, clash, tradeVars>>

\* The commit: a chat has one default wallet, so the insertion fails unless the
\* wallet read before is still the one that is deleted.
Register(c) ==
  /\ At(c, "register")
  /\ IF wallet = Carried(c, "wallet")[2]
     THEN /\ wallet' = Carried(c, "key")[2]
          /\ calls' = [calls EXCEPT ![c].todo = Tail(@),
                                    ![c].write = @ \cup {<<"replaced", wallet>>}]
     ELSE Ends(c) /\ UNCHANGED wallet
  /\ UNCHANGED <<fsm, data, forms, rows, left, failures, clash, orders, asked, astray>>

ForgetWalletOnly(c) ==      \* mutant: the setting stays
  /\ At(c, "clear")
  /\ data' = [data EXCEPT !["wallet"] = None]
  /\ fsm' = <<>> /\ Ends(c)
  /\ UNCHANGED <<forms, rows, left, failures, clash, tradeVars>>

ForgetStateOnly(c) ==       \* mutant: set_state() for clear()
  /\ At(c, "clear")
  /\ fsm' = <<>> /\ Ends(c)
  /\ UNCHANGED <<data, forms, rows, left, failures, clash, tradeVars>>

\* state.clear(), then the home menu.
Clear(c) ==
  /\ At(c, "clear")
  /\ data' = [k \in DOMAIN data |-> None]
  /\ fsm' = <<>> /\ Ends(c)
  /\ UNCHANGED <<forms, rows, left, failures, clash, tradeVars>>

(***************************************************************************)
(* Next-state relation                                                     *)
(***************************************************************************)
SettingHandlers(c) ==
  \/ setting_menu(c) \/ LoadFirst(c) \/ Reinput(c)
  \/ toggle_auto_slippage(c) \/ toggle_auto_buy(c) \/ toggle_auto_sell(c)
  \/ edit_quick_slippage(c) \/ handle_quick_slippage(c)
  \/ edit_sandwich_slippage(c) \/ handle_sandwich_slippage(c)
  \/ edit_buy_priority_fee(c) \/ handle_buy_priority_fee(c)
  \/ edit_sell_priority_fee(c) \/ handle_sell_priority_fee(c)
  \/ set_buy_amount(c) \/ handle_custom_buy_amount(c)
  \/ set_sell_amount(c) \/ handle_custom_sell_amount(c)

SwapHandlers(c) ==
  \/ start_swap(c) \/ info_command(c) \/ show_token_menu(c) \/ refresh_token_menu(c)
  \/ toggle_quick_mode(c) \/ toggle_sandwich_mode(c)
  \/ buy(c) \/ sell(c) \/ swap_command(c)
  \/ start_buyx(c) \/ handle_buyx(c) \/ start_sellx(c) \/ handle_sellx(c)

WalletHandlers(c) ==
  \/ refresh(c) \/ new_wallet(c) \/ export(c)
  \/ import_wallet(c) \/ handle_new_private_key(c)

\* Updates of the FSM data, and the choice of a mode, follow at once on the await
\* before them.
Due(c) == \E what \in {"keep", "resume", "keepBoth", "remember", "decide", "clear"} : At(c, what)
DataStep(c) ==
  Keep(c) \/ Resume(c) \/ KeepBoth(c) \/ Remember(c) \/ Decide(c) \/ Clear(c)

TradeStep(c) ==
  \/ SettingHandlers(c) \/ SwapHandlers(c) \/ WalletHandlers(c)
  \/ Owner(c) \/ Fetch(c) \/ Set(c) \/ Token(c) \/ Shown(c) \/ Order(c)
  \/ SetOwn(c, "setAuto", FlipAuto) \/ SetOwn(c, "setSandwich", FlipSandwich)
  \/ NewDefault(c) \/ Register(c)
=============================================================================
