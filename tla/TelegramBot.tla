------------------------------ MODULE TelegramBot ------------------------------
(***************************************************************************)
(* The Telegram bot as one chat uses it: the dialogues of its parts over   *)
(* the chat's FSM state and data (main.py, conversations/router.py).       *)
(***************************************************************************)
EXTENDS Chat

CONSTANTS
  Wallet,
  User, Manager, Code, Valid, Private, MaxTime,
  Reader, MaxRetries,
  Parts,      \* bound: the parts of the bot that are used
  Updates     \* bound: updates of the user, by part and menu shown before

VARIABLES
  part,             \* bound: the part of the bot the user is in
  wallet, orders, asked, astray,
  registered, configured, licence, codes, waiting, requests, now,
  news, unsent, told, tries

CopyTrade == INSTANCE CopyTradeDialogue
Monitor   == INSTANCE MonitorDialogue
Trade     == INSTANCE TradeDialogue
Door      == INSTANCE Access
News      == INSTANCE Notify

\* The user's wallets are numbered, and None is nothing else.
ASSUME BotAssumption ==
  /\ Parts \subseteq {"copytrade", "monitor", "trade", "access", "notify"}
  /\ 1 \in Wallet /\ IsFiniteSet(Wallet) /\ Wallet = 1..Cardinality(Wallet)
  /\ None \notin Nat \cup User \cup {"unused"} /\ "unused" \notin User
  /\ None \notin {<<>>, CopyTrade!Menu, CopyTrade!Creating, CopyTrade!Editing,
                 Monitor!Menu, Monitor!Creating, Monitor!Editing}
  /\ None \notin CopyTrade!Settings /\ None \notin Monitor!Settings
  /\ None \notin Trade!BotSettings
  /\ IsFiniteSet(Code) /\ None \notin Code
  /\ Short \subseteq {v \in Nat : v % 10 = 0 /\ v > 0}
  /\ Valid \in Nat /\ MaxTime \in Nat /\ MaxRetries \in Nat /\ MaxFailures \in Nat

tradeVars  == <<wallet, orders, asked, astray>>
doorVars   == <<registered, configured, licence, codes, waiting, requests, now>>
notifyVars == <<news, unsent, told, tries>>

vars == <<chatVars, part, tradeVars, doorVars, notifyVars>>

Keys == {"copytrade_settings", "monitor_settings", "monitor",
         "setting", "wallet", "token", "card"}

FirstRows(p) ==
  CASE p = "copytrade" -> <<CopyTrade!StoredRow>>
    [] p = "monitor"   -> <<Monitor!StoredRow>>
    [] p = "trade"     -> [w \in Wallet |-> IF w = 1 THEN Trade!ChosenSetting ELSE None]
    [] OTHER           -> <<>>

Fresh == [k \in Keys |-> None]

\* A registered user, before the first update after the bot's start or, in the
\* trading part, when the menus of a token and of the wallet have been shown.
Init ==
  /\ part \in Parts
  /\ fsm = <<>>
  /\ rows = FirstRows(part)
  /\ \/ /\ data = Fresh /\ forms = <<>>
        /\ left = Updates[<<part, FALSE>>]
     \/ /\ part = "trade"
        /\ data = [Fresh EXCEPT !["setting"] = 1, !["wallet"] = 1, !["card"] = TRUE]
        /\ forms = <<[row |-> 1, value |-> Trade!ChosenSetting]>>
        /\ left = Updates[<<part, TRUE>>]
  /\ calls = [c \in Slot |-> Idle]
  /\ failures = 0 /\ clash = FALSE
  /\ wallet = 1 /\ orders = <<>> /\ asked = None /\ astray = FALSE
  /\ IF part = "access" THEN Door!AccessInit
     ELSE /\ registered = {} /\ configured = {} /\ licence = <<>> /\ codes = <<>>
          /\ waiting = {} /\ requests = <<>> /\ now = 0
  /\ IF part = "notify" THEN News!NotifyInit
     ELSE news = <<>> /\ unsent = <<>> /\ told = <<>> /\ tries = <<>>

Due == part = "trade" /\ \E c \in Slot : Trade!Due(c)

Anywhere(c) ==
  /\ part \in {"copytrade", "monitor", "trade"} /\ ~Due
  /\ Receive(c) \/ Message(c) \/ Fail(c)
  /\ UNCHANGED <<part, tradeVars, doorVars, notifyVars>>

OnTable(c) ==
  /\ ~Due
  /\ TableStep(c)
  /\ UNCHANGED <<part, tradeVars, doorVars, notifyVars>>

InCopyTrade(c) ==
  /\ part = "copytrade"
  /\ CopyTrade!CopyTradeStep(c)
  /\ UNCHANGED <<part, tradeVars, doorVars, notifyVars>>

InMonitor(c) ==
  /\ part = "monitor"
  /\ Monitor!MonitorStep(c)
  /\ UNCHANGED <<part, tradeVars, doorVars, notifyVars>>

InTrade(c) ==
  /\ part = "trade" /\ ~Due
  /\ Trade!TradeStep(c)
  /\ UNCHANGED <<part, doorVars, notifyVars>>

OnData(c) ==
  /\ part = "trade"
  /\ Trade!DataStep(c)
  /\ UNCHANGED <<part, doorVars, notifyVars>>

AtTheDoor ==
  /\ part = "access"
  /\ (\E s \in Slot : Door!AccessStep(s)) \/ Door!Tick
  /\ UNCHANGED <<part, tradeVars, notifyVars>>

Notifying ==
  /\ part = "notify"
  /\ News!NotifyStep
  /\ UNCHANGED <<part, tradeVars, doorVars>>

Next ==
  \E c \in Slot :
    \/ Anywhere(c) \/ OnTable(c)
    \/ InCopyTrade(c) \/ InMonitor(c)
    \/ InTrade(c) \/ OnData(c)
    \/ AtTheDoor \/ Notifying

Spec == Init /\ [][Next]_vars

(***************************************************************************)
(* Properties                                                              *)
(***************************************************************************)
Values == {forms[i].value : i \in DOMAIN forms} \cup {rows[r] : r \in {q \in DOMAIN rows : rows[q] # None}}

\* No copy trade both follows sales and holds, and no setting is in both of the
\* modes that exclude one another, whatever handlers overlap.
ModesExclude ==
  /\ part = "copytrade" => \A v \in Values : ~(v.follow /\ v.noSell)
  /\ part = "trade" => \A v \in Values : ~(v.auto /\ v.sandwich)

TypeOK ==
  /\ part \in Parts
  /\ \A k \in {"copytrade_settings", "monitor_settings", "monitor", "setting"} :
       data[k] \in DOMAIN forms \cup {None}
  /\ \A c \in Slot : calls[c].form \in DOMAIN forms \cup {None}
  /\ wallet \in Wallet

\* The object that the buttons and prompts of a card work on.
Within(state) == Len(fsm) > 1 /\ SubSeq(fsm, 1, 2) = state

Edited ==
  CASE part = "copytrade" /\ Within(CopyTrade!Editing) -> data[CopyTrade!Key]
    [] part = "monitor" /\ Within(Monitor!Editing)     -> data[Monitor!Key]
    [] part = "trade"                                  -> data[Trade!Setting]
    [] OTHER                                           -> None

\* When no handler is at work, every field that the card of a copy trade, a monitor
\* or a setting shows is what the database holds, as it is written or as it is read -
\* unless two handlers set the same field.
FormSaved ==
  LET k == Edited
  IN k # None /\ forms[k].row # None /\ ~clash /\ (\A c \in Slot : ~Running(c)) =>
     /\ Exists(forms[k].row)
     /\ \A f \in DOMAIN forms[k].value :
          LET shown == forms[k].value[f]
              held  == rows[forms[k].row][f]
          IN held = Column(f, shown) \/ shown = Field(f, held)

\* A copy trade or monitor that was deleted stays deleted: no prompt, button or save
\* still at work brings its row back.
DeletedStaysDeleted ==
  [][part # "trade" =>
       \A r \in DOMAIN rows : rows[r] = None => rows'[r] = None]_vars

\* However orders, menus and imports of a wallet overlap, an order goes out from a
\* wallet that was the chat's when its handler began or asked for it, and an answer
\* buys the token of a prompt that stood then - but for a failed call, a menu that
\* put a replaced wallet back into the data, and prompts that crossed.  Where no two
\* handlers met it is the wallet and the mode of the moment, and the token asked for.
OrderAsAsked ==
  [][orders' # orders =>
       LET o == orders'[Len(orders')]
       IN /\ failures = 0 /\ ~astray =>
               o.wallet \in o.were /\ (o.answer => o.token \in o.prompts)
          /\ ~clash => /\ o.wallet = wallet
                       /\ o.mode = Trade!Mode(rows[wallet])
                       /\ o.answer => o.token = asked]_vars

\* In every part of the bot: the modes of a card exclude one another, licences agree
\* with the codes used, nobody without one is served, and every reader hears of a copy
\* trade before its event is acknowledged.
Inv ==
  /\ TypeOK /\ ModesExclude
  /\ part = "access" => Door!AccessInv /\ Door!ServedInvited
  /\ part = "notify" => News!NotifyInv

-----------------------------------------------------------------------------
(***************************************************************************)
(* What one would expect of the code and it does not do                    *)
(***************************************************************************)
\* The card of a copy trade shows what reading its row again would: 2.3 percent is
\* saved as 2.29 and read as 2, 0.00001 SOL is read as nothing
\* (services/copytrade.py:30, 33, 61 and 99).
CardIsRead ==
  LET k == Edited
  IN k # None /\ forms[k].row # None /\ ~clash /\ (\A c \in Slot : ~Running(c)) =>
     Exists(forms[k].row) /\ forms[k].value = AsForm(rows[forms[k].row])

\* An order goes out from the chat's wallet: buy() reads it (swap.py:249), awaits,
\* and produces the event (line 322) after an import has replaced it (menu.py:147).
OrderFromWallet ==
  [][orders' # orders => orders'[Len(orders')].wallet = wallet]_vars

\* An answer buys the token of the prompt shown last: the token is put into the data
\* before its prompt is sent (swap.py:373), and another one's may come after it.
AnswerBuysPrompted ==
  [][orders' # orders /\ orders'[Len(orders')].answer =>
       orders'[Len(orders')].token = asked]_vars
=============================================================================
