----------------------------- MODULE MonitorControl -----------------------------
(***************************************************************************)
(* Which wallets are watched: the rows of bot_monitor and bot_copytrade,   *)
(* the services of the bot that change them and announce the change on the *)
(* Redis channel "monitor_events", and TxMonitor, which subscribes to the  *)
(* channel, then to the wallets of the active rows, then follows events.   *)
(*                                                                         *)
(* A call of a service is a task of the bot: it reads its rows, publishes, *)
(* and commits, and other calls run at each of these awaits.  Its writes   *)
(* reach the database with the commit.  Publishing finds its listener or   *)
(* is lost: pub/sub keeps nothing.                                         *)
(*                                                                         *)
(* The subscriber is the set of wallets its subscribe and unsubscribe      *)
(* calls add and remove (GeyserSubscriber and AccountLogMonitor model      *)
(* what becomes of them).  wallet_alias and the trading settings of a copy *)
(* trade are left out: no event depends on them.                           *)
(***************************************************************************)
EXTENDS Integers, Sequences, FiniteSets

CONSTANTS
  Row,          \* the rows that may ever exist
  Old,          \* bound: the rows that may exist, and be active, at first
  Monitors,     \* the rows of bot_monitor; the others are copy trades
  Chat, Wallet,
  ChatOf, WalletOf,   \* chat_id and target_wallet of each row
  MaxInFlight,  \* bound: calls in flight together
  MaxCalls,     \* bound: calls of the services
  MaxFaults,    \* bound: failing commands, commits and lost connections
  MaxBoots      \* bound: starts of the wallet tracker

ASSUME ConstantsAssumption ==
  /\ Old \subseteq Row /\ Monitors \subseteq Row
  /\ ChatOf \in [Row -> Chat] /\ WalletOf \in [Row -> Wallet]
  /\ MaxInFlight \in Nat /\ MaxCalls \in Nat
  /\ MaxFaults \in Nat /\ MaxBoots \in Nat

Call == 1..MaxInFlight

VARIABLES
  rows,         \* the committed state of each row
  op,           \* the calls in flight
  channel,      \* messages TxMonitor has not taken yet
  listening,    \* is its pub/sub connection subscribed
  phase,        \* the await of TxMonitor.start
  todo,         \* wallets read from the database and not yet subscribed
  watched,      \* the subscriber's wallets
  \* history, never read by the code
  disturbed,    \* wallets for which one of the causes below has happened
  calls, boots, faults

database == <<rows, op>>
tracker  == <<phase, todo, watched>>
vars == <<database, channel, listening, tracker, disturbed, calls, boots, faults>>

Status == {"new", "on", "off", "gone"}
Idle == [stage |-> "idle", to |-> "new", left |-> {}, said |-> {}, unheard |-> {},
         dirty |-> {}, undoes |-> FALSE]

\* left: rows still to be announced; said: rows whose announcement stands;
\* unheard: those this life of the tracker has not heard; dirty: rows the commit changes;
\* undoes: does a failure resume the monitors paused so far.
OpType ==
  [stage : {"idle", "publish", "undo", "commit"}, to : Status, left : SUBSET Row,
   said : SUBSET Row, unheard : SUBSET Row, dirty : SUBSET Row, undoes : BOOLEAN]

Wallets(S) == {WalletOf[r] : r \in S}
Existing == {r \in Row : rows[r] \in {"on", "off"}}
ActiveWallets(S) == Wallets({r \in S : rows[r] = "on"})
Touched(o) == o.left \cup o.said \cup o.dirty
InFlight == {t \in Call : op[t].stage # "idle"}
Started == phase \notin {"down", "boot"}

Replies == {"ok", "refused", "lost"}
Reply(r) ==
  /\ r = "ok" \/ faults < MaxFaults
  /\ faults' = IF r = "ok" THEN faults ELSE faults + 1

\* Calls in flight stay within their rows, the connection exists only while
\* the tracker runs, and wallets wait for subscription only while it fills.
TypeOK ==
  /\ rows \in [Row -> Status]
  /\ op \in [Call -> OpType]
  /\ \A t \in Call : op[t].stage = "idle" => op[t] = Idle
  /\ channel \in Seq([event : {"pause", "resume"}, wallet : Wallet])
  /\ listening \in BOOLEAN /\ (listening => Started)
  /\ phase \in {"down", "boot", "monitors", "copytrades", "fill", "loop"}
  /\ todo \subseteq Wallet /\ (phase \in {"down", "boot", "loop"} => todo = {})
  /\ watched \subseteq Wallet
  /\ disturbed \subseteq Wallet
  /\ calls \in 0..MaxCalls /\ boots \in 0..MaxBoots /\ faults \in 0..MaxFaults

\* The database outlives both processes: active rows may be there.
Init ==
  /\ rows \in {[r \in Row |-> IF r \in S THEN "on" ELSE "new"] : S \in SUBSET Old}
  /\ op = [t \in Call |-> Idle]
  /\ channel = <<>> /\ listening = FALSE
  /\ phase = "down" /\ todo = {} /\ watched = {} /\ disturbed = {}
  /\ calls = 0 /\ boots = 0 /\ faults = 0

-----------------------------------------------------------------------------
(***************************************************************************)
(* The services: add, update, delete and inactive_all, up to the first     *)
(* publication.                                                            *)
(***************************************************************************)
Begin(t, o) ==
  /\ t \notin InFlight /\ 1..(t - 1) \subseteq InFlight /\ calls < MaxCalls
  /\ op' = [op EXCEPT ![t] = o]
  /\ calls' = calls + 1
  \* cause: two calls for the same wallet overlap
  /\ disturbed' = disturbed \cup
       (Wallets(Touched(o)) \cap UNION {Wallets(Touched(op[u])) : u \in InFlight})
  /\ UNCHANGED <<rows, channel, listening, tracker, boots, faults>>

\* The row that is flushed is nobody else's before the commit.
Add(t, r) ==
  /\ rows[r] = "new" /\ \A u \in Call : r \notin Touched(op[u])
  /\ Begin(t, [Idle EXCEPT !.stage = "publish", !.to = "on", !.left = {r}, !.dirty = {r}])

AddMonitor(t) == \E r \in Monitors : Add(t, r)
AddCopyTrade(t) == \E r \in Row \ Monitors : Add(t, r)

\* SQLAlchemy writes the attributes that differ from what was read.
Changed(S, s) == {r \in S : rows[r] # s}

Update(t, r, s, announced) ==
  /\ r \in Existing
  /\ Begin(t, [Idle EXCEPT !.stage = IF announced = {} THEN "commit" ELSE "publish",
                           !.to = s, !.left = announced, !.dirty = Changed({r}, s)])

UpdateResumes(t) ==     \* mutant: the elif of update is missing
  \E r \in Monitors, s \in {"on", "off"} :
    Update(t, r, s, IF s = "on" THEN Changed({r}, s) ELSE {})

\* A monitor announces a change of its activity, a copy trade every update.
UpdateMonitor(t) ==
  \E r \in Monitors, s \in {"on", "off"} : Update(t, r, s, Changed({r}, s))

UpdateCopyTrade(t) ==
  \E r \in Row \ Monitors, s \in {"on", "off"} : Update(t, r, s, {r})

Delete(t, r) ==
  /\ r \in Existing
  /\ Begin(t, [Idle EXCEPT !.stage = "publish", !.to = "gone", !.left = {r}, !.dirty = {r}])

DeleteMonitor(t) == \E r \in Monitors : Delete(t, r)
DeleteCopyTrade(t) == \E r \in Row \ Monitors : Delete(t, r)

\* Every row of the chat is announced, the inactive ones too; only
\* MonitorService takes back what it announced when it fails.
InactiveAll(t, mine, undoes) ==
  /\ mine # {}
  /\ Begin(t, [Idle EXCEPT !.stage = "publish", !.to = "off", !.left = mine,
                           !.dirty = Changed(mine, "off"), !.undoes = undoes])

InactiveAllMonitors(t) ==
  \E c \in Chat : InactiveAll(t, {r \in Existing \cap Monitors : ChatOf[r] = c}, TRUE)
InactiveAllCopyTrades(t) ==
  \E c \in Chat : InactiveAll(t, {r \in Existing \ Monitors : ChatOf[r] = c}, FALSE)

-----------------------------------------------------------------------------
(***************************************************************************)
(* MonitorEventProducer                                                    *)
(***************************************************************************)
Publish(r, event, reply) ==
  channel' = IF listening /\ reply # "refused"
             THEN Append(channel, [event |-> event, wallet |-> WalletOf[r]])
             ELSE channel

\* cause: the event finds nobody although the database has been read, or it
\* pauses a wallet that another active row follows
Disturbs(r, event) ==
  \/ ~listening /\ Started
  \/ event = "pause" /\ \E q \in Row \ {r} : WalletOf[q] = WalletOf[r] /\ rows[q] = "on"

EventOf(o) == IF o.to = "on" THEN "resume" ELSE "pause"

AnnounceCommits(t, r) ==    \* mutant: each row is committed when it is announced
  LET o == op[t]
      done == [o EXCEPT !.stage = IF o.left = {r} THEN "commit" ELSE "publish",
                        !.left = @ \ {r}, !.said = @ \cup {r}]
  IN /\ o.stage = "publish" /\ r \in o.left
     /\ Reply("ok") /\ Publish(r, EventOf(o), "ok")
     /\ op' = [op EXCEPT ![t] = done]
     /\ rows' = [rows EXCEPT ![r] = IF r \in o.dirty THEN o.to ELSE @]
     /\ UNCHANGED <<listening, tracker, disturbed, calls, boots>>

\* cause: what was announced is not committed, unless it is taken back
Announce(t, r) ==
  LET o == op[t]
      done == [o EXCEPT !.stage = IF o.left = {r} THEN "commit" ELSE "publish",
                        !.left = @ \ {r}, !.said = @ \cup {r}]
      failed == IF o.undoes /\ o.said # {}
                THEN [o EXCEPT !.stage = "undo", !.left = {}] ELSE Idle
      broken(reply) == (IF failed = Idle THEN o.said ELSE {})
                       \cup (IF reply = "lost" THEN {r} ELSE {})
  IN /\ o.stage = "publish" /\ r \in o.left
     /\ \E reply \in Replies :
          /\ Reply(reply) /\ Publish(r, EventOf(o), reply)
          /\ op' = [op EXCEPT ![t] = IF reply = "ok" THEN done ELSE failed]
          /\ disturbed' = disturbed \cup
               (IF reply # "refused" /\ Disturbs(r, EventOf(o)) THEN {WalletOf[r]} ELSE {})
               \cup (IF reply = "ok" THEN {} ELSE Wallets(broken(reply) \cap o.dirty))
     /\ UNCHANGED <<rows, listening, tracker, calls, boots>>

UndoSkipped(t, r) ==   \* mutant: the rollback takes no announcement back
  /\ op[t].stage = "undo" /\ r \in op[t].said
  /\ op' = [op EXCEPT ![t] = Idle]
  /\ UNCHANGED <<rows, channel, listening, tracker, disturbed, calls, boots, faults>>

\* inactive_all after its rollback: RESUME for every monitor it paused.
\* cause: one that was inactive is resumed too, or a RESUME fails
Undo(t, r) ==
  LET o == op[t]
  IN /\ o.stage = "undo" /\ r \in o.said
     /\ \E reply \in Replies :
          /\ Reply(reply) /\ Publish(r, "resume", reply)
          /\ op' = [op EXCEPT ![t] =
                      IF reply # "ok" \/ o.said = {r} THEN Idle
                      ELSE [o EXCEPT !.said = @ \ {r}, !.unheard = @ \ {r}]]
          /\ disturbed' = disturbed \cup
               (IF Disturbs(r, "resume") \/ r \notin o.dirty THEN {WalletOf[r]} ELSE {})
               \cup (IF reply = "ok" THEN {}
                     ELSE Wallets((o.said \ (IF reply = "lost" THEN {r} ELSE {})) \cap o.dirty))
     /\ UNCHANGED <<rows, listening, tracker, calls, boots>>

\* The commit of the service, or of provide_session after it.  An UPDATE of a
\* row that is gone raises; a DELETE of it does not.
Commit(t) ==
  LET o == op[t]
      vanished == o.to # "gone" /\ \E r \in o.dirty : rows[r] = "gone"
  IN /\ o.stage = "commit"
     /\ \E reply \in Replies :
          /\ Reply(reply)
          /\ IF reply = "refused" \/ vanished
             THEN UNCHANGED rows /\ disturbed' = disturbed \cup Wallets(o.said \cap o.dirty)
             ELSE /\ rows' = [r \in Row |-> IF r \in o.dirty THEN o.to ELSE rows[r]]
                  /\ UNCHANGED disturbed
     /\ op' = [op EXCEPT ![t] = Idle]
     /\ UNCHANGED <<channel, listening, tracker, calls, boots>>

\* The bot dies: MySQL rolls the open transactions back.
BotCrash ==
  /\ InFlight # {}
  /\ op' = [t \in Call |-> Idle]
  /\ disturbed' = disturbed \cup UNION {Wallets(op[t].said \cap op[t].dirty) : t \in Call}
  /\ UNCHANGED <<rows, channel, listening, tracker, calls, boots, faults>>

CallStep(t) == Commit(t) \/ \E r \in Row : Announce(t, r) \/ Undo(t, r)

NewCall(t) ==
  \/ AddMonitor(t) \/ UpdateMonitor(t) \/ DeleteMonitor(t) \/ InactiveAllMonitors(t)
  \/ AddCopyTrade(t) \/ UpdateCopyTrade(t) \/ DeleteCopyTrade(t) \/ InactiveAllCopyTrades(t)

-----------------------------------------------------------------------------
(***************************************************************************)
(* TxMonitor.start                                                         *)
(***************************************************************************)
Boot ==
  /\ phase = "down" /\ boots < MaxBoots
  /\ phase' = "boot" /\ boots' = boots + 1
  /\ UNCHANGED <<database, channel, listening, todo, watched, disturbed, calls, faults>>

GoesDown ==
  /\ phase' = "down" /\ listening' = FALSE /\ channel' = <<>>
  /\ todo' = {} /\ watched' = {}

Crash ==
  /\ phase # "down" /\ GoesDown
  /\ UNCHANGED <<database, disturbed, calls, boots, faults>>

\* events.subscribe, then monitor.start; an error of either ends the process.
\* What was disturbed before is read anew, except under a call in flight.
Subscribe ==
  /\ phase = "boot"
  /\ \/ /\ phase' = "monitors" /\ listening' = TRUE
        /\ op' = [t \in Call |-> [op[t] EXCEPT !.unheard = op[t].said]]
        /\ disturbed' = disturbed \cap UNION {Wallets(Touched(op[t])) : t \in InFlight}
        /\ UNCHANGED <<channel, todo, watched, faults>>
     \/ Reply("refused") /\ GoesDown /\ UNCHANGED <<op, disturbed>>
  /\ UNCHANGED <<rows, calls, boots>>

\* cause: a call announced its change before this life listened and commits it
\* after the read
Unheard(S) == UNION {Wallets(op[t].unheard \cap op[t].dirty \cap S) : t \in InFlight}

Read(S, from, next) ==
  /\ phase = from
  /\ \/ /\ todo' = todo \cup ActiveWallets(S) /\ phase' = next
        /\ disturbed' = disturbed \cup Unheard(S)
        /\ UNCHANGED <<channel, listening, watched, faults>>
     \/ Reply("refused") /\ GoesDown /\ UNCHANGED disturbed
  /\ UNCHANGED <<database, calls, boots>>

ReadAllRows ==          \* mutant: the WHERE on active is missing
  /\ phase = "copytrades"
  /\ todo' = todo \cup Wallets(Existing \ Monitors) /\ phase' = "fill"
  /\ disturbed' = disturbed \cup Unheard(Row \ Monitors)
  /\ UNCHANGED <<database, channel, listening, watched, calls, boots, faults>>

ReadMonitors == Read(Monitors, "monitors", "copytrades")
ReadCopyTrades == Read(Row \ Monitors, "copytrades", "fill")

SubscribeWallet(w) ==
  /\ phase = "fill" /\ w \in todo
  /\ watched' = watched \cup {w} /\ todo' = todo \ {w}
  /\ UNCHANGED <<database, channel, listening, phase, disturbed, calls, boots, faults>>

Filled ==
  /\ phase = "fill" /\ todo = {}
  /\ phase' = "loop"
  /\ UNCHANGED <<database, channel, listening, todo, watched, disturbed, calls, boots, faults>>

\* process_event and the two handlers.
ProcessEvent ==
  /\ phase = "loop" /\ channel # <<>>
  /\ channel' = Tail(channel)
  /\ LET m == Head(channel)
     IN watched' = IF m.event = "resume" THEN watched \cup {m.wallet} ELSE watched \ {m.wallet}
  /\ UNCHANGED <<database, listening, phase, todo, disturbed, calls, boots, faults>>

\* cause: the connection is lost with the messages on it
Disconnect ==
  /\ listening /\ Reply("lost")
  /\ listening' = FALSE /\ channel' = <<>>
  /\ disturbed' = disturbed \cup {channel[i].wallet : i \in DOMAIN channel}
  /\ UNCHANGED <<database, tracker, calls, boots>>

\* The next get_message connects again and repeats SUBSCRIBE, nothing else.
Reconnect ==
  /\ phase = "loop" /\ ~listening
  /\ listening' = TRUE
  /\ UNCHANGED <<database, channel, tracker, disturbed, calls, boots, faults>>

TrackerStep ==
  \/ Subscribe \/ ReadMonitors \/ ReadCopyTrades \/ Filled \/ ProcessEvent \/ Reconnect
  \/ \E w \in Wallet : SubscribeWallet(w)

Next ==
  \/ \E t \in Call : NewCall(t) \/ CallStep(t)
  \/ BotCrash
  \/ Boot \/ Crash \/ Disconnect \/ TrackerStep

Spec == Init /\ [][Next]_vars

\* The event loops run calls and TxMonitor; docker-compose restarts the tracker.
FairSpec ==
  /\ Spec /\ WF_vars(TrackerStep) /\ WF_vars(Boot)
  /\ \A t \in Call : WF_vars(CallStep(t))

-----------------------------------------------------------------------------
(***************************************************************************)
(* Properties                                                              *)
(***************************************************************************)
Agrees(w) == w \in watched <=> w \in ActiveWallets(Row)

Quiet == phase = "loop" /\ listening /\ channel = <<>> /\ InFlight = {}

\* When no call is in flight and every event is processed, exactly the wallets
\* of the active rows are watched, whatever the order of calls, restarts and
\* failures was, except for the causes named above: a call that failed after
\* it had announced its change, calls that overlapped on a wallet, a wallet
\* that several rows follow, a lost connection, a start of the tracker
\* between the announcement and the commit of a call.
WatchedAgrees == Quiet => \A w \in Wallet \ disturbed : Agrees(w)

\* The calls and the tracker in their places, and in agreement when at rest.
Inv == TypeOK /\ WatchedAgrees

\* A row becomes active or inactive only after the event that says so was
\* published: the tracker is never left without one.
AnnouncedFirst ==
  [][\A r \in Row :
       (rows[r] = "on" <=> rows'[r] # "on") =>
         \E t \in Call : r \in op[t].said /\ op[t].to = rows'[r]]_vars

\* "if sending the event fails, roll the database back": all the rows of a call
\* change together, by its last step, after every one of its events was sent, and
\* nothing else changes: a call that fails half-way leaves every row as it was, the
\* announced ones too. Nor is a row that another call deleted meanwhile brought back.
ChangesWhole(t) ==
  /\ op[t].left = {} /\ op[t].dirty \subseteq op[t].said /\ op'[t] = Idle
  /\ \A r \in Row : rows'[r] = IF r \in op[t].dirty THEN op[t].to ELSE rows[r]
  /\ op[t].to # "gone" => \A r \in op[t].dirty : rows[r] # "gone"

AllOrNothing == [][rows' # rows => \E t \in Call : ChangesWhole(t)]_vars

\* The watched wallets catch up with the rows again and again, for every
\* wallet that none of the causes concerns, unless no restart is left.
KeepsUp ==
  \A w \in Wallet :
    []<>(Agrees(w) \/ w \in disturbed \/ (phase = "down" /\ boots = MaxBoots))

(***************************************************************************)
(* What the code says of itself and does not do                            *)
(***************************************************************************)
\* tx_monitor.py "从数据库中获取已激活的目标地址 ... 合并两个列表" (the activated
\* addresses, both lists merged): a wallet is watched for every active row,
\* and an event unwatches it only when no other row needs it.
PauseSparesOthers ==
  [][\A w \in watched \ watched' :
       (phase = "loop" /\ phase' = "loop") =>
         w \notin ActiveWallets(Row \ UNION {Touched(op[t]) : t \in Call})]_vars
=============================================================================
