------------------------------ MODULE CopyTrade ------------------------------
(***************************************************************************)
(* Copy trading: the stream "tx_event:new", its consumer (cp/tx_event.py)  *)
(* and the callback CopyTradeProcessor registers (trading/copytrade.py).   *)
(* For each transaction of a followed wallet the callback reads the copy   *)
(* trades of that wallet and runs one coroutine per copy trade, which      *)
(* queues a swap event and a notification.                                 *)
(*                                                                         *)
(* The consumer acknowledges an event when its callback returned, and has  *)
(* neither retries nor dead letters: what failed stays pending until the   *)
(* next start reads it again.  It declares a semaphore it never uses.      *)
(*                                                                         *)
(* All events are transactions of one wallet, and Follower is the copy     *)
(* trades of that wallet.  Amounts and slippage are left out (SwapPath has *)
(* the amounts).  Fewer events than MAXLEN are in the stream, each is      *)
(* published once.                                                         *)
(***************************************************************************)
EXTENDS Integers, Sequences, FiniteSets

CONSTANTS
  Event, Follower,
  Sale,        \* the events that are sales
  FixedBuy, AutoFollow, NoSell,  \* the rows with is_fixed_buy, auto_follow, no_sell
  BatchSize,
  MaxFaults,   \* bound: commands that fail or whose answer is lost
  MaxBoots,    \* bound: lives of the trading service
  MaxEdits     \* bound: changes of copy trades by their owners

ASSUME ConstantsAssumption ==
  /\ Sale \subseteq Event
  /\ FixedBuy \subseteq Follower /\ AutoFollow \subseteq Follower /\ NoSell \subseteq Follower
  /\ BatchSize \in Nat \ {0}
  /\ MaxFaults \in Nat /\ MaxBoots \in Nat /\ MaxEdits \in Nat

VARIABLES
  stream,       \* the events of the stream, in order
  group,        \* does the consumer group exist
  lastRead,     \* position of the last event delivered to the group
  pel,          \* delivered and not acknowledged
  rows,         \* the copy trades: "on", "off" (active is false) or "gone"
  main,         \* the await of TxEventConsumer.start
  batch,        \* pending events process_pending has still to process
  task,         \* the await of each event's _process_message
  copy,         \* the await of each _process_copytrade
  \* history, never read by the code
  queued,       \* swap events queued for each event and follower
  unserved,     \* followers the last query found and whose copy has not ended
  acked,
  missed,       \* published before the group was created
  excused,      \* pending because of one of the causes below
  edits, boots, faults

redis == <<stream, group, lastRead, pel>>
history == <<queued, unserved, acked, missed, excused>>
bounds == <<edits, boots, faults>>
vars == <<redis, rows, main, batch, task, copy, history, bounds>>

NoCopy == [f \in Follower |-> "done"]

Replies == {"ok", "refused", "lost"}
Reply(r) ==
  /\ r = "ok" \/ faults < MaxFaults
  /\ faults' = IF r = "ok" THEN faults ELSE faults + 1

Published == {stream[i] : i \in DOMAIN stream}
IdOf(e) == CHOOSE i \in DOMAIN stream : stream[i] = e
Working == {e \in Event : task[e] # "none"}

\* Work goes on only in a process that runs, on events that are pending; while
\* process_pending runs there is one at a time.
TypeOK ==
  /\ stream \in Seq(Event) /\ group \in BOOLEAN /\ lastRead \in 0..Len(stream)
  /\ pel \subseteq {stream[i] : i \in 1..lastRead}
  /\ rows \in [Follower -> {"on", "off", "gone"}]
  /\ main \in {"down", "setup", "pending", "replay", "loop", "dead"}
  /\ batch \subseteq pel
  /\ task \in [Event -> {"none", "query", "copy"}]
  /\ Working \subseteq pel
  /\ main = "replay" => Cardinality(Working) <= 1
  /\ main \notin {"replay", "loop"} => Working = {}
  /\ copy \in [Event -> [Follower -> {"prepare", "swap", "notify", "done"}]]
  /\ \A e \in Event : task[e] # "copy" => copy[e] = NoCopy
  /\ queued \in [Event -> [Follower -> Nat]]
  /\ unserved \in [Event -> SUBSET Follower]
  /\ acked \subseteq Event /\ missed \subseteq Event /\ excused \subseteq Event
  /\ edits \in 0..MaxEdits /\ boots \in 0..MaxBoots /\ faults \in 0..MaxFaults

Init ==
  /\ stream = <<>> /\ group = FALSE /\ lastRead = 0 /\ pel = {}
  /\ rows = [f \in Follower |-> "on"]
  /\ main = "down" /\ batch = {}
  /\ task = [e \in Event |-> "none"] /\ copy = [e \in Event |-> NoCopy]
  /\ queued = [e \in Event |-> [f \in Follower |-> 0]]
  /\ unserved = [e \in Event |-> {}]
  /\ acked = {} /\ missed = {} /\ excused = {}
  /\ edits = 0 /\ boots = 0 /\ faults = 0

-----------------------------------------------------------------------------
(***************************************************************************)
(* The others: the wallet tracker publishes, owners edit their copy trades *)
(***************************************************************************)
Publish(e) ==
  /\ e \notin Published
  /\ stream' = Append(stream, e)
  /\ UNCHANGED <<group, lastRead, pel, rows, main, batch, task, copy, history, bounds>>

EditRow(f, s) ==
  /\ edits < MaxEdits /\ rows[f] # "gone" /\ rows[f] # s
  /\ rows' = [rows EXCEPT ![f] = s]
  /\ edits' = edits + 1
  /\ UNCHANGED <<redis, main, batch, task, copy, history, boots, faults>>

-----------------------------------------------------------------------------
(***************************************************************************)
(* TxEventConsumer.start                                                   *)
(***************************************************************************)
Boot ==
  /\ main = "down" /\ boots < MaxBoots
  /\ main' = "setup" /\ boots' = boots + 1
  /\ UNCHANGED <<redis, rows, batch, task, copy, history, edits, faults>>

SetupAgain ==       \* mutant: BUSYGROUP is answered by creating the group anew
  /\ main = "setup"
  /\ group' = TRUE /\ lastRead' = 0 /\ pel' = {} /\ main' = "pending"
  /\ UNCHANGED <<stream, rows, batch, task, copy, history, bounds>>

\* The group starts at "$": what was published before is never delivered.  Any
\* error but BUSYGROUP ends the consumer's task, and the service runs without it.
Setup ==
  /\ main = "setup"
  /\ \E r \in Replies :
       /\ Reply(r)
       /\ main' = IF r = "ok" THEN "pending" ELSE "dead"
       /\ IF group \/ r = "refused" THEN UNCHANGED <<group, lastRead, missed>>
          ELSE /\ group' = TRUE /\ lastRead' = Len(stream)
               /\ missed' = Published
  /\ UNCHANGED <<stream, pel, rows, batch, task, copy, queued, unserved, acked, excused, edits, boots>>

PendingSkipped ==   \* mutant: process_pending reads ">" as well
  /\ main = "pending" /\ main' = "replay" /\ batch' = {}
  /\ UNCHANGED <<redis, rows, task, copy, history, bounds>>

\* cause: the read fails, or more events are pending than one read returns
ReadPending ==
  /\ main = "pending"
  /\ \E r \in Replies \ {"lost"} :
       /\ Reply(r)
       /\ IF r = "ok"
          THEN /\ batch' = {e \in pel :
                     Cardinality({o \in pel : IdOf(o) <= IdOf(e)}) <= BatchSize}
               /\ excused' = pel \ batch' /\ main' = "replay"
          ELSE UNCHANGED batch /\ excused' = pel /\ main' = "loop"
  /\ UNCHANGED <<redis, rows, task, copy, queued, unserved, acked, missed, edits, boots>>

\* process_pending awaits one _process_message after the other.
Replay ==
  /\ main = "replay" /\ Working = {}
  /\ \/ batch = {} /\ main' = "loop" /\ UNCHANGED <<batch, task>>
     \/ \E e \in batch :
          /\ \A o \in batch : IdOf(e) <= IdOf(o)
          /\ task' = [task EXCEPT ![e] = "query"]
          /\ batch' = batch \ {e} /\ UNCHANGED main
  /\ UNCHANGED <<redis, rows, copy, history, bounds>>

\* XREADGROUP ">", and a task for each event. cause: the answer is lost
Deliver ==
  /\ main = "loop" /\ lastRead < Len(stream)
  /\ lastRead' = IF lastRead + BatchSize < Len(stream) THEN lastRead + BatchSize ELSE Len(stream)
  /\ LET new == {stream[i] : i \in (lastRead + 1)..lastRead'}
     IN /\ pel' = pel \cup new
        /\ \/ /\ Reply("ok") /\ UNCHANGED excused
              /\ task' = [e \in Event |-> IF e \in new THEN "query" ELSE task[e]]
           \/ Reply("lost") /\ excused' = excused \cup new /\ UNCHANGED task
  /\ UNCHANGED <<stream, group, rows, main, batch, copy, queued, unserved, acked, missed, edits, boots>>

-----------------------------------------------------------------------------
(***************************************************************************)
(* _process_message and its callback                                       *)
(***************************************************************************)
EndTask(e) == task' = [task EXCEPT ![e] = "none"] /\ copy' = [copy EXCEPT ![e] = NoCopy]

\* get_by_target_wallet: `A and B` between two SQL expressions is A, so that the
\* rows that are not active are found too.
\* cause: the query fails; the exception is logged and the event stays pending
Query(e) ==
  /\ task[e] = "query"
  /\ \/ /\ Reply("ok") /\ task' = [task EXCEPT ![e] = "copy"]
        /\ LET found == {f \in Follower : rows[f] # "gone"}
           IN /\ copy' = [copy EXCEPT ![e] = [f \in Follower |-> IF f \in found THEN "prepare" ELSE "done"]]
              /\ unserved' = [unserved EXCEPT ![e] = found]
        /\ UNCHANGED excused
     \/ /\ Reply("refused") /\ EndTask(e)
        /\ excused' = excused \cup {e} /\ UNCHANGED unserved
  /\ UNCHANGED <<redis, rows, main, batch, queued, acked, missed, edits, boots>>

Goes(e, f, stage) == copy' = [copy EXCEPT ![e][f] = stage]
Serves(e, f) == Goes(e, f, "done") /\ unserved' = [unserved EXCEPT ![e] = @ \ {f}]

\* Buys are copied by fixed amounts only, sales only where auto_follow is set.
Copies(e, f) == IF e \in Sale THEN f \in AutoFollow ELSE f \in FixedBuy

PrepareRaises(e, f) ==   \* mutant: an error of one copy leaves the gather
  /\ copy[e][f] = "prepare"
  /\ \/ Copies(e, f) /\ Goes(e, f, "swap") /\ UNCHANGED task
     \/ EndTask(e)
  /\ UNCHANGED <<redis, rows, main, batch, history, bounds>>

\* The mint may be ignored, the holding zero; the setting, the holding and the
\* slippage may be missing or fail. Errors are logged and end this copy only.
Prepare(e, f) ==
  /\ copy[e][f] = "prepare"
  /\ \/ Copies(e, f) /\ Goes(e, f, "swap") /\ UNCHANGED unserved
     \/ Serves(e, f)
  /\ UNCHANGED <<redis, rows, main, batch, task, queued, acked, missed, excused, bounds>>

\* SwapEventProducer.produce: an error of XADD is logged, not raised.
QueueSwap(e, f) ==
  /\ copy[e][f] = "swap" /\ Goes(e, f, "notify")
  /\ \E r \in Replies :
       /\ Reply(r)
       /\ queued' = [queued EXCEPT ![e][f] = IF r = "refused" THEN @ ELSE @ + 1]
  /\ UNCHANGED <<redis, rows, main, batch, task, unserved, acked, missed, excused, edits, boots>>

\* The notification; its error is logged.
Notify(e, f) ==
  /\ copy[e][f] = "notify" /\ Serves(e, f)
  /\ \E r \in {"ok", "refused"} : Reply(r)
  /\ UNCHANGED <<redis, rows, main, batch, task, queued, acked, missed, excused, edits, boots>>

AckEarly(e) ==      \* mutant: the callback does not wait for the copies
  /\ task[e] = "copy" /\ e \in pel
  /\ pel' = pel \ {e} /\ acked' = acked \cup {e}
  /\ EndTask(e)
  /\ UNCHANGED <<stream, group, lastRead, rows, main, batch, queued, unserved, missed, excused, bounds>>

\* XACK after the gather. cause: it is refused
Ack(e) ==
  /\ task[e] = "copy" /\ copy[e] = NoCopy
  /\ \E r \in Replies :
       /\ Reply(r)
       /\ IF r = "refused" THEN excused' = excused \cup {e} /\ UNCHANGED <<pel, acked>>
          ELSE pel' = pel \ {e} /\ acked' = acked \cup {e} /\ UNCHANGED excused
  /\ EndTask(e)
  /\ UNCHANGED <<stream, group, lastRead, rows, main, batch, queued, unserved, missed, edits, boots>>

\* The process dies ("down"), or SIGINT cancels its tasks while the swap event
\* consumers keep it alive ("dead").
Stop(next) ==
  /\ main # "down" /\ main # next /\ next \in {"down", "dead"}
  /\ main' = next /\ batch' = {}
  /\ task' = [e \in Event |-> "none"] /\ copy' = [e \in Event |-> NoCopy]
  /\ UNCHANGED <<redis, rows, history, bounds>>

TaskStep(e) ==
  \/ Query(e) \/ Ack(e)
  \/ \E f \in Follower : Prepare(e, f) \/ QueueSwap(e, f) \/ Notify(e, f)

MainStep == Setup \/ ReadPending \/ Replay \/ Deliver

Next ==
  \/ \E e \in Event : Publish(e) \/ TaskStep(e)
  \/ \E f \in Follower, s \in {"on", "off", "gone"} : EditRow(f, s)
  \/ Boot \/ MainStep
  \/ \E next \in {"down", "dead"} : Stop(next)

Spec == Init /\ [][Next]_vars

\* The event loop runs the consumer and its tasks; docker-compose restarts the service.
FairSpec ==
  /\ Spec /\ WF_vars(Boot) /\ WF_vars(MainStep)
  /\ \A e \in Event : WF_vars(TaskStep(e))

-----------------------------------------------------------------------------
(***************************************************************************)
(* Properties                                                              *)
(***************************************************************************)
\* An acknowledged event was answered for every copy trade the query found:
\* copied, skipped or failed. A crash among the copies repeats the event.
FollowersServed == \A e \in acked : unserved[e] = {}

\* One follower gets at most one swap event per transaction and life of the
\* service: only a restart repeats a copy.
CopiedOncePerLife == \A e \in Event, f \in Follower : queued[e][f] <= boots

\* Once acknowledged, an event is never copied again, whatever is restarted.
AckedIsFinal ==
  [][\A e \in acked, f \in Follower : queued'[e][f] = queued[e][f]]_vars

\* While the read loop runs, an event that was delivered is acknowledged, or
\* worked on, or pending because of a named cause: a failed query or XACK, a
\* lost answer, a failed read of the pending events or one that stopped short.
PendingHasReason ==
  main = "loop" =>
    \A i \in 1..lastRead : stream[i] \in acked \cup missed \cup excused \cup Working

\* What the copies of an event may be in services/copytrade.py: every follower
\* served before the XACK, once in a life, and nothing forgotten in the PEL without a
\* named cause.
Inv == TypeOK /\ FollowersServed /\ CopiedOncePerLife /\ PendingHasReason

\* Every event published after the group was created is acknowledged in the
\* end, across restarts, unless one of those causes leaves it pending, the
\* consumer is dead inside a running service, or no restart is left.
EventuallyAnswered ==
  \A e \in Event :
    e \in Published ~>
      \/ e \in acked \cup missed \cup excused
      \/ main = "dead" \/ (main = "down" /\ boots = MaxBoots)

(***************************************************************************)
(* What the code says of itself and does not do                            *)
(***************************************************************************)
\* services/copytrade.py:15 "获取指定目标钱包的活跃跟单" (the active copy trades of the
\* wallet): a paused copy trade is not copied.
PausedNotCopied ==
  [][\A e \in Event, f \in Follower :
       (copy[e][f] = "done" /\ copy'[e][f] = "prepare") => rows[f] = "on"]_vars

\* models/tg_bot/copytrade.py:21 no_sell "只跟买" (follow buys only).
NoSellRespected ==
  [][\A e \in Sale, f \in NoSell : queued'[e][f] = queued[e][f]]_vars

\* A copy its owner is told of has a swap event.
ToldIsQueued ==
  [][\A e \in Event, f \in Follower :
       (copy[e][f] = "notify" /\ copy'[e][f] = "done" /\ main' = main) => queued[e][f] > 0]_vars
=============================================================================
