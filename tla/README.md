# Verification of open-sol-bot

TLA+ models of the concurrent parts of open-sol-bot, a Solana copy-trading bot,
the TLC runs that check them, and the TLAPS proofs about them.
`PROJECT.json` lists every run, mutant, mapped definition, finding, hazard and
theorem; this file explains them.

To repeat a run: `tlc -config X.cfg M.tla` with the module and configuration
named in the table of runs. To repeat the proofs: `tlapm M.tla` for the modules
whose name ends in `Proofs` and for `TelegramBotCards` (the two modules about the
bot take some fifteen minutes each, the others a few).

## 1. The system

Four services share MySQL and Redis. Everything inside a service is asyncio:
one thread, and a task gives way only at an `await` that really suspends.

```
 Solana node / Geyser            wallet-tracker                     trading
 ───────────────────►  AccountLogMonitor / GeyserSubscriber
                          │ list of signatures / transactions
                          ▼
                       TransactionWorker ──(stream tx_event)──► CopyTradeProcessor
                          ▲                                         │
   (pub/sub monitor_events)                                (stream swap_event)
                          │                                         ▼
                       tg-bot  ──────(stream swap_event)──►  SwapEventConsumer ─► Trading
                          ▲                                         │  executor, settlement
                          └──────────(stream swap_result)───────────┘
 cache-preloader ──► Redis keys (blockhash, rent) read by trading and tg-bot
```

| Component | State it keeps | Operations | What is hard | What makes it correct |
|---|---|---|---|---|
| Stream producer/consumer, `libs/common/.../cp/base.py` | stream, group, pending entries (PEL), dead letters in Redis; batch and message in memory | produce, setup, process_pending, read loop, `_process_message`, stop | crash between any two commands, a command that fails or whose answer is lost, trimming, retry by re-adding | no event vanishes unanswered; XACK never early; dead letters only for a reason |
| Swap event queue, `cp/swap_event.py` | the same, per consumer; concurrent tasks with a semaphore | produce, setup, process_pending, loop, `_process_message`, `_move_to_dead_letter` | tasks interleave, SIGINT is taken for a `break`, three consumer names in one process | no event lost; none handed over twice in a life or after its XACK |
| Trading service, `app/trading/trading/main.py` | detached swap tasks, their semaphore, retries by backoff | `_process_swap_event`, `_execute_swap`, `_record_swap_result`, `_record_failed_swap`, start, stop | a retry must not trade twice; a failure after the submission | one submission per life, results only after records, every swap answered |
| Geyser subscriber, `geyser/tx_subscriber.py` | wallets, request queue of the stream, response queue and its workers | start, reconnect, subscribe, unsubscribe, workers, stop | reconnection while wallets change, full queue, shutdown of workers | the server filters for the wallets; nothing received is dropped |
| Account log monitor, `wss/account_log_monitor.py` | id map, subscribed set, response slot, lock, two queues, two tasks | start, cleanup, subscribe, unsubscribe, stop | three tasks, one lock, one slot for several requests, reconnection | the books agree with the node; it comes back; stop() ends it |
| Transaction event queue `cp/tx_event.py`, copy-trade processor `trading/copytrade.py` | stream tx_event and its PEL; one coroutine per follower | setup, process_pending, read loop, `_process_message`; `_process_tx_event`, `_process_copytrade` | failing callbacks stay pending, one read of the pending events per start, a swallowed XADD error, crash among the followers | every event answered for every follower before XACK; one copy per life; none after XACK |
| RPC transaction subscriber `wss/tx_subscriber.py`, transaction workers `tx_worker.py` | four Redis lists; the transaction in each worker's hand | race of the endpoints, LPUSH, BRPOP, parser, publication, failed lists | a pop before the processing; a push whose answer is lost | nothing vanishes without a named cause; one event per notification |
| Parser, executor, routes, builders, senders, settlement | none: one value passed along | get_tx_type, find_route, build, send, validate (60 polls), analyze, record | four units in one parameter `ui_amount`, rounding, late confirmation | never more than the holding; what was asked is traded; the record is what the chain did |
| Wallet monitor control: bot services, `monitor_events`, TxMonitor | MySQL rows; pub/sub; the subscriber's wallets | add, update, delete, RESUME, PAUSE | publish before commit, a follower that pauses while others follow | a wallet is followed iff an active row names it |
| Bot: conversations (`tg_bot/conversations`) | FSM state and data per chat, settings objects shared by handlers, rows, settings in Redis | some 80 handlers | handlers of a chat overlap at every await; stale cards; a save after a deletion; a wallet replaced under an order | what a card shows is what is saved, but for rounding; deleted stays deleted; an order goes out from a wallet the chat had |
| Bot: access (`middlewares`, `services/activation.py`, `user.py`) | users, licences, codes | two middlewares, /start, activation | several sessions for one thing | a licence is what the codes used make it; nobody else is served |
| Bot: notifications (`tg_bot/notify`) | deliveries, sends under way | three callbacks | one chat of many fails, restarts | acknowledged only when every reader was told |
| Cache preloader (`app/cache-preloader`) | keys with expiry, update tasks, monitor | start, update, get, monitor, stop (twice) | expiry against the loop's sleep; restart against stop | a fresh value or none, none at rest only as long as an answer was late; stopped stays stopped |
| Caches of the route (`libs/cache`) | launch status, sorted set, pool data, rows | `is_pump_token_launched`, `get_preferred_pool`, update, trim | swaps race to store one pool | the race costs no swap |

## 2. Modules

`MCx` extends `x` with the values of a run. `TradingPipeline` extends and composes
`SwapEventConsumer`; `TelegramBot` composes the three dialogues, `Access` and `Notify`,
all of them over `Chat`; `Caches` composes `CachePreloader` and `TokenRoute`;
`StreamConsumer` is shown to implement `EventQueue`. The proofs are in modules of their
own, which extend what they are about: `TradingProofs` both `TradingPipeline` and
`SwapPath`, `WalletTrackerProofs` both `TxIntake` and `AccountLogMonitor`,
`LibraryProofs` both `StreamConsumer` and `Caches` (`AccountLogMonitor` and `Caches` have
names of their own for that), `TelegramBotCards` the module `TelegramBotProofs`, the
others the module in their name.

Conventions, for all modules. An action is the code between two awaits that may
suspend, with everything it calls. A variable named `pc`, `phase`, `task`,
`swap`, `main`, ... holds the await a coroutine is suspended at. Redis commands
are atomic and have three outcomes (`Reply`): *ok*, *refused* (an error before it
took effect) and *lost* (it took effect, the client sees an error). Variables
under "history" are never read by an action's guard; they count or remember for
the properties. Definitions marked `mutant` are the deliberately wrong variants
that show that a property can fail; nothing else refers to them.

**StreamConsumer** (`cp/base.py`). One producer, one `Consumer`, crashes and
restarts. An entry carries its payload (a model value) and its retry counter, as
the code carries it in the entry's fields. `Produce` is XADD with the approximate
MAXLEN: it may or may not trim down to it. `setup` is four actions (`CreateGroup`,
`InspectGroup`, `DestroyGroup`, `RecreateGroup`), `process_pending` one read,
`_process_message` nine actions, the `try` and `except` paths told apart by
`inTry`. `swap_result.py` and `copytrade_event.py` only bind channels to it.

**EventQueue** is what the stream promises: an event waits until it is settled (handled
or dead-lettered) or given up (trimmed, or stored before the group was opened), and may
wait again. The mapping (`Queue` in StreamConsumer): `waiting` is `Waiting`, what the
group has still to deliver, or the PEL holds; `settled` the handled and the dead; `lost`
what was missed or trimmed; `open` whether there is a group. A step of the consumer that
only moves its own control is a stutter.

**SwapEventConsumer** (`cp/swap_event.py`, and `start`/`stop` of `main.py`).
`task[e]` is the await of the task of event `e`; tasks hold the semaphore from
`BeginTask` on. The callback Trading registers creates a task and does not
suspend, so it belongs to `Dispatch`. `Interrupt` is SIGINT: `asyncio.run` cancels
every task, the read loop takes the CancelledError for the end of its loop, and
`Trading.start` goes on with the next consumer. A second one ends the process.
Each event is published once and fewer than MAXLEN of them, so nothing is trimmed
(StreamConsumer has the trimming). The module has no specification of its own.

**TradingPipeline** (`main.py`, `settlement/processor.py`). The consumer with the
detached swap tasks it creates. `HandOver` conjoined to the consumer's step creates the
task in the step that calls the callback. `Execute` has the outcomes of `exec`:
submitted and answered, submitted with the answer lost, a connection error (backoff
retries it), any other error. `Settle` and `Record` are `processor.process` and its
commit, `ProduceResult` and `ProduceFailure` the two publications through
`Producer.produce`.

**GeyserSubscriber** (`geyser/tx_subscriber.py`). The first connection, the monitor
task with its reconnections (`StreamBreaks`, `ConnectFails`, `EndPause`,
`Reconnect`), the bounded `response_queue` (`Receive` puts, or keeps the response in
`hand` until `PutResumes`), the workers, the two subscription calls and `stop`.
The server replaces its filter by each request it reads (external).

**AccountLogMonitor** (`wss/account_log_monitor.py`). `main`, `sub` and `unsub` are
the three coroutines; `lock` is the asyncio lock with its waiters in order. The node
gives the same filter the same id on one connection (external), so that the wallet
stands for the id. `process_log` touches none of this state: it is TxIntake's `Detect`.

**MonitorControl** (`tg_bot/services/monitor.py`, `copytrade.py`, `wallet_tracker/tx_monitor.py`,
`cp/monitor_events.py`). A call of a service is a task of the bot in `op`: it reads
its rows, publishes one event per row, commits; what it wrote reaches `rows` with
the commit only. `channel` is the pub/sub connection, which keeps nothing for a
listener that is not there. TxMonitor subscribes to the channel, then to the wallets
of the active rows (`todo`), then takes events. `disturbed` remembers the wallets for
which one of five causes has happened, each marked at its action: a call that failed
after its announcement, calls that overlap on a wallet, a wallet several rows follow,
a lost connection, a start of the tracker between announcement and commit. A call keeps
the rows it will change in `dirty` and those it has announced in `said`, so that
`AllOrNothing` can say what its failure half-way leaves behind.

**CopyTrade** (`cp/tx_event.py`, `trading/copytrade.py`, `solbot_services/copytrade.py`).
The queue and its callback in one module: `task[e]` is the await of event `e`, `copy[e][f]`
that of the coroutine of its follower `f`. `Query` takes the rows that are not deleted,
active or not, as the SQL expression does. `Prepare` is every condition and request up
to the swap event; its errors end one follower's copy, `Query`'s the callback.
`QueueSwap` goes on after an error of XADD, as the producer logs it. `excused` remembers
why an event may stay pending: a failed query or XACK, a lost answer, a read of the
pending events that failed or stopped at `BatchSize`.

**TxIntake** (`wss/account_log_monitor.py`, `wss/tx_subscriber.py`, `tx_worker.py`). The two
pools with a notification in each worker's `worker[w]`. What enters (`Detect`) are
notifications: each watched wallet has a subscription of its own and `process_log` pushes
whatever arrives, so that a transaction that mentions two of them comes twice (`TxOf` gives
the transaction of a notification) and is pushed, parsed and published twice. The properties
speak of a notification; that a transaction makes one event is refuted (section 4). BRPOP
(`TakeSignature`, `TakeDetail`) removes; `Fetch` is one answer in the race of the endpoints.
`lost` remembers the causes: a crash, a lost answer of BRPOP, a refused command with nothing
behind it, a transaction with several signatures.

**SwapPath** (`parser/raw_tx.py`, `copytrade.py`, `conversations/swap/swap.py`, `executor.py`,
`transaction/`, `tx.py`, `settlement/`). One swap from its cause to its record, as data:
what the wallet did (`TxType`), the swap event with its amount as a fraction of tokens
(`CopyOrder`, `UserBuy`, `UserSell`), the route, the raw amount each builder names
(`PumpAmounts`, `RaydiumAmounts`, `DexAmounts`), the compute budget, and the settlement
against a chain that confirms, finalizes, fails or drops in its own time. `sold` is the raw
amount the builder of the route will ask for: what the properties compare with the order,
and with the share the wallet sold. `int()` of a float that should be an integer may be one
less (`Truncated`). TradingPipeline has the
retries around these steps.

**Chat** is what all dialogues share: one chat of aiogram. `calls[c]` is a handler at
work: the awaits it has still to do, in the order of the code (`todo`), the settings
object it holds (`form`), what it is about to write. `forms` are the Python objects, with
the row each came from; the FSM data refers to them, so that two handlers may hold one.
`Receive` takes an update with the FSM state of that moment; the handler runs to its
first await later, when other handlers may have moved the state. A failing await ends
the handler; `TidyQuietly` marks those in a `try`. `Read` and `Commit` are
`update()`: SELECT, then UPDATE of the columns that differ. A column need not hold what the
form does. `Column` is what is written: a slippage is stored as `int(percent * 100)`, which
truncates (`Short` are the slippages whose product floating point makes too small: 2.3 is
stored as 229). `Field` is what is read: whole percents, and an amount rounded to four
digits. `Insert` and `Commit` write columns, a load makes a form of them.

**CopyTradeDialogue**, **MonitorDialogue**, **TradeDialogue** have one definition per
handler, named after it (`create_` and `edit_` for the two files that use the same
name). TradeDialogue holds the settings, the swap menus and orders, and the wallet,
which share one setting object and the wallet remembered in the data. An order is four
steps or more: it begins with what the data has (`buy`, `Known`), reads what is missing,
chooses its mode when the last of these awaits has returned (`Decide`), awaits the
automatic slippage if that is the mode, and is produced after it (`Order`). An import of
a wallet is the handler, two commits and `state.clear()`, with orders and menus at work
between them. A number is one of two values but for slippages and amounts, a text either
read or asked for again. **Access** has the middlewares, registration and activation
codes; **Notify** the callbacks of the three notifiers, with what an error of one of
them does to the delivery of StreamConsumer. **TelegramBot** puts them together: one
part of the bot at a time (`part`), since the parts use different keys of the data and
different tables.

**CachePreloader** (`app/cache-preloader`) has time: `Tick` counts every timer down, and a
value ages from the moment the node gave it. `Set` is the moment Redis executes the SET and
starts its expiry; the loop's sleep starts with the answer (`Rest`), up to `MaxDelay` later.
**TokenRoute** (`libs/cache`, `find_route`)
follows swaps of one token that is new to the caches through the launch cache and the
pool storage, first to choose the route, where errors are swallowed, then to build.
**Caches** composes the two, which share no key.

## 3. Runs

| Run | Bounds | What it shows |
|---|---|---|
| StreamConsumerSafety | 2 events (symmetric), batch 2, 1 retry, MAXLEN 2, 1 failing command, 2 lives | the inductive invariant `Inv`; `NoSilentLoss`; `DeadLetterJustified`; `WorkedOnce`; `AckedIsAnswered`; `ImplementsQueue` |
| StreamConsumerLive | 2 events, no failing command, 2 lives | `EventuallySettled` |
| TradingPipeline | 2 events, one malformed, 2 consumers, 1 task at a time, 2 tries each, 1 failing command, 2 lives | `TradingInv` (types, `DeadLettersMalformed`, `NoEventLost`, `OneHandoverPerLife`, `SubmittedOnce`, `HashMeansRecorded`, `RecordedOnce`), `AckedIsFinal`, `EventuallyDispatched`, `TaskEndsAnswered`, `EventuallyAnswered` |
| Geyser | 2 wallets, 4 transactions, queue of 1, 2 workers, 2 failures, 2 calls | `Inv` (types, `CountExact`, `NothingDropped`, `InSync`), `EventuallyStored`, `ServerFollows` |
| AccountLog | 2 wallets, 3 calls, 2 failures, 1 retry | `LogInv` (types, `MappedIsSubscribed`, `BooksTracked`), `ComesBack`, `StopEnds` |
| MonitorControl | 2 monitors of two wallets and a copy trade, 2 calls that may overlap, 2 failures, 2 starts | `Inv` (types, `WatchedAgrees`), `AnnouncedFirst`, `AllOrNothing`, `KeepsUp` |
| MonitorControlShared | a monitor and a copy trade of one wallet, 1 call | *violated*: `PauseSparesOthers` |
| CopyTrade | a buy and a sale, 2 followers with different settings, reads of one event, 2 failures, 2 lives, 1 edit | `Inv` (types, `FollowersServed`, `CopiedOncePerLife`, `PendingHasReason`), `AckedIsFinal`, `EventuallyAnswered` |
| TxIntake | 2 notifications of one transaction, one that brings another whole, 2 endpoints, 2 workers in each pool, 2 failures, 2 lives | the inductive invariant `Inv`; `NothingVanishes`; `PublishedOnce`; `EventuallyFiled` |
| SwapPath | 6 amounts around a thousandth of a token, the rounding and a whole token; 1, 33 and 100 per cent; every route, fee and fate; 3 polls | `Inv` (types, `RecordHonest`, `AskedIsTraded`, `ShareFollows`), `NeverOversells`, `EverySwapEnds` |
| TelegramBot | 4 updates of one chat, 2 in hand at a time (2 or 3 updates in the trading part), 1 failing call; 2 wallets; slippages of 2.3 and 10 per cent, amounts of 0.00001 and 0.05 SOL; 2 users, 2 codes; 4 kinds of events, 2 readers, 2 retries | `Inv` (types, `ModesExclude`, `AccessInv`, `ServedInvited`, `NotifyInv`), `FormSaved`, `DeletedStaysDeleted`, `OrderAsAsked` |
| Caches | 2 caches that live 3 units of time, values and answers 1 unit on their way, 1 failing call; 2 swaps, 2 pools, a sorted set of 1 | `CachesInv` (types, `Fresh`, `FilledWhileResting`, `LaunchedIsLaunched`, `RaceAbsorbed`), `StaysStopped`, `StopEnds`, `KeepsFilled` |

Why the bounds are enough. The interesting cases need two of a thing that competes
(events, wallets, workers, consumers), a limit that is reached (batch, queue, slots,
MAXLEN, retries), one failure while everything is in order and one restart after it.
With one failing command the cleanup after a failure is checked as well as a failure
anywhere; the swap queue and the subscribers have two, so that the cleanup fails too.
The swap semaphore of Trading is not contended in TradingPipeline, where only one of the
two events is well-formed: a swap waits for nothing of another. A third and a fourth
update of a chat come when the first two are done or overlap with them: opening a card,
asking, answering and pressing a button on it at the same time. While trading two
updates at once are an import that overtakes an order, or the menu that puts the old
wallet back; the third is the order that uses it. Of the two slippages one is truncated
when stored and cut to whole percents when read, of the two amounts one is rounded to
nothing; FLOAT columns are taken to give back what they were given. Two of three
notifications are of one transaction, which is the case nothing in the code joins again.
A cache that lives three units sleeps two, so that error, expiry and monitor fall
between; `MaxDelay` bounds a value and an answer on their way, and one unit uses the
margin of the loop up. Of polls three tell the first, a middle and the last apart. Of
amounts SwapPath has one below the rest that counts as nothing (5 of 10000 to the
token), one whose share is not exact (29999), a part, one token and several. The
invariants and action properties of all runs but MonitorControlShared, which refutes a
comment, are proved for every value of the constants (section 5).

Deadlock is not checked: a program whose inputs are used up and whose process was
stopped has nothing to do. That something still happens is what the liveness
properties say.

**Fairness.** Weak fairness of the tasks of a process: the event loop runs every task
that can go on, and every modelled await ends (answers have timeouts). Weak fairness
of `Start`/`Boot` where a property speaks of restarts: the service is run by a
supervisor (`docker compose`, restart policy). No fairness of producers, callers,
failures, SIGINT or `stop`. Properties name the ways out: the last life the bound
allows, a consumer name that does not run any more, `stop`.

## 4. What disagrees with the code's own words

One run finds a disagreement; the lines are in `PROJECT.json`, "findings".

- *MonitorControlShared*: "the activated addresses". The first PAUSE of any row
  unsubscribes the wallet for everyone who follows it, until the tracker restarts.

Each module ends with a section of statements a comment or docstring makes and TLC
refutes. The others, which no run lists (to see a trace, name the statement in the
module's configuration):

| Module | Statement | What happens |
|---|---|---|
| StreamConsumer | `SetupKeepsGroup` | setup destroys an existing group with nothing pending and delivers everything stored again |
| | `AllPendingRead` (`BatchSize = 1`), `StopObeyed` | one read of the pending messages per start; the loop only tests its flag between batches |
| SwapEventConsumer (run TradingPipeline) | `AllConsumersStart` | `await consumer.start()` in a loop runs the first one only |
| TradingPipeline | `FailureMeansUnsent` | a "failed" result without hash for a swap that was submitted, when what follows fails |
| | `ShutdownWaits` | SIGINT cancels the swaps before `stop()` waits for them |
| GeyserSubscriber | `StopTerminates`, `WorkersFinishFirst` | `join()` waits for items no worker takes any more; workers are cancelled at work |
| | `MonitoringGoesOn`, `ConfiguredWalletsStreamed` | a stream that ends without error blocks the loop; the first request is a ping without wallets |
| AccountLogMonitor | `MappingRight` | two requests before the first result: the first id is filed under the second wallet |
| | `SubscribedAgain`, `UnsubscribeWorks` (`InitWallets = {w1}` for the first) | wallets unsubscribed before their result arrived stay subscribed at the node |
| TxIntake | `OneEventPerTransaction` | a transaction that mentions two watched wallets is notified, parsed and published twice |
| CopyTrade | `PausedNotCopied` | `A and B` of two SQL expressions is one of them: paused copy trades are followed |
| | `NoSellRespected`, `ToldIsQueued` | no_sell is read by nothing; a copy whose XADD failed is announced |
| SwapPath | `CloseSellsAll`, `ExpiredMeansAbsent` | a closing sale of less than a token sells a part; a finalized transaction is recorded as expired |
| | `MeteoraRouted`, `OneBudget` | a string is compared with a Pubkey; a fee without Jito sets the budget twice |
| | `CopiesTheShare` | a copied sale says `pct` and carries a number of tokens: Pump sells everything from one token on, Raydium that many per cent, only Jupiter the share that was meant |
| TelegramBot | `CardIsRead` | a card shows what was typed: 2.3 per cent is stored as 2.29 and read as 2, 0.00001 SOL is read as nothing |
| | `OrderFromWallet` | an order under way goes out from the wallet an import has replaced |
| | `AnswerBuysPrompted` | the token is put into the data before its prompt is sent, so that an answer to one prompt buys the token of the next |
| Caches | `FilledAtRest` | a SET whose answer is a second late expires while the loop still sleeps |
| TokenRoute (run Caches) | `LaunchFollowed` | "not launched" is kept without expiry: a token that left its curve is still sent to Pump |

## 5. Proofs

`LibraryProofs` proves of StreamConsumer, for every set of payloads, every batch
size, retry limit, MAXLEN and number of failures and restarts (`ConstantsAssumption`):

- `InvHolds`: `Spec => []Inv`, with `TypeCorrect`, `NothingLost` (`NoSilentLoss`) and
  `DeadLettersJustified` as consequences;
- `AcksAnswered`: `Spec => AckedIsAnswered`, an action property;
- `CallbackBounded`: `Spec => []WorkedOnce`.

The argument. `NoSilentLoss` speaks of Redis, and is not inductive: whether XACK may
remove an entry depends on what the consumer did at earlier awaits. `Inv` adds
`GroupInv` (when there is a group at all), `PelInv` (pending entries were delivered,
and are stored or were trimmed), `ItemInv` (the message in hand has the fields of
its entry, or none because it was trimmed) and `StepInv` (what each await may assume:
before XACK the callback returned; before the retry's XACK a copy with one more
retry waits for delivery; before the dead letter's XACK the dead letter is stored).
Each conjunct has a step lemma with one case per action. Two lemmas carry the loss
argument: `Accounted` (a step that keeps what was pending and undelivered accounted
for, and what it adds, keeps all) and `SafeQuiet` (a step that leaves the Redis side
alone). `Grows` says what no step takes back: entries, handled, missed and dead events.

`WorkedOnce` concerns one life without failing commands and needs a strengthening of its
own, `OnceInv`. An entry is `Live` as long as it may still be handed over, from the stream
or from the batch in memory. Each live entry is the last one of its event (`Newest`), so
that two live entries, or a live one and the message in hand, are about different events
(`Apart`); and it is `Ready`: its event did not come to an end and was handed over no
more often than the entry's retry count says. A retry copy is the newest entry of
its event and allows one call more, which is the call that was made.

`WalletTrackerProofs` proves of TxIntake, for any sets of notifications, endpoints and
workers (the two pools disjoint) and any number of failures and restarts:

- `InvHolds`: `Spec => []Inv`, with `NothingLost` (`NothingVanishes`) and `OneEvent`
  (`PublishedOnce`: one event for a notification) as consequences.

`PublishedOnce` is not inductive: that a worker may publish depends on the notification
not being anywhere before it. An LPUSH whose answer is lost really does leave one
in two places, the list of details and the hand of a worker about to file it
as failed. `Forward` says which two places are possible: before the first pool, and in
its hands but for that stage, only if nothing later has seen it; in the list of details
only if no parser has; in a parser's hand only if unanswered. A step concerns one
notification and one hand; `OtherStays` disposes of all other notifications, `HandStep`
of all other hands, and each action's case is left with its own. The transaction a
notification is about plays no part: nothing in the two pools tells two of them apart.

`LibraryProofs` proves its refinement too, `StreamImplementsQueue`: `Spec =>
ImplementsQueue` for all constants. Every action is either quiet for the queue
(`QuietStep`), settles its message (`SettleStep`) or gives up or repeats an entry
(`AckQueueStep`, `Retries`). `Inv` decides whether an entry may leave the PEL, and
`NoSilentLoss` says what a group that is created anew will find.

`TradingProofs` proves, for any events, consumers, tasks, tries, failures and
restarts, `TradingCorrect` (`TradingSpec => []TradingInv`), `AckedFinal` (`AckedIsFinal`)
and `EndsAnswered` (`TaskEndsAnswered`). That an event is handed over once in a life is
not inductive: it depends on all the places an event may still come from. `Handable(e)`
names them, among them a batch not yet worked off and a consumer that has not started;
within a life it only goes from true to false, and a hand-over makes it false
(`HandedOnce`, part of what every step of the consumer is shown to be, `Orderly`).
`Located`, `Staged` and `Counted` say where an event is, what its task may assume and how
often it was handed over; `Swapped` follows the detached task through its retries.
`OneTask` and `OneSwap` dispose of the other events, `QuietKeeps` of the steps that only
move the read loop.

`CopyTradeProofs` proves `CopyTradeCorrect` (`Spec => []Inv`) and `AckedStays`
(`AckedIsFinal`), for any events, copy trades, batch sizes, failures, edits and restarts.
`Kept` says where a delivered event is and why it may be idle, `Served` that the
followers not yet served are those with a copy under way, `Copied` that an event that
can still reach its callback in this life (`Fresh`), or a copy that has not yet queued
its swap, leaves room for one more.

`LibraryProofs` proves of Caches `CachesCorrect` (`CachesSpec => []CachesInv`), for any
interval, delays, number of caches, swaps and pools and any length of the sorted set.
The preloader and the route share no variable, so that each has its own invariant.
`PreloaderIInv` relates the age of a value to the timer of its key and of its task, and
the expiry of the key to the sleep of the loop: with what the answer of the SET took
(`age`), the one outlives the other, so that a resting loop's key is missing for no
longer than that. For the route, `RaceAbsorbed` says that a swap fails with "no pool"
only if a call failed or the API named a second pool; for the induction `RouteIInv` adds
what holds as long as neither has happened (`Calm`): a swap that builds will find a pool
and its data, and no trim removes the only one (`Lucky`). `StoppedForGood` proves
`StaysStopped` from the same invariant: caches are started only before the event of the
shutdown, and `stop()` turns to them only after it.

`GeyserProofs` proves `GeyserCorrect` (`Spec => []Inv`, that is `InSync`, `CountExact` and
`NothingDropped`), for any wallets, queue size, workers, attempts, transactions, failures
and calls. `Life` is what the stages of the subscriber exclude: `stop()` has not begun
while it runs, attempts are counted only while connecting, nothing is subscribed before
the first request. `Kept` follows a response from the hand of the monitor through the
queue and a worker to Redis, one lemma for each way it moves (`AppendQueue`, `TailQueue`);
`CountExact` is an equation between the counter and a cardinality.

`WalletTrackerProofs` proves `LogMonitorCorrect` (`LogSpec => []LogInv`), for any wallets,
attempts, calls and lost connections. `BooksTracked` speaks of a monitor at rest, and a
result may be filed under another wallet than the one it is for, after which the books are
right only because nobody rests: a result nobody waits for leads to a new connection. So
`LogIInv` says what holds while no result is late (`OnTime`): `Outstanding` counts the
requests sent and the results on their way or in hand, and when there is at most one and the
slot holds its wallet, each wallet in the books has its subscription, or is queued, or is in
the subscribing task's hand (`Right`). Once a result is late one stays late until the
connection is given up. `LockInv` is the asyncio lock with its waiters: `sub` and `unsub` can
send only at its head.

`MonitorControlProofs` proves `ControlCorrect` (`Spec => []Inv`, `WatchedAgrees`),
`ChangesAnnounced` (`AnnouncedFirst`) and `CallsAllOrNothing` (`AllOrNothing`), for any
rows, chats, wallets, calls, failures and restarts. `Viewed` is what the tracker will think
of a wallet when it has caught up: by the last event for it on the channel, or else by what
it watches and has read. `ControlIInv` says of a wallet that is not `disturbed` that one call
at most concerns it (`Alone`), that this call finds its rows as it read them (`Stable`), and
that the tracker's view is that of the call which told it, or else that of the rows
(`Followed`). A call that was overheard by an earlier life of the tracker only (`Owed`) is
what the fifth cause is about. `CallInv` says what is announced at each stage of a call;
all that `rows` may change follows from the last stage, the commit.

`TradingProofs` proves of SwapPath `SwapCorrect` (`Spec => []Inv`, that is `AskedIsTraded`,
`ShareFollows` and `RecordHonest`) and `NothingOversold` (`[]NeverOversells`), for every
holding, amount, decimals, share and number of polls. `ShareFollows` is about what Jupiter is
asked to sell, the one way that takes the number of tokens for what it is; for Pump and Raydium
it is false (`CopiesTheShare`, section 4). `Placed` says what an order means in
tokens whichever unit it claims, and no route sells more than that. `Near` bounds the
rounding of the share to four digits and `Alike` what is left of it in the amount asked
for (`Followed`); quotients enter only through the lemmas on `\div` (`DivBounds`).

`TelegramBotProofs` proves `BotCorrect` (`Spec => []Inv`), `DeletedForGood`
(`DeletedStaysDeleted`) and `OrdersRight` (`OrderAsAsked`), and `TelegramBotCards`, which
extends it, `FormShownIsSaved` (`Spec => []FormSaved`), for any number of updates in hand
and still to come, users, codes, wallets, readers and failures (`BotAssumption`: wallets
are numbered from 1, limits are numbers, and `None` is no number, user, code, state of a
chat or form). A part of the bot changes only variables of its own, so that `PartIInv`
has one invariant for each.

- *Copy trades and monitors.* `Dialogue(V, D, N)` is the invariant of a dialogue that saves
  forms with values in V: forms and rows have values in V, a call with steps that need a
  form (N) has one, and what is about to be written makes a value of V out of every row it
  may be written to (`Fits`). The last is what keeps `follow` and `noSell` apart although
  the UPDATE names only the columns that differed when the row was read: of two values of V
  both of these columns differ or neither.
- *Trading.* An order is made many awaits after the button. `Sure(steps, K, ...)` says that
  from what a handler knows (K, facts such as "its form is what is saved", "the token it
  carries is the one asked for") each of its steps has what it needs, a step adding and
  removing facts as in a type system; every handler is checked against it once
    (`TradeStarts`), every step once for all handlers (`GoesKeeps`, `TradeMoves`). These facts
  hold as long as only one call works on the setting, which is what `clash` says, and give
  the second half of `OrderAsAsked`: the mode, the wallet and the token of the moment. The
  first half has handlers overlap as they like. `StrayIInv` is its invariant: while no call
  has failed and nothing is `astray`, `Unstray` says that the wallet in the data, and in every
  hand, was the chat's when the handler began or asked for it, or is about to be cleared by
  the import that replaced it, and that the token in the data is that of the prompt on the
  screen or of one on its way.
- *Cards* (`TelegramBotCards`). `FormSaved` speaks of the moments when nobody is at work; in between the card
  and the row differ, and the invariant says why. `SavedOrDue`: where a field of the form
  and its column do not agree (`Agrees`: the column is what writing the field gives, or the
  field what reading the column gives), some call in hand still saves it (`WillSave`): it has
  the row to read yet, or carries the column in what it will commit. That carries over from step to step
  because what a call is about to write is the columns of the form (`Exact`), because a call that
  saves works on the form in the data (`Current`), and because of the order of awaits: a save
  reads its row, commits at once and does no more with the table (`Ordered`). The
  hard cases are the ways back to a card: a handler may leave it, replace the form by
  another row's or delete it, and only those that load a row first lead to the card again
  (`Opens`, `Closes`); a form that is being created has no row (`NewKept`, `NewMonitor`), so
  that nothing is owed. `Treated` is the invariant's view of a handler that changes a field,
  `TreatedCards` its step for all of them; `CardInv` holds for any dialogue described by
  such a record of names (`CopyCards`, `MonitorCards`). All of it but `Regular` is under
  `~clash`: two handlers on one field really overwrite one another. For a setting
  of the trading part `FormSaved` is `DataSaved` of `TradeIInv`.
- *Access.* `AccessInv` counts codes against the licence. Between its two queries and its
  commit an activation holds a licence read before; without a clash it is the only one
  of its user and its code, so that what it read is still so (`Alone`).
- *Notifications.* A message on its way to a reader is counted with those that arrived
  (`ToldOf`).

Only model-checked: liveness under fairness, which the prover cannot express.

## 6. Not modelled

- The views of the bot: wording, keyboards, formatting; the parsing of numbers beyond
  accepted or not.
- The commands whose handlers the bot never reaches, and functions nothing calls:
  `active_all`, `deduct_user_time`, `set_default`, `TxMonitor.stop`, `parser/pump.py`, the
  second half of `notify/smart_swap.py`, the stop-loss handlers, all commented out or unused.
- Of the swap's path the prices, the slippage and the accounts of the instructions; of
  the parser the search for mint, owner and program in the JSON of a transaction.
- The caches that keep one value per key (token information, accounts, balances): nothing
  depends on the order of their steps.
- What the properties of the bot except, since the code decides nothing (the models have it):
  cards that two handlers set in the same field, or after a failed call (`clash` in Chat); two
  sessions that use one code; orders after a failed call, which may skip the `state.clear` of
  an import and leave the deleted wallet in the data for good, and after a menu put it back or
  prompts crossed (`astray`). `PROJECT.json`, "hazards", names them.
- Outside by nature: the Solana node, Geyser, Helius and Jupiter (outcomes only), the
  generated gRPC code, byte layouts. Exceptions that are no `Exception` other than
  CancelledError, and a Redis that loses acknowledged writes.

## 7. What remains

An abstract subscriber that both GeyserSubscriber and
AccountLogMonitor implement, and that MonitorControl could use in place of its own `watched`.
