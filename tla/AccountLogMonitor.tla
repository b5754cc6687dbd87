--------------------------- MODULE AccountLogMonitor ---------------------------
(***************************************************************************)
(* wallet_tracker.wss AccountLogMonitor: the main loop that connects to    *)
(* the RPC websocket, receives messages and reconnects, and the two tasks  *)
(* that send the queued subscriptions and unsubscriptions.  An action runs *)
(* from one await that may suspend to the next: Queue.get on an empty      *)
(* queue, the lock when somebody has it, sending, receiving and sleeping.  *)
(*                                                                         *)
(* The node is outside: it gives one filter the same subscription id as    *)
(* long as the connection lives, so the wallet stands for its id.  Log     *)
(* notifications touch none of this state and are left out.                *)
(***************************************************************************)
EXTENDS Naturals, Sequences, FiniteSets, SequencesExt

CONSTANTS
  Wallet,
  None,             \* no wallet
  InitWallets,      \* init_wallets
  MaxRetries,       \* max_retries (5 in the code)
  MaxCalls,         \* bound: calls of (un)subscribe_wallet_transactions
  MaxLosses         \* bound: lost connections and failing attempts

ASSUME MonitorAssumption ==
  /\ None \notin Wallet /\ InitWallets \subseteq Wallet /\ IsFiniteSet(InitWallets)
  /\ MaxRetries \in Nat /\ MaxCalls \in Nat /\ MaxLosses \in Nat

VARIABLES
  subQ, unsubQ,     \* waitting_subscribe_wallet, waitting_unsubscribe_wallet
  ids,              \* subscription_ids: the id the wallet is mapped to
  subscribed,       \* subscribed_wallets
  slot,             \* waitting_subscribe_response_wallet
  lock,             \* subscribe_lock: who holds it, then who waits, in order
  main, result,     \* await of start(), subscription id it handles
  retry,            \* retry_count
  running,          \* is_running
  sub, subWallet,   \* await of __subscribe_task, wallet in hand
  unsub, unsubWallet,
  open,             \* the connection is up
  server,           \* wallets the node has a subscription of
  inbox,            \* subscription results on their way
  \* history, never read by the code
  wanted,           \* wallets subscribed last, rather than unsubscribed
  dropped,          \* wallets an unsubscription was ever asked for
  confirmed,        \* wanted wallets the node has had a subscription of
  calls, losses

client == <<ids, subscribed, slot, lock>>
loop   == <<main, result, retry, running>>
tasks  == <<sub, subWallet, unsub, unsubWallet>>
node   == <<open, server, inbox>>
ghosts == <<wanted, dropped, calls>>
logVars == <<subQ, unsubQ, client, loop, tasks, node, ghosts, confirmed, losses>>

\* The queues hold wallets, a mapped subscription id is one the node gave out,
\* and the counters stay within their bounds.
LogTypeOK ==
  /\ subQ \in Seq(Wallet) /\ unsubQ \in Seq(Wallet)
  /\ ids \in [Wallet -> Wallet \cup {None}]
  /\ subscribed \subseteq Wallet
  /\ slot \in Wallet \cup {None} /\ result \in Wallet \cup {None}
  /\ lock \in Seq({"main", "sub", "unsub"}) /\ Len(lock) <= 3
  /\ main \in {"dial", "recv", "handle", "cleanup", "pause", "stopped"}
  /\ retry \in 0..(MaxRetries + 1) /\ running \in BOOLEAN
  /\ sub \in {"off", "get", "lock", "send"} /\ unsub \in {"off", "get", "lock", "send"}
  /\ subWallet \in Wallet \cup {None} /\ unsubWallet \in Wallet \cup {None}
  /\ open \in BOOLEAN /\ server \subseteq Wallet /\ inbox \in Seq(Wallet)
  /\ wanted \subseteq Wallet /\ dropped \subseteq Wallet /\ confirmed \subseteq Wallet
  /\ calls \in 0..MaxCalls /\ losses \in 0..MaxLosses

LogInit ==
  /\ subQ = <<>> /\ unsubQ = <<>>
  /\ ids = [w \in Wallet |-> None] /\ subscribed = {} /\ slot = None /\ lock = <<>>
  /\ main = "dial" /\ result = None /\ retry = 0 /\ running = TRUE
  /\ sub = "off" /\ subWallet = None /\ unsub = "off" /\ unsubWallet = None
  /\ open = FALSE /\ server = {} /\ inbox = <<>>
  /\ wanted = InitWallets /\ dropped = {} /\ confirmed = {} /\ calls = 0 /\ losses = 0

Fault == losses < MaxLosses /\ losses' = losses + 1

-----------------------------------------------------------------------------
(***************************************************************************)
(* Calls of the transaction subscriber                                     *)
(***************************************************************************)
Subscribe(w) ==
  /\ calls < MaxCalls /\ calls' = calls + 1
  /\ subQ' = Append(subQ, w) /\ wanted' = wanted \cup {w}
  /\ UNCHANGED <<unsubQ, client, loop, tasks, node, dropped, confirmed, losses>>

Unsubscribe(w) ==
  /\ calls < MaxCalls /\ calls' = calls + 1
  /\ w \in wanted
  /\ unsubQ' = Append(unsubQ, w)
  /\ wanted' = wanted \ {w} /\ dropped' = dropped \cup {w}
  /\ confirmed' = confirmed \ {w}
  /\ UNCHANGED <<subQ, client, loop, tasks, node, losses>>

(***************************************************************************)
(* start                                                                   *)
(***************************************************************************)
Disconnects == open' = FALSE /\ server' = {} /\ inbox' = <<>>

\* stop() during the connecting lets connect() succeed and leaves the loop.
Connect ==
  /\ main = "dial"
  /\ main' = "recv" /\ retry' = 0
  /\ open' = running
  /\ subQ' = subQ \o SetToSeq(InitWallets)
  /\ sub' = (IF running THEN "get" ELSE "off") /\ unsub' = sub'
  /\ UNCHANGED <<unsubQ, client, result, running, subWallet, unsubWallet, server,
                 inbox, ghosts, confirmed, losses>>

\* subscription_ids.clear(); closing the connection takes a while, and the
\* tasks run on until it is closed.
CleansUp ==
  /\ main' = "cleanup"
  /\ ids' = [w \in Wallet |-> None]
  /\ Disconnects

DialFails ==
  /\ main = "dial" /\ Fault
  /\ CleansUp
  /\ UNCHANGED <<subQ, unsubQ, subscribed, slot, lock, result, retry, running,
                 tasks, ghosts, confirmed>>

\* Messages that arrived before are still received.
ConnectionLost ==
  /\ open /\ Fault
  /\ open' = FALSE /\ server' = {}
  /\ \E n \in 0..Len(inbox) : inbox' = SubSeq(inbox, 1, n)
  /\ UNCHANGED <<subQ, unsubQ, client, loop, tasks, ghosts, confirmed>>

NoticeIgnored ==        \* mutant: the error of recv() is logged, the loop goes on
  /\ main = "recv" /\ ~open /\ inbox = <<>>
  /\ UNCHANGED logVars

NoticeLoss ==
  /\ main = "recv" /\ ~open /\ inbox = <<>>
  /\ CleansUp
  /\ UNCHANGED <<subQ, unsubQ, subscribed, slot, lock, result, retry, running,
                 tasks, ghosts, confirmed, losses>>

MapsUnrecorded(r) ==    \* mutant: the wallet is not added to subscribed_wallets
  /\ ids' = [ids EXCEPT ![slot] = r]
  /\ subscribed' = subscribed
  /\ slot' = None

\* process_subscribe_result with the lock: the wallet in the slot - by now
\* perhaps not the one the result is for.
Maps(r) ==
  /\ ids' = [ids EXCEPT ![slot] = r]
  /\ subscribed' = subscribed \cup {slot}
  /\ slot' = None

\* A result nobody waits for is an error, and every error leads to a new
\* connection.
Receive ==
  /\ main = "recv" /\ inbox # <<>>
  /\ \/ /\ slot = None
        /\ CleansUp /\ UNCHANGED <<subscribed, slot, lock, result>>
     \/ /\ slot # None /\ lock = <<>>
        /\ Maps(Head(inbox)) /\ inbox' = Tail(inbox)
        /\ UNCHANGED <<main, open, server, lock, result>>
     \/ /\ slot # None /\ lock # <<>>
        /\ main' = "handle" /\ lock' = Append(lock, "main")
        /\ result' = Head(inbox) /\ inbox' = Tail(inbox)
        /\ UNCHANGED <<ids, subscribed, slot, open, server>>
  /\ UNCHANGED <<subQ, unsubQ, retry, running, tasks, ghosts, confirmed, losses>>

HandleResult ==
  /\ main = "handle" /\ Head(lock) = "main"
  /\ Maps(result)
  /\ main' = "recv" /\ lock' = Tail(lock) /\ result' = None
  /\ UNCHANGED <<subQ, unsubQ, retry, running, tasks, node, ghosts, confirmed, losses>>

\* The tasks are cancelled, with what they had in hand; the main loop may wait for
\* the lock.
CancelTasks ==
  /\ sub' = "off" /\ unsub' = "off" /\ subWallet' = None /\ unsubWallet' = None
  /\ lock' = IF main = "handle" THEN <<"main">> ELSE <<>>

EndCleanup ==
  /\ main = "cleanup"
  /\ CancelTasks
  /\ retry' = retry + 1
  /\ main' = IF retry + 1 > MaxRetries THEN "stopped" ELSE "pause"
  /\ running' = (running /\ main' = "pause")
  /\ UNCHANGED <<subQ, unsubQ, ids, subscribed, slot, result, node, ghosts,
                 confirmed, losses>>

EndPauseForgetful ==    \* mutant: subscribed wallets are not queued again
  /\ main = "pause"
  /\ main' = IF running THEN "dial" ELSE "stopped"
  /\ UNCHANGED <<subQ, unsubQ, client, result, retry, running, tasks, node, ghosts,
                 confirmed, losses>>

EndPauseDeaf ==         \* mutant: the loop does not look at is_running
  /\ main = "pause" /\ main' = "dial"
  /\ subQ' = subQ \o SetToSeq(subscribed)
  /\ UNCHANGED <<unsubQ, client, result, retry, running, tasks, node, ghosts,
                 confirmed, losses>>

\* The next round of the loop queues the subscribed wallets again.
EndPause ==
  /\ main = "pause"
  /\ IF running THEN main' = "dial" /\ subQ' = subQ \o SetToSeq(subscribed)
                ELSE main' = "stopped" /\ UNCHANGED subQ
  /\ UNCHANGED <<unsubQ, client, result, retry, running, tasks, node, ghosts,
                 confirmed, losses>>

\* stop(): is_running, and a cleanup of its own, in one step.
Stop ==
  /\ running
  /\ running' = FALSE
  /\ Disconnects /\ CancelTasks
  /\ UNCHANGED <<subQ, unsubQ, ids, subscribed, slot, main, result, retry, ghosts,
                 confirmed, losses>>

(***************************************************************************)
(* __subscribe_task and subscribe_wallet                                   *)
(***************************************************************************)
\* The lock is free: the slot is set and the request on its way.
SubGet ==
  /\ sub = "get" /\ subQ # <<>>
  /\ subWallet' = Head(subQ) /\ subQ' = Tail(subQ)
  /\ lock' = Append(lock, "sub")
  /\ IF lock = <<>> THEN sub' = "send" /\ slot' = subWallet'
                    ELSE sub' = "lock" /\ UNCHANGED slot
  /\ UNCHANGED <<unsubQ, ids, subscribed, loop, unsub, unsubWallet, node, ghosts,
                 confirmed, losses>>

SubLock ==
  /\ sub = "lock" /\ Head(lock) = "sub"
  /\ sub' = "send" /\ slot' = subWallet
  /\ UNCHANGED <<subQ, unsubQ, ids, subscribed, lock, loop, subWallet, unsub,
                 unsubWallet, node, ghosts, confirmed, losses>>

\* Sending on a closed connection raises, and the wallet is forgotten.
SubSend ==
  /\ sub = "send"
  /\ sub' = "get" /\ lock' = Tail(lock) /\ subWallet' = None
  /\ IF open
     THEN /\ server' = server \cup {subWallet} /\ inbox' = Append(inbox, subWallet)
          /\ confirmed' = confirmed \cup ({subWallet} \cap wanted)
     ELSE UNCHANGED <<server, inbox, confirmed>>
  /\ UNCHANGED <<subQ, unsubQ, ids, subscribed, slot, loop, unsub, unsubWallet,
                 open, ghosts, losses>>

(***************************************************************************)
(* __unsubscribe_task and unsubscribe_wallet                               *)
(***************************************************************************)
\* unsubWallet is the wallet while the task waits for the lock and the
\* subscription id while it sends.
Unmaps(w) ==
  /\ ids' = [ids EXCEPT ![w] = None]
  /\ subscribed' = subscribed \ {w}
  /\ unsub' = "send" /\ unsubWallet' = ids[w]

\* A wallet without a subscription id is not waited for: it is skipped.
UnsubGet ==
  /\ unsub = "get" /\ unsubQ # <<>>
  /\ unsubQ' = Tail(unsubQ)
  /\ LET w == Head(unsubQ) IN
     \/ /\ ids[w] = None
        /\ UNCHANGED <<ids, subscribed, lock, unsub, unsubWallet>>
     \/ /\ ids[w] # None /\ lock = <<>>
        /\ Unmaps(w) /\ lock' = <<"unsub">>
     \/ /\ ids[w] # None /\ lock # <<>>
        /\ lock' = Append(lock, "unsub")
        /\ unsub' = "lock" /\ unsubWallet' = w
        /\ UNCHANGED <<ids, subscribed>>
  /\ UNCHANGED <<subQ, slot, loop, sub, subWallet, node, ghosts, confirmed, losses>>

\* The mapping may have been cleared while the task waited for the lock: a
\* KeyError, logged.
UnsubLock ==
  /\ unsub = "lock" /\ Head(lock) = "unsub"
  /\ IF ids[unsubWallet] = None
     THEN /\ unsub' = "get" /\ unsubWallet' = None /\ lock' = Tail(lock)
          /\ UNCHANGED <<ids, subscribed>>
     ELSE Unmaps(unsubWallet) /\ UNCHANGED lock
  /\ UNCHANGED <<subQ, unsubQ, slot, loop, sub, subWallet, node, ghosts,
                 confirmed, losses>>

UnsubSend ==
  /\ unsub = "send"
  /\ unsub' = "get" /\ lock' = Tail(lock) /\ unsubWallet' = None
  /\ server' = IF open THEN server \ {unsubWallet} ELSE server
  /\ UNCHANGED <<subQ, unsubQ, ids, subscribed, slot, loop, sub, subWallet, open,
                 inbox, ghosts, confirmed, losses>>

-----------------------------------------------------------------------------
MainStep == Connect \/ NoticeLoss \/ Receive \/ HandleResult \/ EndCleanup \/ EndPause
TaskStep == SubGet \/ SubLock \/ SubSend \/ UnsubGet \/ UnsubLock \/ UnsubSend

LogNext ==
  \/ \E w \in Wallet : Subscribe(w) \/ Unsubscribe(w)
  \/ DialFails \/ ConnectionLost \/ Stop
  \/ MainStep \/ TaskStep

LogSpec == LogInit /\ [][LogNext]_logVars

\* The event loop runs the main loop and both tasks.
LogFairSpec == LogSpec /\ WF_logVars(MainStep) /\ WF_logVars(TaskStep)

-----------------------------------------------------------------------------
(***************************************************************************)
(* Properties                                                              *)
(***************************************************************************)
\* A wallet with a subscription id is in subscribed_wallets, so the remove()
\* of unsubscribe_wallet never raises.
MappedIsSubscribed == \A w \in Wallet : ids[w] # None => w \in subscribed

\* Connected, and nothing left to do.
Quiet ==
  /\ open /\ main = "recv" /\ inbox = <<>>
  /\ subQ = <<>> /\ unsubQ = <<>> /\ sub = "get" /\ unsub = "get"

\* When everything came to rest, each wallet the monitor has in its books is
\* one the node has a subscription of, after any number of reconnections, as
\* long as nobody asked to unsubscribe it.
BooksTracked == Quiet => subscribed \ dropped \subseteq server

\* The monitor's own books, whatever the node answers: their types, no subscription
\* id without the wallet it belongs to, and at rest no wallet without a subscription.
LogInv == LogTypeOK /\ MappedIsSubscribed /\ BooksTracked

\* The monitor never stays without a connection, wherever it lost it: it
\* connects again, or gives up after max_retries.
ComesBack == ~open ~> (open \/ main = "stopped")

\* stop() ends the loop, wherever it is.
StopEnds == ~running ~> (main = "stopped")

(***************************************************************************)
(* What the comments of the code say and the code does not do              *)
(***************************************************************************)
\* "存储钱包地址和订阅ID的映射" (maps a wallet to its subscription id).
MappingRight == \A w \in Wallet : ids[w] \in {w, None}

\* "重新连接时，需要将已订阅的钱包重新进行订阅" (after a reconnection the wallets
\* that were subscribed have to be subscribed again).
SubscribedAgain == Quiet => confirmed \subseteq server

\* unsubscribe_wallet "取消订阅单个钱包" (unsubscribe a wallet): at rest the node
\* has no subscription of a wallet that was unsubscribed.
UnsubscribeWorks == Quiet => server \subseteq wanted
=============================================================================
