--------------------------- MODULE GeyserSubscriber ---------------------------
(***************************************************************************)
(* wallet_tracker.geyser TransactionDetailSubscriber: a monitor task that  *)
(* reads the gRPC stream into a bounded queue, worker tasks that move the  *)
(* queue into the Redis list of transactions, the subscription requests    *)
(* that replace each other on the server, and stop().                      *)
(*                                                                         *)
(* All of it shares one event loop.  When the server ends the stream       *)
(* normally, `async for` over the exhausted generator returns without      *)
(* suspending, and the `while` around it never gives the loop back: in     *)
(* that state ("spin") no other task takes a step.                         *)
(***************************************************************************)
EXTENDS Integers, Sequences, FiniteSets

CONSTANTS
  Wallet,           \* the wallets that can be subscribed
  InitWallets,      \* the wallets given to the constructor
  QueueSize,        \* maxsize of response_queue (1000 in the code)
  NumWorkers,       \* worker_nums
  MaxRetries,       \* max_retries
  MaxTx,            \* bound: transactions the server sends
  MaxFaults,        \* bound: failures of the stream, of connect and of LPUSH
  MaxCalls          \* bound: calls of (un)subscribe_wallet_transactions

ASSUME GeyserAssumption ==
  /\ InitWallets \subseteq Wallet
  /\ QueueSize \in Nat \ {0} /\ NumWorkers \in Nat \ {0} /\ MaxRetries \in Nat \ {0}
  /\ MaxTx \in Nat /\ MaxFaults \in Nat /\ MaxCalls \in Nat

Worker == 1..NumWorkers
Tx == 1..MaxTx
Idle == 0         \* a worker in response_queue.get()
Gone == -1        \* a worker that returned, was cancelled or never started

VARIABLES
  subscribed,   \* subscribed_wallets
  requests,     \* request_queue of the current stream
  server,       \* the wallets the server filters for on that stream
  retry,        \* retry_count
  running,      \* is_running
  monitor,      \* the await of the monitor task (of start() before it exists)
  hand,         \* the response the monitor task holds at queue.put(), or 0
  queue,        \* response_queue
  unfinished,   \* its count of items not yet task_done()
  job,          \* what each worker processes
  stopper,      \* the await of stop()
  \* history, never read by the code
  received, stored, failed, faults, calls

stream   == <<subscribed, requests, server, retry>>
pipeline == <<hand, queue, unfinished, job>>
ghosts   == <<received, stored, failed, calls>>
vars     == <<stream, running, monitor, pipeline, stopper, ghosts, faults>>

\* The queue stays within its size, each worker is between two jobs or in one,
\* and the monitor is at one of its awaits.
TypeOK ==
  /\ subscribed \subseteq Wallet /\ server \subseteq Wallet
  /\ requests \in Seq(SUBSET Wallet)
  /\ retry \in 0..MaxRetries
  /\ running \in BOOLEAN
  /\ monitor \in {"off", "boot", "raised", "read", "put", "pause", "connect",
                 "spin", "dead", "done"}
  /\ hand \in Tx \cup {0} /\ (monitor = "put" <=> hand # 0)
  /\ queue \in Seq(Tx) /\ Len(queue) <= QueueSize
  /\ unfinished \in Nat
  /\ job \in [Worker -> Tx \cup {Idle, Gone}]
  /\ stopper \in {"no", "join", "cancel", "done"}
  /\ received \in 0..MaxTx
  /\ stored \subseteq Tx /\ failed \subseteq Tx
  /\ faults \in 0..MaxFaults /\ calls \in 0..MaxCalls

Init ==
  /\ subscribed = InitWallets /\ requests = <<>> /\ server = {} /\ retry = 0
  /\ running = FALSE /\ monitor = "off"
  /\ hand = 0 /\ queue = <<>> /\ unfinished = 0
  /\ job = [w \in Worker |-> Gone]
  /\ stopper = "no"
  /\ received = 0 /\ stored = {} /\ failed = {} /\ faults = 0 /\ calls = 0

Fault == faults < MaxFaults /\ faults' = faults + 1

-----------------------------------------------------------------------------
(***************************************************************************)
(* start, _connect and _reconnect_and_subscribe                            *)
(***************************************************************************)
Start ==
  /\ monitor = "off"
  /\ running' = TRUE /\ monitor' = "boot"
  /\ job' = [w \in Worker |-> Idle]
  /\ UNCHANGED <<stream, hand, queue, unfinished, stopper, ghosts, faults>>

OpensSilently(request) == requests' = <<>> /\ server' = {} /\ retry' = 0   \* mutant: the request is not sent

\* A new stream starts with the request it was opened with.
Opens(request) == requests' = <<request>> /\ server' = {} /\ retry' = 0

Goes(await) == monitor' = IF running THEN await ELSE "done"

ConnectFails ==
  /\ Fault
  /\ retry' = retry + 1
  /\ UNCHANGED <<requests, server>>

\* The first request is a ping, whatever wallets are configured.
FirstConnect ==
  /\ monitor = "boot"
  /\ \/ Opens({}) /\ Goes("read") /\ UNCHANGED faults
     \/ ConnectFails /\ monitor' = IF retry + 1 < MaxRetries THEN "boot" ELSE "raised"
  /\ UNCHANGED <<subscribed, running, pipeline, stopper, ghosts>>

\* An error of the stream: the old request queue has no reader any more.
StreamBreaks ==
  /\ monitor = "read" /\ Fault
  /\ monitor' = "pause"
  /\ UNCHANGED <<stream, running, pipeline, stopper, ghosts>>

EndPause ==
  /\ monitor = "pause"
  /\ monitor' = "connect"
  /\ UNCHANGED <<stream, running, pipeline, stopper, ghosts, faults>>

ReconnectWithPing ==    \* mutant: reconnecting repeats the first request
  /\ monitor = "connect"
  /\ Opens({}) /\ Goes("read")
  /\ UNCHANGED <<subscribed, running, pipeline, stopper, ghosts, faults>>

\* An exception of the last attempt ends the monitor task, and nothing else.
Reconnect ==
  /\ monitor = "connect"
  /\ \/ Opens(subscribed) /\ Goes("read") /\ UNCHANGED faults
     \/ ConnectFails /\ monitor' = IF retry + 1 < MaxRetries THEN "connect" ELSE "dead"
  /\ UNCHANGED <<subscribed, running, pipeline, stopper, ghosts>>

\* The server ends the stream without an error.
StreamEnds ==
  /\ monitor = "read" /\ Fault
  /\ Goes("spin")
  /\ UNCHANGED <<stream, running, pipeline, stopper, ghosts>>

ReceiveNoWait ==        \* mutant: put_nowait, an exception when the queue is full
  /\ monitor = "read" /\ received < MaxTx
  /\ received' = received + 1
  /\ IF running /\ Len(queue) < QueueSize
     THEN /\ queue' = Append(queue, received') /\ unfinished' = unfinished + 1
          /\ UNCHANGED monitor
     ELSE Goes("pause") /\ UNCHANGED <<queue, unfinished>>
  /\ UNCHANGED <<stream, running, hand, job, stopper, stored, failed, calls, faults>>

(***************************************************************************)
(* Responses                                                               *)
(***************************************************************************)
Receive ==
  /\ monitor = "read" /\ received < MaxTx
  /\ received' = received + 1
  /\ \/ /\ running /\ Len(queue) < QueueSize
        /\ queue' = Append(queue, received') /\ unfinished' = unfinished + 1
        /\ UNCHANGED <<monitor, hand>>
     \/ /\ running /\ Len(queue) = QueueSize
        /\ monitor' = "put" /\ hand' = received'
        /\ UNCHANGED <<queue, unfinished>>
     \/ /\ ~running
        /\ monitor' = "done"
        /\ UNCHANGED <<hand, queue, unfinished>>
  /\ UNCHANGED <<stream, running, job, stopper, stored, failed, calls, faults>>

PutResumes ==
  /\ monitor = "put" /\ Len(queue) < QueueSize
  /\ queue' = Append(queue, hand) /\ unfinished' = unfinished + 1
  /\ hand' = 0 /\ Goes("read")
  /\ UNCHANGED <<stream, running, job, stopper, ghosts, faults>>

Get(w) ==
  /\ monitor # "spin" /\ job[w] = Idle /\ queue # <<>>
  /\ job' = [job EXCEPT ![w] = Head(queue)] /\ queue' = Tail(queue)
  /\ UNCHANGED <<stream, running, monitor, hand, unfinished, stopper, ghosts, faults>>

FinishOrDie(w) ==       \* mutant: an error ends the worker
  /\ monitor # "spin" /\ job[w] \in Tx
  /\ unfinished' = unfinished - 1
  /\ \/ /\ stored' = stored \cup {job[w]} /\ UNCHANGED <<failed, faults>>
        /\ job' = [job EXCEPT ![w] = IF running THEN Idle ELSE Gone]
     \/ /\ failed' = failed \cup {job[w]} /\ Fault /\ UNCHANGED stored
        /\ job' = [job EXCEPT ![w] = Gone]
  /\ UNCHANGED <<stream, running, monitor, hand, queue, stopper, received, calls>>

\* The transaction is pushed to the Redis list, or the error is logged.
Finish(w) ==
  /\ monitor # "spin" /\ job[w] \in Tx
  /\ unfinished' = unfinished - 1
  /\ job' = [job EXCEPT ![w] = IF running THEN Idle ELSE Gone]
  /\ \/ stored' = stored \cup {job[w]} /\ UNCHANGED <<failed, faults>>
     \/ failed' = failed \cup {job[w]} /\ Fault /\ UNCHANGED stored
  /\ UNCHANGED <<stream, running, monitor, hand, queue, stopper, received, calls>>

(***************************************************************************)
(* stop and _stop_workers                                                  *)
(***************************************************************************)
Stop ==
  /\ running /\ monitor \in {"read", "put", "pause", "connect", "dead"} /\ stopper = "no"
  /\ running' = FALSE
  /\ stopper' = IF queue = <<>> THEN "cancel" ELSE "join"
  /\ UNCHANGED <<stream, monitor, pipeline, ghosts, faults>>

Joined ==
  /\ stopper = "join" /\ unfinished = 0
  /\ stopper' = "cancel"
  /\ UNCHANGED <<stream, running, monitor, pipeline, ghosts, faults>>

\* Cancelling the workers drops what they are processing; closing the client
\* cancels the stream the monitor task may still read.
CancelWorkers ==
  /\ stopper = "cancel"
  /\ stopper' = "done"
  /\ job' = [w \in Worker |-> Gone]
  /\ unfinished' = unfinished - Cardinality({w \in Worker : job[w] \in Tx})
  /\ monitor' = IF monitor = "read" THEN "done" ELSE monitor
  /\ UNCHANGED <<stream, running, hand, queue, ghosts, faults>>

(***************************************************************************)
(* (un)subscribe_wallet_transactions, called by TxMonitor once start()     *)
(* returned, and the server that reads the requests.                       *)
(***************************************************************************)
Request(wallets) ==
  /\ subscribed' = wallets
  /\ requests' = Append(requests, wallets)
  /\ calls' = calls + 1
  /\ UNCHANGED <<server, retry, running, monitor, pipeline, stopper, received,
                 stored, failed, faults>>

Callable == calls < MaxCalls /\ monitor \in {"read", "put", "pause", "connect", "dead"}

SubscribeWallet(w) == Callable /\ w \notin subscribed /\ Request(subscribed \cup {w})
UnsubscribeWallet(w) == Callable /\ w \in subscribed /\ Request(subscribed \ {w})

ServerReads ==
  /\ monitor \in {"read", "put"} /\ requests # <<>>
  /\ server' = Head(requests) /\ requests' = Tail(requests)
  /\ UNCHANGED <<subscribed, retry, running, monitor, pipeline, stopper, ghosts, faults>>

-----------------------------------------------------------------------------
MonitorStep == FirstConnect \/ EndPause \/ Reconnect \/ PutResumes
WorkerStep(w) == Get(w) \/ Finish(w)
StopStep == monitor # "spin" /\ (Joined \/ CancelWorkers)

Next ==
  \/ Start \/ MonitorStep \/ StreamBreaks \/ StreamEnds \/ Receive
  \/ \E w \in Worker : WorkerStep(w)
  \/ Stop \/ StopStep
  \/ \E w \in Wallet : SubscribeWallet(w) \/ UnsubscribeWallet(w)
  \/ ServerReads

Spec == Init /\ [][Next]_vars

\* The event loop runs every task that can go on, and the server reads what
\* it is sent.  Nobody has to send transactions, or to call stop().
FairSpec ==
  /\ Spec
  /\ WF_vars(MonitorStep) /\ WF_vars(StopStep) /\ WF_vars(ServerReads)
  /\ \A w \in Worker : WF_vars(WorkerStep(w))

-----------------------------------------------------------------------------
(***************************************************************************)
(* Properties                                                              *)
(***************************************************************************)
Processing == {w \in Worker : job[w] \in Tx}

\* On an open stream the last request on its way, or the one the server has,
\* names exactly subscribed_wallets - also after wallets were added and
\* removed while the connection was down.  (Without configured wallets.)
InSync ==
  (InitWallets = {} /\ monitor \in {"read", "put"}) =>
    subscribed = IF requests = <<>> THEN server ELSE requests[Len(requests)]

\* The queue's count of unfinished items, which join() waits for, is what is
\* queued or being processed.
CountExact == unfinished = Len(queue) + Cardinality(Processing)

\* Until stop(), a received transaction is in the hand of the monitor task,
\* queued, being processed, stored, or failed to be stored.
NothingDropped ==
  running => \A t \in 1..received :
    \/ t = hand \/ \E i \in DOMAIN queue : queue[i] = t
    \/ \E w \in Worker : job[w] = t
    \/ t \in stored \cup failed

\* The subscriber of geyser/tx_subscriber.py keeps its books: the server filters, or
\* will, for what it subscribed to, the queue's count is exact, and no transaction it
\* received is dropped between the stream and Redis.
Inv == TypeOK /\ InSync /\ CountExact /\ NothingDropped

\* A received transaction is eventually stored, or failed to be, unless stop()
\* is called or the stream ended.
EventuallyStored ==
  \A t \in Tx : received >= t ~> (t \in stored \cup failed \/ ~running \/ monitor = "spin")

\* The server always comes back to filter for subscribed_wallets, unless stop()
\* is called, the stream ended or every attempt to connect failed.
ServerFollows ==
  (InitWallets = {}) => []<>(server = subscribed \/ ~running \/ monitor \in {"off", "raised", "spin", "dead"})

(***************************************************************************)
(* What the comments of the code say and the code does not do              *)
(***************************************************************************)
\* start "Start monitoring wallet transactions", for the wallets it logs: an
\* open stream with nothing on its way filters for the configured wallets.
ConfiguredWalletsStreamed ==
  (monitor = "read" /\ requests = <<>> /\ calls = 0) => InitWallets \subseteq server

\* start "Start monitoring wallet transactions": until stop() the monitor task
\* always comes back to reading the stream.
MonitoringGoesOn == running ~> (monitor = "read" \/ ~running)

\* stop "Stop the wallet monitor gracefully": it terminates.
StopTerminates == (stopper # "no") ~> (stopper = "done")

\* stop "等待所有工作协程完成" (wait until all workers are done): none is cancelled
\* while it processes a response.
WorkersFinishFirst == [][CancelWorkers => Processing = {}]_vars
=============================================================================
