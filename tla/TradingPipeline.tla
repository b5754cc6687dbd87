---------------------------- MODULE TradingPipeline ----------------------------
(***************************************************************************)
(* Trading: the tasks that _process_swap_event detaches from the consumer, *)
(* one per event handed over.  A task takes Trading's own semaphore,       *)
(* executes the swap, settles it and publishes a result.  The consumer     *)
(* acknowledges the event as soon as the task exists.                      *)
(*                                                                         *)
(* The executor, the RPC node and Helius are outside: exec either submits  *)
(* one transaction or raises, and httpx raises ConnectError and            *)
(* ConnectTimeout only when nothing was sent.                              *)
(***************************************************************************)
EXTENDS SwapEventConsumer

CONSTANTS
  MaxSwaps,         \* max_concurrent_tasks of Trading
  ExecTries,        \* max_tries of _execute_swap
  RecordTries       \* max_tries of _record_swap_result

ASSUME TradingAssumption ==
  /\ MaxSwaps \in Nat \ {0}
  /\ ExecTries \in Nat \ {0}
  /\ RecordTries \in Nat \ {0}

VARIABLES
  swap,         \* the await the event's swap task is suspended at
  tries,        \* calls of the retried function so far
  \* history, never read by the code
  sent,         \* transactions submitted for the event in this life
  everSent,     \* events a transaction was submitted for
  rows,         \* SwapRecords committed for the event
  results,      \* [event, hash]: the results published, with or without hash
  muted         \* events whose last attempt to publish a result failed

swapVars == <<swap, tries, sent, everSent, rows, results, muted>>
vars == <<consumerVars, swapVars>>

SwapStages == {"none", "waiting", "exec", "settle", "record", "produce", "fail"}

\* Each swap task is at an await of _process_swap_event, and the retried calls
\* never exceed the tries their decorators allow.
TradingTypeOK ==
  /\ swap \in [Event -> SwapStages]
  /\ tries \in [Event -> Nat]
  /\ \A e \in Event :
       /\ swap[e] = "exec" => tries[e] \in 1..ExecTries
       /\ swap[e] \in {"settle", "record", "produce"} => tries[e] \in 1..RecordTries
  /\ sent \in [Event -> Nat] /\ rows \in [Event -> Nat]
  /\ everSent \subseteq Event /\ muted \subseteq Event
  /\ results \subseteq [event : Event, hash : BOOLEAN]

TradingInit ==
  /\ ConsumerInit
  /\ swap = [e \in Event |-> "none"] /\ tries = [e \in Event |-> 0]
  /\ sent = [e \in Event |-> 0] /\ rows = [e \in Event |-> 0]
  /\ everSent = {} /\ results = {} /\ muted = {}

-----------------------------------------------------------------------------
Goes(e, stage, n) ==
  /\ swap' = [swap EXCEPT ![e] = stage]
  /\ tries' = [tries EXCEPT ![e] = n]

Running == {e \in Event : swap[e] \notin {"none", "waiting"}}

BeginSwap(e) ==
  /\ swap[e] = "waiting" /\ Cardinality(Running) < MaxSwaps
  /\ Goes(e, "exec", 1)
  /\ UNCHANGED <<consumerVars, sent, everSent, rows, results, muted>>

\* backoff.on_exception: another call while tries and max_time allow one.
RetryOrFail(e, limit) ==
  \/ tries[e] < limit /\ Goes(e, swap[e], tries[e] + 1)
  \/ Goes(e, "fail", 0)

Submits(e) ==
  /\ sent' = [sent EXCEPT ![e] = @ + 1]
  /\ everSent' = everSent \cup {e}

ExecuteRetryAll(e) ==   \* mutant: backoff on every exception
  /\ swap[e] = "exec"
  /\ \/ Submits(e) /\ Goes(e, "settle", 1)
     \/ Submits(e) /\ RetryOrFail(e, ExecTries)
  /\ UNCHANGED <<consumerVars, rows, results, muted>>

ExecuteSilent(e) ==     \* mutant: a connection error ends the task
  /\ swap[e] = "exec"
  /\ \/ Submits(e) /\ Goes(e, "settle", 1)
     \/ Goes(e, "none", 0) /\ UNCHANGED <<sent, everSent>>
  /\ UNCHANGED <<consumerVars, rows, results, muted>>

\* exec: the transaction is submitted and its signature returned; it is
\* submitted but the answer is lost; a connection error; any other error.
Execute(e) ==
  /\ swap[e] = "exec"
  /\ \/ Submits(e) /\ Goes(e, "settle", 1)
     \/ Submits(e) /\ Goes(e, "fail", 0)
     \/ RetryOrFail(e, ExecTries) /\ UNCHANGED <<sent, everSent>>
  /\ UNCHANGED <<consumerVars, rows, results, muted>>

\* validate and analyze_transaction: no error, a connection error of Helius,
\* any other error (an unknown transaction, a malformed answer).
Settle(e) ==
  /\ swap[e] = "settle"
  /\ Goes(e, "record", tries[e]) \/ RetryOrFail(e, RecordTries)
  /\ UNCHANGED <<consumerVars, sent, everSent, rows, results, muted>>

RecordSkipped(e) ==     \* mutant: a result is published before its record
  /\ swap[e] = "record"
  /\ Goes(e, "produce", tries[e])
  /\ UNCHANGED <<consumerVars, sent, everSent, rows, results, muted>>

\* The commit succeeds, or fails; when only its answer is lost the row is there.
Record(e) ==
  /\ swap[e] = "record"
  /\ \/ Goes(e, "produce", tries[e]) /\ rows' = [rows EXCEPT ![e] = @ + 1]
     \/ Goes(e, "fail", 0) /\ rows' = [rows EXCEPT ![e] = @ + 1]
     \/ Goes(e, "fail", 0) /\ UNCHANGED rows
  /\ UNCHANGED <<consumerVars, sent, everSent, results, muted>>

Publishes(e, r, hash) ==
  results' = IF r = "refused" THEN results
             ELSE results \cup {[event |-> e, hash |-> hash]}

ProduceResultOnce(e) ==   \* mutant: an error of the publication is only logged
  /\ swap[e] = "produce"
  /\ \E r \in Replies : Reply(r) /\ Publishes(e, r, TRUE)
  /\ Goes(e, "none", 0)
  /\ UNCHANGED <<redis, stale, process, ghosts, boots, sent, everSent, rows, muted>>

ProduceResult(e) ==
  /\ swap[e] = "produce"
  /\ \E r \in Replies :
       /\ Reply(r) /\ Publishes(e, r, TRUE)
       /\ Goes(e, IF r = "ok" THEN "none" ELSE "fail", 0)
  /\ UNCHANGED <<redis, stale, process, ghosts, boots, sent, everSent, rows, muted>>

\* _record_failed_swap; whatever it raises ends the task.
ProduceFailure(e) ==
  /\ swap[e] = "fail"
  /\ \E r \in Replies :
       /\ Reply(r) /\ Publishes(e, r, FALSE)
       /\ muted' = IF r = "refused" THEN muted \cup {e} ELSE muted
  /\ Goes(e, "none", 0)
  /\ UNCHANGED <<redis, stale, process, ghosts, boots, sent, everSent, rows>>

SwapTask(e) ==
  \/ BeginSwap(e) \/ Execute(e) \/ Settle(e) \/ Record(e)
  \/ ProduceResult(e) \/ ProduceFailure(e)

-----------------------------------------------------------------------------
\* The callback: handing an event over creates its task.
HandOver ==
  /\ swap' = [e \in Event |->
                IF handovers'[e] > handovers[e] THEN "waiting" ELSE swap[e]]
  /\ UNCHANGED <<tries, sent, everSent, rows, results, muted>>

\* The end of the process, or the cancellation of all its tasks, is also the
\* end of the swaps: CancelledError is no Exception, no result is recorded.
SwapsLost ==
  /\ swap' = [e \in Event |-> "none"] /\ tries' = [e \in Event |-> 0]
  /\ sent' = IF phase' = "down" THEN [e \in Event |-> 0] ELSE sent
  /\ UNCHANGED <<everSent, rows, results, muted>>

TradingInterrupt == Interrupt /\ SwapsLost

TradingNext ==
  \/ \E e \in Event : (Produce(e) \/ Age(e)) /\ UNCHANGED swapVars
  \/ Boot /\ UNCHANGED swapVars
  \/ Crash /\ SwapsLost
  \/ TradingInterrupt
  \/ ConsumerStep /\ (IF phase' = "down" THEN SwapsLost ELSE HandOver)
  \/ \E e \in Event : SwapTask(e)

TradingSpec == TradingInit /\ [][TradingNext]_vars

\* The event loop runs the consumer and every swap task, and the service is
\* started again after it ended.
TradingFairSpec ==
  /\ TradingSpec
  /\ WF_vars(Boot /\ UNCHANGED swapVars)
  /\ WF_vars(ConsumerStep /\ (IF phase' = "down" THEN SwapsLost ELSE HandOver))
  /\ \A e \in Event : WF_vars(SwapTask(e))

-----------------------------------------------------------------------------
(***************************************************************************)
(* Properties                                                              *)
(***************************************************************************)
\* However often calls are retried, one life of the process submits at most
\* one transaction per event.
SubmittedOnce == \A e \in Event : sent[e] <= 1

\* A result with a transaction hash is published only for a transaction that
\* was submitted and whose SwapRecord is in the database.
HashMeansRecorded ==
  \A r \in results : r.hash => r.event \in everSent /\ rows[r.event] > 0

\* A transaction is recorded at most once, retries included: never more rows
\* than hand-overs of the event.
RecordedOnce == \A e \in Event : rows[e] <= handovers[e]

\* The whole of main.py and swap_event.py at once: the consumer keeps its types
\* and its dead letters are malformed, tries stay within the decorators' limits,
\* no event vanishes from the stream, none is handed over or submitted twice in
\* one life of the process, and SwapRecord rows, one per transaction at most, are
\* there before a result names the transaction.
TradingInv ==
  /\ ConsumerInv /\ TradingTypeOK
  /\ NoEventLost /\ OneHandoverPerLife /\ SubmittedOnce
  /\ HashMeansRecorded /\ RecordedOnce

\* A swap task ends only after its event was answered: by a result, or by the
\* failure to publish one; only the end of the process or SIGINT cut it short.
TaskEndsAnswered ==
  [][\A e \in Event :
       (swap[e] # "none" /\ swap'[e] = "none" /\ phase' # "down" /\ active' = active) =>
         \/ e \in muted' \/ \E r \in results' : r.event = e]_vars

Answered(e) == e \in muted \/ \E r \in results : r.event = e

\* An event given to Trading is eventually answered, unless the process goes
\* down or is interrupted.
EventuallyAnswered ==
  \A e \in Event :
    (swap[e] # "none") ~> (Answered(e) \/ phase = "down" \/ interrupted)

(***************************************************************************)
(* What the code says of itself and does not do                            *)
(***************************************************************************)
\* _record_failed_swap "记录失败的交易结果" (record the result of a failed
\* transaction): a result without hash means no transaction was submitted.
FailureMeansUnsent ==
  \A r \in results : ~r.hash => r.event \notin everSent

\* stop "优雅关闭所有消费者" (gracefully shut down), "Waiting for remaining
\* tasks to complete...": SIGINT cuts no swap short.
ShutdownWaits ==
  [][TradingInterrupt => \A e \in Event : swap[e] # "none" => swap'[e] # "none"]_vars
=============================================================================
