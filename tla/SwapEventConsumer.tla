--------------------------- MODULE SwapEventConsumer ---------------------------
(***************************************************************************)
(* The swap_event stream, its consumer group "trading:swap_event", and the *)
(* process that runs Trading.start: it awaits consumer.start() of one      *)
(* consumer after the other, so at most one of them reads at a time.       *)
(*                                                                         *)
(* Unlike the generic Consumer this one handles the entries it reads in    *)
(* concurrent tasks, bounded by a semaphore; each task is at an await of   *)
(* its own.  The callback that Trading registers only creates a task and   *)
(* never suspends, so taking the semaphore, parsing the event and calling  *)
(* the callback are one step.                                              *)
(*                                                                         *)
(* TradingPipeline adds the callback's side and the next-state relation.   *)
(*                                                                         *)
(* An entry is named by its event: each event is published at most once.   *)
(* Fewer than MAXLEN (10000) entries are published: nothing is trimmed.    *)
(***************************************************************************)
EXTENDS Integers, Sequences, FiniteSets

CONSTANTS
  Event,            \* the swap events that may be published
  Malformed,        \* the ones SwapEvent.from_json raises on
  NumConsumers,     \* num_consumers
  BatchSize,        \* batch_size
  MaxConcurrent,    \* max_concurrent_tasks of one consumer
  MaxFaults,        \* bound: failing Redis commands
  MaxBoots          \* bound: starts of the process

ASSUME ConsumerAssumption ==
  /\ Malformed \subseteq Event
  /\ NumConsumers \in Nat \ {0}
  /\ BatchSize \in Nat \ {0}
  /\ MaxConcurrent \in Nat \ {0}
  /\ MaxFaults \in Nat
  /\ MaxBoots \in Nat

VARIABLES
  log,          \* the published events; an entry's id is its position
  group,        \* does the consumer group exist
  origin,       \* the id "$" stood for when the group was created
  last,         \* last-delivered-id of the group
  owner,        \* the consumer whose pending entry the event is, 0: none
  dlq,          \* events in the dead-letter stream
  stale,        \* events older than MAX_PROCESS_TIME
  active,       \* the consumer Trading.start awaits, 0: the process is down
  phase,        \* the await its start() is suspended at
  batch,        \* pending events process_pending has still to go through
  task,         \* the await the event's _process_message is suspended at
  interrupted,  \* SIGINT arrived in this life of the process
  \* history, never read by the code
  dropped,      \* events whose XADD failed: the producer swallows the error
  discarded,    \* events acknowledged because they were too old
  acked,        \* events whose XACK took effect
  handovers,    \* how often the event was given to the callback
  begun,        \* consumers whose loop ran in this life
  boots, faults

redis   == <<log, group, origin, last, owner, dlq>>
process == <<active, phase, batch, task, interrupted, begun>>
ghosts  == <<dropped, discarded, acked, handovers>>
consumerVars == <<redis, stale, process, ghosts, boots, faults>>

Stages == {"none", "waiting", "ack", "dlqAdd", "dlqAck", "dlqDel"}

Published == {log[i] : i \in DOMAIN log}
IdOf(e) == CHOOSE i \in DOMAIN log : log[i] = e
PendingOf(c) == {e \in Published : owner[e] = c}

\* A command answers, fails before it takes effect, or its answer is lost.
Replies == {"ok", "refused", "lost"}
Reply(r) ==
  /\ r = "ok" \/ faults < MaxFaults
  /\ faults' = IF r = "ok" THEN faults ELSE faults + 1

\* Entries are events, owners are consumers of the group, one consumer at most
\* is active, and each task is at an await of _process_message.
ConsumerTypeOK ==
  /\ log \in Seq(Event)
  /\ group \in BOOLEAN
  /\ origin \in 0..Len(log) /\ last \in origin..Len(log)
  /\ owner \in [Event -> 0..NumConsumers]
  /\ dlq \subseteq Event /\ stale \subseteq Event
  /\ active \in 0..NumConsumers
  /\ phase \in {"down", "create", "pending", "drain", "loop", "pause"}
  /\ batch \subseteq Event
  /\ task \in [Event -> Stages]
  /\ interrupted \in BOOLEAN
  /\ dropped \subseteq Event /\ discarded \subseteq Event /\ acked \subseteq Event
  /\ handovers \in [Event -> Nat]
  /\ begun \subseteq 1..NumConsumers
  /\ boots \in 0..MaxBoots /\ faults \in 0..MaxFaults

ConsumerInit ==
  /\ log = <<>> /\ group = FALSE /\ origin = 0 /\ last = 0
  /\ owner = [e \in Event |-> 0]
  /\ dlq = {} /\ stale = {}
  /\ active = 0 /\ phase = "down" /\ batch = {}
  /\ task = [e \in Event |-> "none"] /\ interrupted = FALSE
  /\ dropped = {} /\ discarded = {} /\ acked = {} /\ begun = {}
  /\ handovers = [e \in Event |-> 0]
  /\ boots = 0 /\ faults = 0

-----------------------------------------------------------------------------
\* SwapEventProducer.produce swallows every error of its XADD.
Produce(e) ==
  /\ e \notin Published \cup dropped
  /\ \E r \in {"ok", "refused"} :
       /\ Reply(r)
       /\ IF r = "ok" THEN log' = Append(log, e) /\ UNCHANGED dropped
                      ELSE dropped' = dropped \cup {e} /\ UNCHANGED log
  /\ UNCHANGED <<group, origin, last, owner, dlq, stale, process, discarded,
                 acked, handovers, boots>>

Age(e) ==
  /\ e \in Published \ stale
  /\ stale' = stale \cup {e}
  /\ UNCHANGED <<redis, process, ghosts, boots, faults>>

(***************************************************************************)
(* Life of the process                                                     *)
(***************************************************************************)
Boot ==
  /\ phase = "down" /\ boots < MaxBoots
  /\ active' = 1 /\ phase' = "create" /\ interrupted' = FALSE /\ begun' = {}
  /\ boots' = boots + 1
  /\ UNCHANGED <<redis, stale, batch, task, ghosts, faults>>

\* Whatever ends the process takes every task in memory with it.
GoesDown == active' = 0 /\ phase' = "down"
TasksLost == batch' = {} /\ task' = [e \in Event |-> "none"]

Crash ==
  /\ phase # "down"
  /\ GoesDown /\ TasksLost
  /\ UNCHANGED <<redis, stale, interrupted, begun, ghosts, boots, faults>>

\* Python 3.10's asyncio.run answers SIGINT by cancelling every task and
\* waiting for them.  The read loop takes the cancellation for a break, so
\* its start() returns and Trading.start goes on to the next consumer; at any
\* other await, or on a second SIGINT, the process ends.  Trading.stop runs
\* in a new event loop when everything is over, and the coroutines of
\* consumer.stop() it creates are never awaited.
Interrupt ==
  /\ phase # "down"
  /\ TasksLost
  /\ IF phase = "loop" /\ ~interrupted /\ active < NumConsumers
     THEN active' = active + 1 /\ phase' = "create" /\ interrupted' = TRUE
     ELSE GoesDown /\ UNCHANGED interrupted
  /\ UNCHANGED <<redis, stale, begun, ghosts, boots, faults>>

RecreateGroup ==        \* mutant: an existing group is created anew, at id 0
  /\ phase = "create"
  /\ group' = TRUE /\ last' = 0 /\ owner' = [e \in Event |-> 0]
  /\ origin' = 0
  /\ phase' = "pending"
  /\ UNCHANGED <<log, dlq, stale, active, batch, task, interrupted, begun,
                 ghosts, boots, faults>>

(***************************************************************************)
(* setup, and the single read of process_pending                           *)
(***************************************************************************)
ReadPendingSkipped ==   \* mutant: start() never looks at the PEL
  /\ phase = "pending"
  /\ phase' = "loop" /\ begun' = begun \cup {active}
  /\ UNCHANGED <<redis, stale, active, batch, task, interrupted, ghosts,
                 boots, faults>>

\* An error other than BUSYGROUP leaves start() and ends the process.
CreateGroup ==
  /\ phase = "create"
  /\ \E r \in Replies :
       /\ Reply(r)
       /\ IF r = "refused" \/ group THEN UNCHANGED <<group, origin, last>>
          ELSE group' = TRUE /\ origin' = Len(log) /\ last' = Len(log)
       /\ IF r = "ok" THEN phase' = "pending" /\ UNCHANGED <<active, batch, task>>
                      ELSE GoesDown /\ TasksLost
  /\ UNCHANGED <<log, owner, dlq, stale, interrupted, begun, ghosts, boots>>

ReadPending ==
  /\ phase = "pending"
  /\ \E r \in {"ok", "refused"} :
       /\ Reply(r)
       /\ LET mine == PendingOf(active) IN
          IF r = "ok" /\ mine # {}
          THEN /\ batch' = {e \in mine :
                     Cardinality({o \in mine : IdOf(o) <= IdOf(e)}) <= BatchSize}
               /\ phase' = "drain" /\ UNCHANGED begun
          ELSE phase' = "loop" /\ begun' = begun \cup {active} /\ UNCHANGED batch
  /\ UNCHANGED <<redis, stale, active, task, interrupted, ghosts, boots>>

DispatchStaleToDlq(e) ==   \* mutant: a message that is too old is an error
  /\ task' = [task EXCEPT ![e] = IF e \in stale \cup Malformed THEN "dlqAdd" ELSE "ack"]
  /\ handovers' = [handovers EXCEPT ![e] = IF e \in stale \cup Malformed THEN @ ELSE @ + 1]
  /\ UNCHANGED discarded

(***************************************************************************)
(* _process_message up to its first await: too old, malformed, or handed   *)
(* to the callback.                                                        *)
(***************************************************************************)
Dispatch(e) ==
  \/ /\ e \in stale
     /\ task' = [task EXCEPT ![e] = "ack"]
     /\ discarded' = discarded \cup {e}
     /\ UNCHANGED handovers
  \/ /\ e \in Malformed \ stale
     /\ task' = [task EXCEPT ![e] = "dlqAdd"]
     /\ UNCHANGED <<discarded, handovers>>
  \/ /\ e \notin Malformed \cup stale
     /\ task' = [task EXCEPT ![e] = "ack"]
     /\ handovers' = [handovers EXCEPT ![e] = @ + 1]
     /\ UNCHANGED discarded

\* process_pending awaits one message after the other.
NextPending ==
  /\ phase = "drain" /\ \A e \in Event : task[e] = "none"
  /\ \E e \in batch :
       /\ \A o \in batch : IdOf(e) <= IdOf(o)
       /\ Dispatch(e)
       /\ batch' = batch \ {e}
  /\ UNCHANGED <<redis, stale, active, phase, interrupted, begun, dropped, acked,
                 boots, faults>>

PendingDone ==
  /\ phase = "drain" /\ batch = {} /\ \A e \in Event : task[e] = "none"
  /\ phase' = "loop" /\ begun' = begun \cup {active}
  /\ UNCHANGED <<redis, stale, active, batch, task, interrupted, ghosts, boots,
                 faults>>

\* A read that fails, or whose answer is lost after the group delivered the
\* entries, costs the loop a pause of one second.
ReadNew ==
  /\ phase = "loop" /\ last < Len(log)
  /\ \E r \in {"ok", "lost"} :
       /\ Reply(r)
       /\ \E upto \in {last + BatchSize, Len(log)} :
            /\ upto <= last + BatchSize /\ upto <= Len(log)
            /\ last' = upto
            /\ LET read == {log[i] : i \in (last + 1)..upto} IN
               /\ owner' = [e \in Event |-> IF e \in read THEN active ELSE owner[e]]
               /\ task' = [e \in Event |->
                             IF e \in read /\ r = "ok" THEN "waiting" ELSE task[e]]
       /\ phase' = IF r = "ok" THEN "loop" ELSE "pause"
  /\ UNCHANGED <<log, group, origin, dlq, stale, active, batch, interrupted,
                 begun, ghosts, boots>>

EndPause ==
  /\ phase = "pause"
  /\ phase' = "loop"
  /\ UNCHANGED <<redis, stale, active, batch, task, interrupted, begun, ghosts,
                 boots, faults>>

(***************************************************************************)
(* The tasks                                                               *)
(***************************************************************************)
Holding == {e \in Event : task[e] \notin {"none", "waiting"}}

BeginTask(e) ==
  /\ task[e] = "waiting" /\ Cardinality(Holding) < MaxConcurrent
  /\ Dispatch(e)
  /\ UNCHANGED <<redis, stale, active, phase, batch, interrupted, begun, dropped,
                 acked, boots, faults>>

XAck(e, r) ==
  IF r = "refused" THEN UNCHANGED <<owner, acked>>
  ELSE owner' = [owner EXCEPT ![e] = 0] /\ acked' = acked \cup {e}

To(e, stage) == task' = [task EXCEPT ![e] = stage]

AcknowledgeRetried(e) ==   \* mutant: a failing XACK has the message handled again
  /\ task[e] = "ack"
  /\ \E r \in Replies :
       /\ Reply(r) /\ XAck(e, r)
       /\ To(e, IF r = "ok" THEN "none" ELSE "waiting")
  /\ UNCHANGED <<log, group, origin, last, dlq, stale, active, phase, batch,
                 interrupted, begun, dropped, discarded, handovers, boots>>

Acknowledge(e) ==
  /\ task[e] = "ack"
  /\ \E r \in Replies :
       /\ Reply(r) /\ XAck(e, r)
       /\ To(e, IF r = "ok" THEN "none" ELSE "dlqAdd")
  /\ UNCHANGED <<log, group, origin, last, dlq, stale, active, phase, batch,
                 interrupted, begun, dropped, discarded, handovers, boots>>

DeadLetterAckFirst(e) ==   \* mutant: XACK before the XADD
  /\ task[e] = "dlqAdd"
  /\ XAck(e, "ok")
  /\ To(e, "dlqAck")
  /\ UNCHANGED <<log, group, origin, last, dlq, stale, active, phase, batch,
                 interrupted, begun, dropped, discarded, handovers, boots, faults>>

\* _move_to_dead_letter: an error in it ends the task.
DeadLetterAdd(e) ==
  /\ task[e] = "dlqAdd"
  /\ \E r \in Replies :
       /\ Reply(r)
       /\ dlq' = IF r = "refused" THEN dlq ELSE dlq \cup {e}
       /\ To(e, IF r = "ok" THEN "dlqAck" ELSE "none")
  /\ UNCHANGED <<log, group, origin, last, owner, stale, active, phase, batch,
                 interrupted, begun, ghosts, boots>>

DeadLetterAck(e) ==
  /\ task[e] = "dlqAck"
  /\ \E r \in Replies :
       /\ Reply(r) /\ XAck(e, r)
       /\ To(e, IF r = "ok" THEN "dlqDel" ELSE "none")
  /\ UNCHANGED <<log, group, origin, last, dlq, stale, active, phase, batch,
                 interrupted, begun, dropped, discarded, handovers, boots>>

\* XDEL frees an entry that no command reads any more.
DeadLetterDelete(e) ==
  /\ task[e] = "dlqDel"
  /\ \E r \in Replies : Reply(r)
  /\ To(e, "none")
  /\ UNCHANGED <<redis, stale, active, phase, batch, interrupted, begun, ghosts,
                 boots>>

ConsumerTask(e) ==
  \/ BeginTask(e) \/ Acknowledge(e)
  \/ DeadLetterAdd(e) \/ DeadLetterAck(e) \/ DeadLetterDelete(e)

ConsumerStep ==
  \/ CreateGroup \/ ReadPending \/ NextPending \/ PendingDone
  \/ ReadNew \/ EndPause
  \/ \E e \in Event : ConsumerTask(e)

-----------------------------------------------------------------------------
(***************************************************************************)
(* Properties                                                              *)
(***************************************************************************)
\* A published event leaves the group only for a reason: it was given to the
\* callback, discarded as too old or dead-lettered; the group was created
\* behind it; or it is still pending or undelivered.
NoEventLost ==
  \A i \in DOMAIN log :
    LET e == log[i]
    IN \/ last < i \/ i <= origin
       \/ owner[e] # 0
       \/ handovers[e] > 0 \/ e \in discarded \cup dlq

\* An event whose XACK took effect is never given to the callback again,
\* whatever restarts and interrupts come: no swap runs twice because of it.
AckedIsFinal ==
  [][\A e \in Event : handovers'[e] > handovers[e] => e \notin acked]_consumerVars

\* The callback is called at most once in one life of the process.
OneHandoverPerLife == \A e \in Event : handovers[e] <= boots

\* While Redis answers, only what cannot be parsed becomes a dead letter, and
\* what becomes one was never executed.
DeadLettersMalformed ==
  faults = 0 => \A e \in dlq : e \in Malformed /\ handovers[e] = 0

\* What each consumer keeps: its types, and dead letters only for what is malformed.
ConsumerInv == ConsumerTypeOK /\ DeadLettersMalformed

\* With a Redis that answers, an event published to an existing group is
\* eventually handed over, discarded or dead-lettered, unless no restart is
\* left or the consumer it is pending for is not the one that runs.
EventuallyDispatched ==
  \A e \in Event :
    (e \in Published /\ group) ~>
      \/ handovers[e] > 0 \/ e \in discarded \cup dlq
      \/ \E i \in 1..origin : log[i] = e
      \/ phase = "down" /\ boots = MaxBoots
      \/ owner[e] \notin {0, active}
      \/ faults > 0

\* main.py "启动所有消费者" (start all consumers): once the first consumer
\* reads, every other one gets to run.
AllConsumersStart == (phase = "loop") ~> (begun = 1..NumConsumers \/ phase = "down")
=============================================================================
