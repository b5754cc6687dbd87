---------------------------- MODULE StreamConsumer ----------------------------
(***************************************************************************)
(* The generic Redis-stream Producer and Consumer of solbot_common.cp.base *)
(* that carry swap results and copy-trade notifications.                   *)
(*                                                                         *)
(* The Redis side is the stream with its entries, the consumer group with  *)
(* its last delivered id and its pending entries list (PEL), and the       *)
(* dead-letter stream.  The client side is one consumer task.  Every await *)
(* on Redis is an action of its own, so that producers, the clock, crashes *)
(* and failing commands interleave with it; code between two awaits is     *)
(* part of one action, as asyncio runs it.                                 *)
(***************************************************************************)
EXTENDS Integers, Sequences, FiniteSets

CONSTANTS
  Payload,        \* the events that may be published, each at most once
  NoData,         \* the fields of an entry that was trimmed while pending
  BatchSize,      \* batch_size
  MaxRetries,     \* max_retries
  MaxLen,         \* maxlen of the producer's XADD (10000 in the code)
  MaxFaults,      \* bound: failing Redis commands
  MaxStarts       \* bound: calls of start()

ASSUME ConstantsAssumption ==
  /\ NoData \notin Payload
  /\ BatchSize \in Nat \ {0}
  /\ MaxRetries \in Nat
  /\ MaxLen \in Nat \ {0}
  /\ MaxFaults \in Nat
  /\ MaxStarts \in Nat

VARIABLES
  log,        \* every entry ever added, by id: [data, retries]
  stream,     \* ids still stored in the stream
  group,      \* does the consumer group exist
  last,       \* last-delivered-id of the group
  pel,        \* ids delivered to the consumer and not acknowledged
  dlq,        \* entries of the dead-letter stream: [id, data]
  stale,      \* payloads whose timestamp is more than MAX_PROCESS_TIME old
  pc,         \* the await the consumer task is suspended at
  running,    \* is_running
  mode,       \* whose loop _process_message was called from
  batch,      \* items of the current batch still to be processed
  cur,        \* the item _process_message works on
  inTry,      \* is _move_to_dead_letter called from the try block
  \* history, never read by the code
  handled,    \* payloads whose callback returned
  missed,     \* payloads trimmed or skipped by a group created at "$"
  attempts,   \* callback invocations per payload
  faults,     \* failed commands so far
  starts,     \* start() calls so far
  stopAsked   \* stop() was called in this life of the consumer

redis    == <<log, stream, group, last, pel, dlq>>
client   == <<pc, running, mode, batch, cur, inTry>>
history  == <<handled, missed, attempts, starts, stopAsked>>
vars     == <<redis, stale, client, history, faults>>

(***************************************************************************)
(* Values                                                                  *)
(***************************************************************************)
Data   == Payload \cup {NoData}
Fields == [data : Data, retries : 0..MaxRetries]
Item   == [id : Nat, data : Data, retries : 0..MaxRetries]
NoItem == [id |-> 0, data |-> NoData, retries |-> 0]

Phases == {"down", "create", "inspect", "destroy", "recreate", "readPending",
           "loop", "next", "callback", "ack", "retryAdd", "retryAck",
           "dlqAdd", "dlqAck", "dlqDel"}

\* Entries the group has not delivered yet; a missing group has delivered none.
Undelivered == {i \in stream : group => last < i}

\* The first entries of ids, as many as COUNT allows: all of them or n.
FirstOf(part, ids, n) ==
  /\ \E k \in ids : part = {i \in ids : i <= k}
  /\ Cardinality(part) <= n
  /\ Cardinality(part) = n \/ part = ids

DataOf(ids) == {log[i].data : i \in ids}

\* What XREADGROUP returns for id: aioredis maps a deleted entry to no fields.
ItemOf(i) ==
  IF i \in stream THEN [id |-> i, data |-> log[i].data, retries |-> log[i].retries]
                  ELSE [id |-> i, data |-> NoData, retries |-> 0]

\* A command answers, fails before it takes effect, or its answer is lost.
Replies == {"ok", "refused", "lost"}
Reply(r) ==
  /\ r = "ok" \/ faults < MaxFaults
  /\ faults' = IF r = "ok" THEN faults ELSE faults + 1

\* Entries hold payloads, pending ids were delivered, the item in hand is well
\* formed and the program counter is at an await of the code.
TypeOK ==
  /\ log \in Seq(Fields)
  /\ stream \subseteq 1..Len(log)
  /\ group \in BOOLEAN
  /\ last \in 0..Len(log)
  /\ pel \subseteq 1..Len(log)
  /\ dlq \subseteq [id : 1..Len(log), data : Data]
  /\ stale \subseteq Payload
  /\ pc \in Phases
  /\ running \in BOOLEAN
  /\ mode \in {"pending", "new"}
  /\ batch \subseteq Item
  /\ cur \in Item
  /\ inTry \in BOOLEAN
  /\ handled \subseteq Payload
  /\ missed \subseteq Data
  /\ attempts \in [Payload -> Nat]
  /\ faults \in 0..MaxFaults
  /\ starts \in 0..MaxStarts
  /\ stopAsked \in BOOLEAN

-----------------------------------------------------------------------------
Init ==
  /\ log = <<>> /\ stream = {} /\ dlq = {} /\ pel = {}
  /\ group = FALSE /\ last = 0
  /\ stale = {}
  /\ pc = "down" /\ running = FALSE /\ mode = "new"
  /\ batch = {} /\ cur = NoItem /\ inTry = FALSE
  /\ handled = {} /\ missed = {} /\ attempts = [p \in Payload |-> 0]
  /\ faults = 0 /\ starts = 0 /\ stopAsked = FALSE

(***************************************************************************)
(* Producer.produce: XADD with an approximate MAXLEN, which may drop the   *)
(* oldest entries as long as MaxLen of them stay.                          *)
(***************************************************************************)
Published == {log[i].data : i \in 1..Len(log)}

Produce(p) ==
  /\ p \notin Published
  /\ log' = Append(log, [data |-> p, retries |-> 0])
  /\ \E cut \in 0..Len(log) :
       LET all  == stream \cup {Len(log) + 1}
           kept == {i \in all : cut < i}
       IN /\ cut = 0 \/ Cardinality(kept) >= MaxLen
          /\ stream' = kept
          /\ missed' = missed \cup DataOf(stream \ kept)
  /\ UNCHANGED <<group, last, pel, dlq, stale, client, handled, attempts,
                 starts, stopAsked, faults>>

\* MAX_PROCESS_TIME passes; retry copies keep the timestamp of the original.
Age(p) ==
  /\ p \in Published \ stale
  /\ stale' = stale \cup {p}
  /\ UNCHANGED <<redis, client, history, faults>>

(***************************************************************************)
(* Life of the consumer task.                                              *)
(***************************************************************************)
Start ==
  /\ pc = "down" /\ starts < MaxStarts
  /\ pc' = "create"
  /\ starts' = starts + 1 /\ stopAsked' = FALSE
  /\ UNCHANGED <<redis, stale, running, mode, batch, cur, inTry, handled,
                 missed, attempts, faults>>

\* The process dies or the task is cancelled: CancelledError is no Exception,
\* so it leaves _process_message and ends the loop wherever the task waits.
Crash ==
  /\ pc # "down"
  /\ pc' = "down" /\ running' = FALSE
  /\ batch' = {} /\ cur' = NoItem
  /\ UNCHANGED <<redis, stale, mode, inTry, history, faults>>

Stop ==
  /\ pc # "down" /\ ~stopAsked
  /\ running' = FALSE /\ stopAsked' = TRUE
  /\ UNCHANGED <<redis, stale, pc, mode, batch, cur, inTry, handled, missed,
                 attempts, starts, faults>>

(***************************************************************************)
(* setup                                                                   *)
(***************************************************************************)
CreateGroup ==
  /\ pc = "create"
  /\ \E r \in Replies :
       /\ Reply(r)
       /\ IF r = "refused" \/ group
          THEN UNCHANGED <<group, last, missed>>
          ELSE /\ group' = TRUE /\ last' = Len(log)
               /\ missed' = missed \cup DataOf(stream)
       /\ pc' = IF r # "ok" THEN "down" ELSE IF group THEN "inspect" ELSE "readPending"
       /\ running' = (IF r = "ok" /\ ~group THEN TRUE ELSE running)
  /\ UNCHANGED <<log, stream, pel, dlq, stale, mode, batch, cur, inTry,
                 handled, attempts, starts, stopAsked>>

\* XINFO STREAM and XINFO GROUPS; only the consumer itself changes the PEL,
\* so the two reads see what one read would.
InspectGroup ==
  /\ pc = "inspect"
  /\ \E r \in Replies :
       /\ Reply(r)
       /\ LET reset == stream # {} /\ pel = {}
          IN /\ pc' = IF r # "ok" THEN "down"
                      ELSE IF reset THEN "destroy" ELSE "readPending"
             /\ running' = (IF r = "ok" /\ ~reset THEN TRUE ELSE running)
  /\ UNCHANGED <<redis, stale, mode, batch, cur, inTry, history>>

\* A failing reset is logged and start() goes on.
DestroyGroup ==
  /\ pc = "destroy"
  /\ \E r \in Replies :
       /\ Reply(r)
       /\ IF r = "refused" THEN UNCHANGED <<group, last, pel>>
          ELSE group' = FALSE /\ last' = 0 /\ pel' = {}
       /\ pc' = IF r = "ok" THEN "recreate" ELSE "readPending"
       /\ running' = (IF r = "ok" THEN running ELSE TRUE)
  /\ UNCHANGED <<log, stream, dlq, stale, mode, batch, cur, inTry, history>>

RecreateGroup ==
  /\ pc = "recreate"
  /\ \E r \in Replies :
       /\ Reply(r)
       /\ group' = (r # "refused")
  /\ pc' = "readPending" /\ running' = TRUE
  /\ UNCHANGED <<log, stream, last, pel, dlq, stale, mode, batch, cur, inTry,
                 history>>

ReadPendingSkipped ==   \* mutant: start() never looks at the PEL
  /\ pc = "readPending"
  /\ pc' = "loop"
  /\ UNCHANGED <<redis, stale, running, mode, batch, cur, inTry, history, faults>>

(***************************************************************************)
(* process_pending reads the PEL once.  A missing group or a failing       *)
(* command is logged, and start() goes on to the loop.                     *)
(***************************************************************************)
ReadPending ==
  /\ pc = "readPending"
  /\ \E r \in Replies :
       /\ Reply(r)
       /\ IF r = "ok" /\ group /\ pel # {}
          THEN /\ \E part \in SUBSET pel :
                    /\ FirstOf(part, pel, BatchSize)
                    /\ batch' = {ItemOf(i) : i \in part}
               /\ mode' = "pending" /\ pc' = "next"
          ELSE pc' = "loop" /\ UNCHANGED <<batch, mode>>
  /\ UNCHANGED <<redis, stale, running, cur, inTry, history>>

ReadNewNoAck ==         \* mutant: XREADGROUP with NOACK
  /\ pc = "loop" /\ running /\ group
  /\ \E part \in SUBSET Undelivered :
       /\ FirstOf(part, Undelivered, BatchSize)
       /\ last' \in part /\ \A i \in part : i <= last'
       /\ batch' = {ItemOf(i) : i \in part}
  /\ pc' = "next" /\ mode' = "new"
  /\ UNCHANGED <<log, stream, group, pel, dlq, stale, running, cur, inTry,
                 history, faults>>

(***************************************************************************)
(* The loop of start.  When the answer of XREADGROUP is lost the entries   *)
(* are pending, yet nothing in this life of the consumer reads them again. *)
(* Without new entries, or without the group, the loop only polls.         *)
(***************************************************************************)
ReadNew ==
  /\ pc = "loop" /\ running /\ group
  /\ \E r \in {"ok", "lost"} :
       /\ Reply(r)
       /\ \E part \in SUBSET Undelivered :
            /\ FirstOf(part, Undelivered, BatchSize)
            /\ last' \in part /\ \A i \in part : i <= last'
            /\ pel' = pel \cup part
            /\ batch' = IF r = "ok" THEN {ItemOf(i) : i \in part} ELSE {}
       /\ pc' = IF r = "ok" THEN "next" ELSE "loop"
  /\ mode' = "new"
  /\ UNCHANGED <<log, stream, group, dlq, stale, running, cur, inTry, history>>

LeaveLoop ==
  /\ pc = "loop" /\ ~running
  /\ pc' = "down"
  /\ UNCHANGED <<redis, stale, running, mode, batch, cur, inTry, history, faults>>

EndBatch ==
  /\ pc = "next" /\ batch = {}
  /\ pc' = "loop"
  /\ UNCHANGED <<redis, stale, running, mode, batch, cur, inTry, history, faults>>

(***************************************************************************)
(* _process_message                                                        *)
(***************************************************************************)
TooOld(m) == m.data = NoData \/ m.data \in stale

BeginMessage ==
  /\ pc = "next"
  /\ \E m \in batch :
       /\ \A o \in batch : m.id <= o.id
       /\ cur' = m /\ batch' = batch \ {m}
       /\ IF TooOld(m)
          THEN pc' = "dlqAdd" /\ inTry' = TRUE /\ UNCHANGED attempts
          ELSE /\ pc' = "callback" /\ inTry' = FALSE
               /\ attempts' = [attempts EXCEPT ![m.data] = @ + 1]
  /\ UNCHANGED <<redis, stale, running, mode, handled, missed, starts,
                 stopAsked, faults>>

Returned == pc' = "next" /\ batch' = batch

RescueTooSoon ==        \* mutant: retry_count + 1 >= max_retries
  /\ pc' = IF cur.retries + 1 >= MaxRetries THEN "dlqAdd" ELSE "retryAdd"
  /\ inTry' = FALSE /\ batch' = batch

\* The except block of _process_message.
Rescue ==
  /\ pc' = IF cur.retries >= MaxRetries THEN "dlqAdd" ELSE "retryAdd"
  /\ inTry' = FALSE /\ batch' = batch

\* An exception leaves _process_message: process_pending goes on to the next
\* message, the loop of start drops the rest of its batch.
Escaped ==
  IF mode = "pending" THEN Returned ELSE pc' = "loop" /\ batch' = {}

CallbackReturns ==
  /\ pc = "callback"
  /\ pc' = "ack"
  /\ handled' = handled \cup {cur.data}
  /\ UNCHANGED <<redis, stale, running, mode, batch, cur, inTry, missed,
                 attempts, starts, stopAsked, faults>>

CallbackErrorAcked ==   \* mutant: the error is logged and the message acked
  /\ pc = "callback"
  /\ pc' = "ack" /\ batch' = batch /\ inTry' = FALSE
  /\ UNCHANGED <<redis, stale, running, mode, cur, history, faults>>

\* from_json or the callback raises.
CallbackRaises ==
  /\ pc = "callback"
  /\ Rescue
  /\ UNCHANGED <<redis, stale, running, mode, cur, history, faults>>

Acknowledge ==
  /\ pc = "ack"
  /\ \E r \in Replies :
       /\ Reply(r)
       /\ pel' = IF r = "refused" THEN pel ELSE pel \ {cur.id}
       /\ IF r = "ok" THEN Returned /\ UNCHANGED inTry ELSE Rescue
  /\ UNCHANGED <<log, stream, group, last, dlq, stale, running, mode, cur, history>>

RetryUncounted ==       \* mutant: the copy keeps its retry_count
  /\ pc = "retryAdd"
  /\ log' = Append(log, [data |-> cur.data, retries |-> cur.retries])
  /\ stream' = stream \cup {Len(log) + 1}
  /\ pc' = "retryAck"
  /\ UNCHANGED <<group, last, pel, dlq, stale, running, mode, batch, cur,
                 inTry, history, faults>>

RetryAckFirst ==        \* mutant: the original is acked before its copy is added
  /\ pc = "retryAdd"
  /\ pel' = pel \ {cur.id}
  /\ pc' = "retryAck"
  /\ UNCHANGED <<log, stream, group, last, dlq, stale, running, mode, batch, cur,
                 inTry, history, faults>>

\* The XADD of a retry gives no MAXLEN.
RetryAdd ==
  /\ pc = "retryAdd"
  /\ \E r \in Replies :
       /\ Reply(r)
       /\ IF r = "refused" THEN UNCHANGED <<log, stream>>
          ELSE /\ log' = Append(log, [data |-> cur.data, retries |-> cur.retries + 1])
               /\ stream' = stream \cup {Len(log) + 1}
       /\ IF r = "ok" THEN pc' = "retryAck" /\ batch' = batch ELSE Escaped
  /\ UNCHANGED <<group, last, pel, dlq, stale, running, mode, cur, inTry, history>>

RetryAck ==
  /\ pc = "retryAck"
  /\ \E r \in Replies :
       /\ Reply(r)
       /\ pel' = IF r = "refused" THEN pel ELSE pel \ {cur.id}
       /\ IF r = "ok" THEN Returned ELSE Escaped
  /\ UNCHANGED <<log, stream, group, last, dlq, stale, running, mode, cur,
                 inTry, history>>

(***************************************************************************)
(* _move_to_dead_letter.  It raises when a command fails: into the except  *)
(* block when the age check called it, out of _process_message otherwise.  *)
(***************************************************************************)
DeadLetterFails == IF inTry THEN Rescue ELSE Escaped /\ UNCHANGED inTry

DeadLetterAdd ==
  /\ pc = "dlqAdd"
  /\ \E r \in Replies :
       /\ Reply(r)
       /\ dlq' = IF r = "refused" THEN dlq
                 ELSE dlq \cup {[id |-> cur.id, data |-> cur.data]}
       /\ IF r = "ok" THEN pc' = "dlqAck" /\ UNCHANGED <<batch, inTry>>
          ELSE DeadLetterFails
  /\ UNCHANGED <<log, stream, group, last, pel, stale, running, mode, cur, history>>

DeadLetterUnacked ==    \* mutant: the XACK is forgotten before the XDEL
  /\ pc = "dlqAck"
  /\ pc' = "dlqDel"
  /\ UNCHANGED <<redis, stale, running, mode, batch, cur, inTry, history, faults>>

DeadLetterAck ==
  /\ pc = "dlqAck"
  /\ \E r \in Replies :
       /\ Reply(r)
       /\ pel' = IF r = "refused" THEN pel ELSE pel \ {cur.id}
       /\ IF r = "ok" THEN pc' = "dlqDel" /\ UNCHANGED <<batch, inTry>>
          ELSE DeadLetterFails
  /\ UNCHANGED <<log, stream, group, last, dlq, stale, running, mode, cur, history>>

DeadLetterDelete ==
  /\ pc = "dlqDel"
  /\ \E r \in Replies :
       /\ Reply(r)
       /\ stream' = IF r = "refused" THEN stream ELSE stream \ {cur.id}
       /\ IF r = "ok" THEN Returned /\ UNCHANGED inTry ELSE DeadLetterFails
  /\ UNCHANGED <<log, group, last, pel, dlq, stale, running, mode, cur, history>>

-----------------------------------------------------------------------------
ProcessMessage ==
  \/ BeginMessage \/ CallbackReturns \/ CallbackRaises \/ Acknowledge
  \/ RetryAdd \/ RetryAck
  \/ DeadLetterAdd \/ DeadLetterAck \/ DeadLetterDelete

Setup == CreateGroup \/ InspectGroup \/ DestroyGroup \/ RecreateGroup

ConsumerStep ==
  \/ Setup \/ ReadPending \/ ReadNew \/ LeaveLoop \/ EndBatch \/ ProcessMessage

Next ==
  \/ \E p \in Payload : Produce(p) \/ Age(p)
  \/ Start \/ Crash \/ Stop
  \/ ConsumerStep

Spec == Init /\ [][Next]_vars

(***************************************************************************)
(* The event loop keeps running the consumer task, and whoever runs the    *)
(* service starts it again after it went down.                             *)
(***************************************************************************)
FairSpec == Spec /\ WF_vars(ConsumerStep) /\ WF_vars(Start)

-----------------------------------------------------------------------------
(***************************************************************************)
(* Properties                                                              *)
(***************************************************************************)
DeadLettered(p) == \E d \in dlq : d.data = p
Settled(p) == p \in handled \/ DeadLettered(p)

\* A published event is never dropped silently: until its callback returned or
\* it is in the dead-letter stream, some entry with it is pending or still to
\* be delivered - unless the stream was trimmed past it or the group was
\* created at "$" behind it.
NoSilentLoss ==
  \A p \in Published \ {NoData} :
    \/ Settled(p) \/ p \in missed
    \/ p \in DataOf(pel) \/ p \in DataOf(Undelivered)

\* XACK is never early: the entry it removes from the PEL was handled, is in
\* the dead-letter stream, or has a successor with one more retry still to be
\* delivered (or trimmed).
AckedIsAnswered ==
  [][\A i \in pel \ pel' :
       LET d == log[i].data
       IN \/ Settled(d) \/ d \in missed
          \/ \E j \in Undelivered :
               i < j /\ log[j] = [data |-> d, retries |-> log[i].retries + 1]]_vars

\* Only what is too old, has used up its retries or has lost its data is moved
\* to the dead-letter stream.
DeadLetterJustified ==
  \A d \in dlq : \/ d.data \in stale \cup {NoData}
                 \/ log[d.id].retries = MaxRetries

\* In one life without failing commands a callback is called at most
\* max_retries + 1 times per event, an event whose callback returned is never
\* delivered again, and it does not end among the dead letters.
WorkedOnce ==
  (faults = 0 /\ starts <= 1) =>
    \A p \in Payload :
      /\ attempts[p] <= MaxRetries + 1
      /\ p \in handled => p \notin DataOf(Undelivered) /\ ~DeadLettered(p)

\* With a Redis that answers, each published event is eventually handled,
\* dead-lettered or missed, whatever crashes, as long as the service is
\* started again afterwards.
EventuallySettled ==
  \A p \in Payload :
    p \in Published ~>
      (Settled(p) \/ p \in missed \/ (pc = "down" /\ starts = MaxStarts))

(***************************************************************************)
(* The stream, its group and its dead letters implement an event queue     *)
(* that delivers at least once.                                            *)
(***************************************************************************)
Waiting == DataOf(pel \cup Undelivered) \ {NoData}

Queue == INSTANCE EventQueue WITH
           Event     <- Payload,
           published <- Published \ {NoData},
           waiting   <- Waiting,
           settled   <- {p \in Payload : Settled(p)},
           lost      <- missed \ {NoData},
           open      <- group

\* Whatever the consumer awaits, fails or restarts, its steps are steps of that
\* queue: an event stops waiting only after its callback returned, its dead
\* letter was stored or it was given up, and only those may wait again.
ImplementsQueue == Queue!Spec

(***************************************************************************)
(* What the comments of the code say and the code does not do              *)
(***************************************************************************)
\* setup "Setup the consumer group if it doesn't exist": an existing group
\* keeps what it has delivered.
SetupKeepsGroup == [][group /\ Setup => group' /\ last' = last]_vars

\* "0 means all pending messages": the read of process_pending leaves no
\* pending message out.
AllPendingRead ==
  (pc = "next" /\ mode = "pending" /\ cur = NoItem) =>
     pel \subseteq {m.id : m \in batch}

\* stop "Stop consuming messages": the loop does not run once stop was called.
StopObeyed == stopAsked => ~running

-----------------------------------------------------------------------------
(***************************************************************************)
(* The inductive invariant behind NoSilentLoss, AckedIsAnswered and        *)
(* DeadLetterJustified: what each await of _process_message may assume of  *)
(* the message in hand.                                                    *)
(***************************************************************************)
Busy == pc \in {"callback", "ack", "retryAdd", "retryAck",
                "dlqAdd", "dlqAck", "dlqDel"}

\* An item in memory carries the fields of its entry, or none because the
\* entry was trimmed before it was read.
Genuine(m) ==
  /\ m.id \in 1..last
  /\ \/ m.data = log[m.id].data /\ m.retries = log[m.id].retries
     \/ m.data = NoData /\ m.retries = 0 /\ log[m.id].data \in missed

\* A copy of cur with one more retry waits for delivery.
Requeued ==
  \/ log[cur.id].data \in missed
  \/ \E j \in Undelivered :
       log[j] = [data |-> log[cur.id].data, retries |-> log[cur.id].retries + 1]

\* The group's position, its PEL and the program counter of setup agree.
GroupInv ==
  /\ ~group => pel = {} /\ last = 0
  /\ Busy \/ batch # {} => group
  /\ batch # {} => Busy \/ pc = "next"
  /\ pc = "destroy" => pel = {}
  /\ pc = "recreate" => ~group

\* What is pending was delivered, and is in the stream or known as missed.
PelInv == \A i \in pel : i <= last /\ (i \in stream \/ log[i].data \in missed)

\* The messages in hand are entries of the stream as they were published.
ItemInv ==
  /\ \A m \in batch : Genuine(m)
  /\ Busy => Genuine(cur)

\* Where process_message is decides what has been done with the message.
StepInv ==
  /\ pc = "callback" => cur.data \in Payload
  /\ pc = "ack" => cur.data \in handled /\ cur.data = log[cur.id].data
  /\ pc = "retryAdd" => cur.retries < MaxRetries
  /\ pc = "retryAck" => Requeued
  /\ pc = "dlqAdd" => \/ cur.retries = MaxRetries
                      \/ inTry /\ cur.data \in stale \cup {NoData}
  /\ pc \in {"dlqAck", "dlqDel"} => [id |-> cur.id, data |-> cur.data] \in dlq
  /\ pc = "dlqDel" => cur.id \notin pel

\* The inductive invariant: nothing published vanishes (NoSilentLoss) and nothing
\* is dead without a reason (DeadLetterJustified), whatever await of cp/base.py the
\* consumer is at and whatever failed before.
Inv ==
  /\ TypeOK /\ GroupInv /\ PelInv /\ ItemInv /\ StepInv
  /\ NoSilentLoss /\ DeadLetterJustified
=============================================================================
