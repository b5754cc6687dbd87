----------------------------- MODULE LibraryProofs -----------------------------
(***************************************************************************)
(* Proofs about what the other components are built on, for every value of *)
(* the constants: StreamConsumer, and Caches below it.                     *)
(*                                                                         *)
(* StreamConsumer's Inv is inductive.  Its parts are preserved one lemma   *)
(* each: TypeStep, GroupStep, PelStep, ItemStep, StepStep, LossStep and    *)
(* DeadLetterStep, every one of them by a case split on the action taken.  *)
(* GrowsStep says once what no action takes back: log entries, handled and *)
(* missed events, dead letters, staleness.  OnceInv is the strengthening   *)
(* of WorkedOnce.                                                          *)
(*                                                                         *)
(* The two parts of Caches share no variable: each has its own             *)
(* strengthening, and a step of one leaves the other's as it is.           *)
(***************************************************************************)
EXTENDS StreamConsumer, Caches, FiniteSetTheorems, TLAPS

\* An entry that is read from the log makes a well-formed item to work on.
LEMMA ItemOfType ==
  ASSUME TypeOK, NEW i \in 1..Len(log) PROVE ItemOf(i) \in Item
<1>1. log[i] \in Fields
  BY DEF TypeOK
<1> QED
  BY <1>1, ConstantsAssumption DEF ItemOf, Item, Fields, Data

\* The placeholder for "no item in hand" has the type of an item.
LEMMA NoItemType == NoItem \in Item
  BY ConstantsAssumption DEF NoItem, Item, Data

\* Whatever Redis answers, the number of faults stays within its bound.
LEMMA ReplyType ==
  ASSUME faults \in 0..MaxFaults, NEW r, Reply(r) PROVE faults' \in 0..MaxFaults
  BY ConstantsAssumption DEF Reply

\* Entry ids are natural numbers: the stream is a finite sequence.
LEMMA LenType == TypeOK => Len(log) \in Nat
  BY DEF TypeOK

\* The data of an entry's fields is a payload or the missing one.
LEMMA DataOfType ==
  ASSUME TypeOK, NEW S, S \subseteq 1..Len(log) PROVE DataOf(S) \subseteq Data
<1>1. \A i \in 1..Len(log) : log[i] \in Fields
  BY DEF TypeOK
<1> QED
  BY <1>1 DEF DataOf, Fields

\* XADD keeps the stream well typed and its old entries where they are.
LEMMA AppendType ==
  ASSUME TypeOK, NEW f \in Fields
  PROVE  /\ Append(log, f) \in Seq(Fields)
         /\ Len(Append(log, f)) = Len(log) + 1
         /\ Append(log, f)[Len(log) + 1] = f
         /\ \A i \in 1..Len(log) : Append(log, f)[i] = log[i]
         /\ 1..Len(log) \subseteq 1..Len(Append(log, f))
         /\ 0..Len(log) \subseteq 0..Len(Append(log, f))
         /\ Len(log) + 1 \in 1..Len(Append(log, f))
  BY DEF TypeOK

\* What no step takes back: entries of the stream keep their id and fields, and
\* what was handled, missed, dead-lettered or too old stays so.
Grows ==
  /\ 1..Len(log) \subseteq 1..Len(log')
  /\ \A i \in 1..Len(log) : log'[i] = log[i]
  /\ missed \subseteq missed' /\ handled \subseteq handled'
  /\ dlq \subseteq dlq' /\ stale \subseteq stale'

\* One event is accounted for; NoSilentLoss says it of every entry of the log.
Safe(d) ==
  \/ Settled(d) \/ d \in missed \/ d = NoData
  \/ d \in DataOf(pel) \/ d \in DataOf(Undelivered)

\* A step keeps every event accounted for when it does so for what was
\* pending, what was undelivered and what it adds to the log.
LEMMA Accounted ==
  ASSUME TypeOK, NoSilentLoss, Grows,
         \A i \in pel : Safe(log[i].data)',
         \A i \in Undelivered : Safe(log[i].data)',
         \A i \in 1..Len(log') : i \in 1..Len(log) \/ Safe(log[i].data)'
  PROVE  NoSilentLoss'
<1>1. SUFFICES ASSUME NEW i \in 1..Len(log') PROVE Safe(log[i].data)'
  BY DEF NoSilentLoss, Safe, Published
<1>2. CASE i \notin 1..Len(log)
  BY <1>2
<1>3. CASE i \in 1..Len(log)
  <2>1. log'[i] = log[i]
    BY <1>3 DEF Grows
  <2>2. Safe(log[i].data)
    BY <1>3 DEF NoSilentLoss, Safe, Published
  <2>3. CASE Settled(log[i].data) \/ log[i].data \in missed \/ log[i].data = NoData
    BY <2>1, <2>3 DEF Safe, Settled, DeadLettered, Grows
  <2>4. CASE \E j \in pel \cup Undelivered : log[i].data = log[j].data
    <3>1. PICK j \in pel \cup Undelivered : log[i].data = log[j].data
      BY <2>4
    <3>2. log'[j] = log[j]
      BY DEF TypeOK, Undelivered, Grows
    <3>3. Safe(log[j].data)'
      BY <3>1
    <3> QED
      BY <2>1, <3>1, <3>2, <3>3
  <2> QED
    BY <2>2, <2>3, <2>4 DEF Safe, DataOf
<1> QED
  BY <1>2, <1>3

\* A step that touches neither the group, its PEL, the dead letters nor the
\* stream loses no event.
LEMMA SafeQuiet ==
  ASSUME TypeOK, NoSilentLoss, Grows,
         UNCHANGED <<log, pel, stream, group, last>>
  PROVE  NoSilentLoss'
<1>1. \A i \in pel \cup Undelivered : Safe(log[i].data)'
  BY DEF Safe, DataOf, Undelivered
<1> QED
  BY <1>1, Accounted

\* Every step of the consumer, the producers and Redis preserves the types.
LEMMA TypeStep == Inv /\ [Next]_vars => TypeOK'
<1>0. SUFFICES ASSUME Inv, [Next]_vars PROVE TypeOK'
  OBVIOUS
<1>a. TypeOK
  BY <1>0 DEF Inv
<1> USE DEF TypeOK, Phases, redis, client, history
<1>1. ASSUME NEW p \in Payload, Produce(p) PROVE TypeOK'
  <2>1. [data |-> p, retries |-> 0] \in Fields
    BY ConstantsAssumption DEF Fields, Data
  <2>2. /\ log' \in Seq(Fields) /\ Len(log') = Len(log) + 1
        /\ 1..Len(log) \subseteq 1..Len(log') /\ 0..Len(log) \subseteq 0..Len(log')
        /\ Len(log) + 1 \in 1..Len(log')
    BY <1>a, <1>1, <2>1, AppendType DEF Produce
  <2>3. stream' \subseteq 1..Len(log') /\ missed' \subseteq Data
    <3>1. PICK cut \in 0..Len(log) :
            LET kept == {i \in stream \cup {Len(log) + 1} : cut < i}
            IN stream' = kept /\ missed' = missed \cup DataOf(stream \ kept)
      BY <1>1 DEF Produce
    <3> QED
      BY <1>a, <3>1, <2>2, DataOfType
  <2>4. dlq' \subseteq [id : 1..Len(log'), data : Data]
    BY <1>a, <1>1, <2>2 DEF Produce
  <2> QED
    BY <1>a, <1>1, <2>2, <2>3, <2>4 DEF Produce
<1>2. ASSUME NEW p \in Payload, Age(p) PROVE TypeOK'
  BY <1>a, <1>2 DEF Age
<1>3. CASE Start
  <2>1. starts' \in 0..MaxStarts
    BY <1>a, <1>3, ConstantsAssumption DEF Start
  <2> QED
    BY <1>a, <1>3, <2>1 DEF Start
<1>4. CASE Crash
  BY <1>a, <1>4, NoItemType DEF Crash
<1>5. CASE Stop
  BY <1>a, <1>5 DEF Stop
<1>6. CASE CreateGroup
  <2>1. Len(log) \in 0..Len(log)
    BY <1>a, LenType
  <2>2. DataOf(stream) \subseteq Data
    BY <1>a, DataOfType
  <2> QED
    BY <1>a, <1>6, <2>1, <2>2, ReplyType DEF CreateGroup
<1>7. CASE InspectGroup
  BY <1>a, <1>7, ReplyType DEF InspectGroup
<1>8. CASE DestroyGroup
  <2>1. 0 \in 0..Len(log)
    BY <1>a, LenType
  <2> QED
    BY <1>a, <1>8, <2>1, ReplyType DEF DestroyGroup
<1>9. CASE RecreateGroup
  BY <1>a, <1>9, ReplyType DEF RecreateGroup
<1>10. CASE ReadPending
  <2>1. \A i \in pel : ItemOf(i) \in Item
    BY <1>a, ItemOfType
  <2>2. batch' \subseteq Item
    BY <1>a, <1>10, <2>1 DEF ReadPending
  <2> QED
    BY <1>a, <1>10, <2>2, ReplyType DEF ReadPending
<1>11. CASE ReadNew
  <2>1. \A i \in Undelivered : ItemOf(i) \in Item /\ i \in 1..Len(log)
    BY <1>a, ItemOfType DEF Undelivered
  <2>2. batch' \subseteq Item /\ last' \in 0..Len(log) /\ pel' \subseteq 1..Len(log)
    BY <1>a, <1>11, <2>1, LenType DEF ReadNew
  <2>3. faults' \in 0..MaxFaults
    BY <1>a, <1>11, ReplyType DEF ReadNew
  <2> QED
    BY <1>a, <1>11, <2>2, <2>3 DEF ReadNew
<1>12. CASE LeaveLoop
  BY <1>a, <1>12 DEF LeaveLoop
<1>13. CASE EndBatch
  BY <1>a, <1>13 DEF EndBatch
<1>14. CASE BeginMessage
  <2>1. PICK m \in batch :
          /\ cur' = m /\ batch' = batch \ {m}
          /\ IF TooOld(m)
             THEN pc' = "dlqAdd" /\ inTry' = TRUE /\ UNCHANGED attempts
             ELSE /\ pc' = "callback" /\ inTry' = FALSE
                  /\ attempts' = [attempts EXCEPT ![m.data] = @ + 1]
    BY <1>14 DEF BeginMessage
  <2>2. attempts' \in [Payload -> Nat]
    BY <1>a, <2>1
  <2> QED
    BY <1>a, <1>14, <2>1, <2>2 DEF BeginMessage
<1>15. CASE CallbackReturns
  <2>1. cur.data \in Payload
    BY <1>15, <1>0 DEF Inv, StepInv, CallbackReturns
  <2> QED
    BY <1>a, <1>15, <2>1 DEF CallbackReturns
<1>16. CASE CallbackRaises
  BY <1>a, <1>16 DEF CallbackRaises, Rescue
<1>17. CASE Acknowledge
  BY <1>a, <1>17, ReplyType DEF Acknowledge, Returned, Rescue
<1>18. CASE RetryAdd
  <2>1. [data |-> cur.data, retries |-> cur.retries + 1] \in Fields
    <3>1. cur.retries < MaxRetries
      BY <1>18, <1>0 DEF Inv, StepInv, RetryAdd
    <3> QED
      BY <1>a, <3>1, ConstantsAssumption DEF Fields, Item
  <2>2. PICK r \in Replies :
          /\ Reply(r)
          /\ IF r = "refused" THEN UNCHANGED <<log, stream>>
             ELSE /\ log' = Append(log, [data |-> cur.data, retries |-> cur.retries + 1])
                  /\ stream' = stream \cup {Len(log) + 1}
          /\ IF r = "ok" THEN pc' = "retryAck" /\ batch' = batch ELSE Escaped
    BY <1>18 DEF RetryAdd
  <2>3. /\ log' \in Seq(Fields) /\ stream' \subseteq 1..Len(log')
        /\ 1..Len(log) \subseteq 1..Len(log') /\ 0..Len(log) \subseteq 0..Len(log')
    <3>1. CASE r = "refused"
      BY <1>a, <2>2, <3>1
    <3>2. CASE r # "refused"
      <4>1. log' = Append(log, [data |-> cur.data, retries |-> cur.retries + 1])
        BY <2>2, <3>2
      <4>2. /\ log' \in Seq(Fields) /\ Len(log) + 1 \in 1..Len(log')
            /\ 1..Len(log) \subseteq 1..Len(log') /\ 0..Len(log) \subseteq 0..Len(log')
        BY <1>a, <2>1, <4>1, AppendType
      <4> QED
        BY <1>a, <2>2, <3>2, <4>2
    <3> QED
      BY <3>1, <3>2
  <2>4. dlq' \subseteq [id : 1..Len(log'), data : Data] /\ faults' \in 0..MaxFaults
    BY <1>a, <1>18, <2>2, <2>3, ReplyType DEF RetryAdd
  <2>5. pc' \in Phases /\ batch' \subseteq Item
    BY <1>a, <2>2 DEF Escaped, Returned
  <2> QED
    BY <1>a, <1>18, <2>3, <2>4, <2>5 DEF RetryAdd
<1>19. CASE RetryAck
  BY <1>a, <1>19, ReplyType DEF RetryAck, Returned, Escaped
<1>20. CASE DeadLetterAdd
  <2>1. [id |-> cur.id, data |-> cur.data] \in [id : 1..Len(log), data : Data]
    BY <1>a, <1>0, <1>20 DEF Inv, ItemInv, Busy, Genuine, DeadLetterAdd, Item
  <2> QED
    BY <1>a, <1>20, <2>1, ReplyType
    DEF DeadLetterAdd, DeadLetterFails, Rescue, Escaped, Returned
<1>21. CASE DeadLetterAck
  BY <1>a, <1>21, ReplyType DEF DeadLetterAck, DeadLetterFails, Rescue, Escaped, Returned
<1>22. CASE DeadLetterDelete
  BY <1>a, <1>22, ReplyType DEF DeadLetterDelete, DeadLetterFails, Rescue, Escaped, Returned
<1>23. CASE UNCHANGED vars
  BY <1>a, <1>23 DEF vars
<1> QED
  BY <1>0, <1>1, <1>2, <1>3, <1>4, <1>5, <1>6, <1>7, <1>8, <1>9, <1>10, <1>11, <1>12, <1>13, <1>14, <1>15, <1>16, <1>17, <1>18, <1>19, <1>20, <1>21, <1>22, <1>23
     DEF Next, ConsumerStep, Setup, ProcessMessage

\* No step removes or rewrites an entry of the stream.
LEMMA GrowsStep == Inv /\ [Next]_vars => Grows
<1>0. SUFFICES ASSUME Inv, [Next]_vars PROVE Grows
  OBVIOUS
<1>a. TypeOK
  BY <1>0 DEF Inv
<1> USE DEF Grows, redis, client, history
<1>1. ASSUME NEW p \in Payload, Produce(p) PROVE Grows
  <2>1. [data |-> p, retries |-> 0] \in Fields
    BY ConstantsAssumption DEF Fields, Data
  <2>2. /\ 1..Len(log) \subseteq 1..Len(log')
        /\ \A i \in 1..Len(log) : log'[i] = log[i]
    BY <1>a, <1>1, <2>1, AppendType DEF Produce
  <2>3. missed \subseteq missed'
    BY <1>1 DEF Produce
  <2> QED
    BY <1>1, <2>2, <2>3 DEF Produce
<1>2. ASSUME NEW p \in Payload, Age(p) PROVE Grows
  BY <1>a, <1>2 DEF Age
<1>3. CASE Start
  BY <1>a, <1>3 DEF Start
<1>4. CASE Crash
  BY <1>a, <1>4 DEF Crash
<1>5. CASE Stop
  BY <1>a, <1>5 DEF Stop
<1>6. CASE CreateGroup
  BY <1>a, <1>6 DEF CreateGroup
<1>7. CASE InspectGroup
  BY <1>a, <1>7 DEF InspectGroup
<1>8. CASE DestroyGroup
  BY <1>a, <1>8 DEF DestroyGroup
<1>9. CASE RecreateGroup
  BY <1>a, <1>9 DEF RecreateGroup
<1>10. CASE ReadPending
  BY <1>a, <1>10 DEF ReadPending
<1>11. CASE ReadNew
  BY <1>a, <1>11 DEF ReadNew
<1>12. CASE LeaveLoop
  BY <1>a, <1>12 DEF LeaveLoop
<1>13. CASE EndBatch
  BY <1>a, <1>13 DEF EndBatch
<1>14. CASE BeginMessage
  BY <1>a, <1>14 DEF BeginMessage
<1>15. CASE CallbackReturns
  BY <1>a, <1>15 DEF CallbackReturns
<1>16. CASE CallbackRaises
  BY <1>a, <1>16 DEF CallbackRaises, Rescue
<1>17. CASE Acknowledge
  BY <1>a, <1>17 DEF Acknowledge, Returned, Rescue
<1>18. CASE RetryAdd
  <2>1. cur.retries < MaxRetries
    BY <1>18, <1>0 DEF Inv, StepInv, RetryAdd
  <2>2. [data |-> cur.data, retries |-> cur.retries + 1] \in Fields
    BY <1>a, <2>1, ConstantsAssumption DEF TypeOK, Fields, Item
  <2>3. \/ UNCHANGED log
        \/ log' = Append(log, [data |-> cur.data, retries |-> cur.retries + 1])
    BY <1>18 DEF RetryAdd
  <2>4. /\ 1..Len(log) \subseteq 1..Len(log')
        /\ \A i \in 1..Len(log) : log'[i] = log[i]
    BY <1>a, <2>2, <2>3, AppendType
  <2> QED
    BY <1>18, <2>4 DEF RetryAdd
<1>19. CASE RetryAck
  BY <1>a, <1>19 DEF RetryAck, Returned, Escaped
<1>20. CASE DeadLetterAdd
  BY <1>a, <1>20 DEF DeadLetterAdd, DeadLetterFails, Rescue, Escaped, Returned
<1>21. CASE DeadLetterAck
  BY <1>a, <1>21 DEF DeadLetterAck, DeadLetterFails, Rescue, Escaped, Returned
<1>22. CASE DeadLetterDelete
  BY <1>a, <1>22 DEF DeadLetterDelete, DeadLetterFails, Rescue, Escaped, Returned
<1>23. CASE UNCHANGED vars
  BY <1>a, <1>23 DEF vars
<1> QED
  BY <1>0, <1>1, <1>2, <1>3, <1>4, <1>5, <1>6, <1>7, <1>8, <1>9, <1>10, <1>11, <1>12, <1>13, <1>14, <1>15, <1>16, <1>17, <1>18, <1>19, <1>20, <1>21, <1>22, <1>23
     DEF Next, ConsumerStep, Setup, ProcessMessage

\* Every step keeps the group's position and creation point consistent.
LEMMA GroupStep == Inv /\ [Next]_vars => GroupInv'
<1>0. SUFFICES ASSUME Inv, [Next]_vars PROVE GroupInv'
  OBVIOUS
<1>a. TypeOK /\ GroupInv
  BY <1>0 DEF Inv
<1> USE DEF GroupInv, Busy, redis, client, history
<1>1. ASSUME NEW p \in Payload, Produce(p) PROVE GroupInv'
  BY <1>a, <1>1 DEF Produce
<1>2. ASSUME NEW p \in Payload, Age(p) PROVE GroupInv'
  BY <1>a, <1>2 DEF Age
<1>3. CASE Start
  BY <1>a, <1>3 DEF Start
<1>4. CASE Crash
  BY <1>a, <1>4 DEF Crash
<1>5. CASE Stop
  BY <1>a, <1>5 DEF Stop
<1>6. CASE CreateGroup
  BY <1>a, <1>6 DEF CreateGroup
<1>7. CASE InspectGroup
  BY <1>a, <1>7 DEF InspectGroup
<1>8. CASE DestroyGroup
  BY <1>a, <1>8 DEF DestroyGroup
<1>9. CASE RecreateGroup
  BY <1>a, <1>9 DEF RecreateGroup
<1>10. CASE ReadPending
  BY <1>a, <1>10 DEF ReadPending
<1>11. CASE ReadNew
  BY <1>a, <1>11 DEF ReadNew, FirstOf, Undelivered
<1>12. CASE LeaveLoop
  BY <1>a, <1>12 DEF LeaveLoop
<1>13. CASE EndBatch
  BY <1>a, <1>13 DEF EndBatch
<1>14. CASE BeginMessage
  BY <1>a, <1>14 DEF BeginMessage
<1>15. CASE CallbackReturns
  BY <1>a, <1>15 DEF CallbackReturns
<1>16. CASE CallbackRaises
  BY <1>a, <1>16 DEF CallbackRaises, Rescue
<1>17. CASE Acknowledge
  BY <1>a, <1>17 DEF Acknowledge, Returned, Rescue
<1>18. CASE RetryAdd
  BY <1>a, <1>18 DEF RetryAdd, Escaped, Returned
<1>19. CASE RetryAck
  BY <1>a, <1>19 DEF RetryAck, Returned, Escaped
<1>20. CASE DeadLetterAdd
  BY <1>a, <1>20 DEF DeadLetterAdd, DeadLetterFails, Rescue, Escaped, Returned
<1>21. CASE DeadLetterAck
  BY <1>a, <1>21 DEF DeadLetterAck, DeadLetterFails, Rescue, Escaped, Returned
<1>22. CASE DeadLetterDelete
  BY <1>a, <1>22 DEF DeadLetterDelete, DeadLetterFails, Rescue, Escaped, Returned
<1>23. CASE UNCHANGED vars
  BY <1>a, <1>23 DEF vars
<1> QED
  BY <1>0, <1>1, <1>2, <1>3, <1>4, <1>5, <1>6, <1>7, <1>8, <1>9, <1>10, <1>11, <1>12, <1>13, <1>14, <1>15, <1>16, <1>17, <1>18, <1>19, <1>20, <1>21, <1>22, <1>23
     DEF Next, ConsumerStep, Setup, ProcessMessage

\* Every step keeps the pending list within the entries the group delivered.
LEMMA PelStep == Inv /\ [Next]_vars => PelInv'
<1>0. SUFFICES ASSUME Inv, [Next]_vars PROVE PelInv'
  OBVIOUS
<1>a. TypeOK /\ GroupInv /\ PelInv /\ StepInv
  BY <1>0 DEF Inv
<1>b. Grows
  BY <1>0, GrowsStep
<1> USE DEF PelInv, redis, client, history
<1>1. ASSUME NEW p \in Payload, Produce(p) PROVE PelInv'
  <2>1. PICK cut \in 0..Len(log) :
          LET kept == {i \in stream \cup {Len(log) + 1} : cut < i}
          IN stream' = kept /\ missed' = missed \cup DataOf(stream \ kept)
    BY <1>1 DEF Produce
  <2> QED
    BY <1>a, <1>b, <1>1, <2>1 DEF Produce, TypeOK, Grows, DataOf
<1>2. ASSUME NEW p \in Payload, Age(p) PROVE PelInv'
  BY <1>a, <1>2 DEF Age
<1>3. CASE Start
  BY <1>a, <1>3 DEF Start
<1>4. CASE Crash
  BY <1>a, <1>4 DEF Crash
<1>5. CASE Stop
  BY <1>a, <1>5 DEF Stop
<1>6. CASE CreateGroup
  BY <1>a, <1>6 DEF CreateGroup, GroupInv
<1>7. CASE InspectGroup
  BY <1>a, <1>7 DEF InspectGroup
<1>8. CASE DestroyGroup
  BY <1>a, <1>8 DEF DestroyGroup, GroupInv
<1>9. CASE RecreateGroup
  BY <1>a, <1>9 DEF RecreateGroup
<1>10. CASE ReadPending
  BY <1>a, <1>10 DEF ReadPending
<1>11. CASE ReadNew
  <2>1. /\ \A i \in pel' : i \in pel \/ (i \in Undelivered /\ i <= last')
        /\ last' \in Undelivered
    BY <1>11 DEF ReadNew, FirstOf
  <2>2. last < last' /\ Undelivered \subseteq stream
    BY <1>11, <2>1 DEF ReadNew, Undelivered
  <2>3. last \in Int /\ last' \in Int /\ \A i \in pel : i \in Int
    BY <1>a, <2>1, LenType DEF TypeOK, Undelivered
  <2>4. UNCHANGED <<log, stream, missed>>
    BY <1>11 DEF ReadNew
  <2>5. ASSUME NEW i \in pel' PROVE i <= last' /\ (i \in stream \/ log[i].data \in missed)
    <3>1. CASE i \in pel
      BY <1>a, <2>2, <2>3, <3>1
    <3>2. CASE i \in Undelivered /\ i <= last'
      BY <2>2, <3>2
    <3> QED
      BY <2>1, <2>5, <3>1, <3>2
  <2> QED
    BY <2>4, <2>5
<1>12. CASE LeaveLoop
  BY <1>a, <1>12 DEF LeaveLoop
<1>13. CASE EndBatch
  BY <1>a, <1>13 DEF EndBatch
<1>14. CASE BeginMessage
  BY <1>a, <1>14 DEF BeginMessage
<1>15. CASE CallbackReturns
  BY <1>a, <1>15 DEF CallbackReturns
<1>16. CASE CallbackRaises
  BY <1>a, <1>16 DEF CallbackRaises
<1>17. CASE Acknowledge
  BY <1>a, <1>17 DEF Acknowledge
<1>18. CASE RetryAdd
  <2>1. stream \subseteq stream' /\ UNCHANGED <<pel, last, missed>>
    BY <1>18 DEF RetryAdd
  <2> QED
    BY <1>a, <1>b, <2>1 DEF Grows, TypeOK
<1>19. CASE RetryAck
  BY <1>a, <1>19 DEF RetryAck
<1>20. CASE DeadLetterAdd
  BY <1>a, <1>20 DEF DeadLetterAdd
<1>21. CASE DeadLetterAck
  BY <1>a, <1>21 DEF DeadLetterAck
<1>22. CASE DeadLetterDelete
  <2>1. cur.id \notin pel
    BY <1>a, <1>22 DEF DeadLetterDelete, StepInv
  <2> QED
    BY <1>a, <1>22, <2>1 DEF DeadLetterDelete
<1>23. CASE UNCHANGED vars
  BY <1>a, <1>23 DEF vars
<1> QED
  BY <1>0, <1>1, <1>2, <1>3, <1>4, <1>5, <1>6, <1>7, <1>8, <1>9, <1>10, <1>11, <1>12, <1>13, <1>14, <1>15, <1>16, <1>17, <1>18, <1>19, <1>20, <1>21, <1>22, <1>23
     DEF Next, ConsumerStep, Setup, ProcessMessage

\* Every step keeps the items in hand true to the entries they were read from.
LEMMA ItemStep == Inv /\ [Next]_vars => ItemInv'
<1>0. SUFFICES ASSUME Inv, [Next]_vars PROVE ItemInv'
  OBVIOUS
<1>a. TypeOK /\ GroupInv /\ PelInv /\ ItemInv
  BY <1>0 DEF Inv
<1>b. Grows
  BY <1>0, GrowsStep
<1> USE DEF ItemInv, Busy, redis, client, history
<1>1. ASSUME NEW p \in Payload, Produce(p) PROVE ItemInv'
  <2>1. \A m : Genuine(m) => Genuine(m)'
    BY <1>a, <1>b, <1>1 DEF Produce, Genuine, Grows, TypeOK
  <2> QED
    BY <1>a, <1>1, <2>1 DEF Produce
<1>2. ASSUME NEW p \in Payload, Age(p) PROVE ItemInv'
  BY <1>a, <1>2 DEF Age, Genuine
<1>3. CASE Start
  BY <1>a, <1>3 DEF Start, Genuine, GroupInv
<1>4. CASE Crash
  BY <1>4 DEF Crash
<1>5. CASE Stop
  <2>1. /\ UNCHANGED <<log, last, missed>> /\ batch' \subseteq batch
        /\ cur' = cur /\ (Busy' => Busy)
    BY <1>5 DEF Stop
  <2> QED
    BY <1>a, <2>1 DEF Genuine
<1>6. CASE CreateGroup
  BY <1>a, <1>6 DEF CreateGroup, GroupInv
<1>7. CASE InspectGroup
  <2>1. /\ UNCHANGED <<log, last, missed>> /\ batch' \subseteq batch
        /\ cur' = cur /\ (Busy' => Busy)
    BY <1>7 DEF InspectGroup
  <2> QED
    BY <1>a, <2>1 DEF Genuine
<1>8. CASE DestroyGroup
  BY <1>a, <1>8 DEF DestroyGroup, GroupInv
<1>9. CASE RecreateGroup
  BY <1>a, <1>9 DEF RecreateGroup, GroupInv
<1>10. CASE ReadPending
  <2>1. \A i \in pel : Genuine(ItemOf(i))
    BY <1>a DEF PelInv, Genuine, ItemOf, TypeOK
  <2>2. \A m \in batch' : Genuine(m)
    BY <1>a, <1>10, <2>1 DEF ReadPending
  <2> QED
    BY <1>a, <1>10, <2>2 DEF ReadPending, Genuine
<1>11. CASE ReadNew
  <2>1. PICK chunk \in SUBSET Undelivered :
          /\ last' \in chunk /\ \A i \in chunk : i <= last'
          /\ batch' = {} \/ batch' = {ItemOf(i) : i \in chunk}
    BY <1>11 DEF ReadNew
  <2>2. ASSUME NEW i \in chunk
        PROVE /\ ItemOf(i).id \in 1..last'
              /\ ItemOf(i).data = log[i].data
              /\ ItemOf(i).retries = log[i].retries
              /\ ItemOf(i).id = i
    BY <1>a, <2>1, <2>2, LenType DEF ItemOf, Undelivered, TypeOK
  <2>3. UNCHANGED <<log, missed>> /\ pc' \in {"next", "loop"}
    BY <1>11 DEF ReadNew
  <2>4. \A m \in batch' : Genuine(m)'
    BY <2>1, <2>2, <2>3 DEF Genuine
  <2> QED
    BY <2>3, <2>4
<1>12. CASE LeaveLoop
  <2>1. /\ UNCHANGED <<log, last, missed>> /\ batch' \subseteq batch
        /\ cur' = cur /\ (Busy' => Busy)
    BY <1>12 DEF LeaveLoop
  <2> QED
    BY <1>a, <2>1 DEF Genuine
<1>13. CASE EndBatch
  <2>1. /\ UNCHANGED <<log, last, missed>> /\ batch' \subseteq batch
        /\ cur' = cur /\ (Busy' => Busy)
    BY <1>13 DEF EndBatch
  <2> QED
    BY <1>a, <2>1 DEF Genuine
<1>14. CASE BeginMessage
  <2>1. cur' \in batch /\ batch' \subseteq batch
    BY <1>14 DEF BeginMessage
  <2> QED
    BY <1>a, <1>14, <2>1 DEF BeginMessage, Genuine
<1>15. CASE CallbackReturns
  <2>1. /\ UNCHANGED <<log, last, missed>> /\ batch' \subseteq batch
        /\ cur' = cur /\ (Busy' => Busy)
    BY <1>15 DEF CallbackReturns
  <2> QED
    BY <1>a, <2>1 DEF Genuine
<1>16. CASE CallbackRaises
  <2>1. /\ UNCHANGED <<log, last, missed>> /\ batch' \subseteq batch
        /\ cur' = cur /\ (Busy' => Busy)
    BY <1>16 DEF CallbackRaises, Rescue
  <2> QED
    BY <1>a, <2>1 DEF Genuine
<1>17. CASE Acknowledge
  <2>1. /\ UNCHANGED <<log, last, missed>> /\ batch' \subseteq batch
        /\ cur' = cur /\ (Busy' => Busy)
    BY <1>17 DEF Acknowledge, Returned, Rescue
  <2> QED
    BY <1>a, <2>1 DEF Genuine
<1>18. CASE RetryAdd
  <2>1. Genuine(cur) /\ UNCHANGED <<cur, last>> /\ batch' \subseteq batch
    BY <1>a, <1>18 DEF RetryAdd, Escaped, Returned
  <2>2. \A m : Genuine(m) => Genuine(m)'
    BY <1>a, <1>b, <2>1 DEF Genuine, Grows, TypeOK
  <2> QED
    BY <1>a, <2>1, <2>2
<1>19. CASE RetryAck
  <2>1. /\ UNCHANGED <<log, last, missed>> /\ batch' \subseteq batch
        /\ cur' = cur /\ (Busy' => Busy)
    BY <1>19 DEF RetryAck, Returned, Escaped
  <2> QED
    BY <1>a, <2>1 DEF Genuine
<1>20. CASE DeadLetterAdd
  <2>1. /\ UNCHANGED <<log, last, missed>> /\ batch' \subseteq batch
        /\ cur' = cur /\ (Busy' => Busy)
    BY <1>20 DEF DeadLetterAdd, DeadLetterFails, Rescue, Escaped, Returned
  <2> QED
    BY <1>a, <2>1 DEF Genuine
<1>21. CASE DeadLetterAck
  <2>1. /\ UNCHANGED <<log, last, missed>> /\ batch' \subseteq batch
        /\ cur' = cur /\ (Busy' => Busy)
    BY <1>21 DEF DeadLetterAck, DeadLetterFails, Rescue, Escaped, Returned
  <2> QED
    BY <1>a, <2>1 DEF Genuine
<1>22. CASE DeadLetterDelete
  <2>1. /\ UNCHANGED <<log, last, missed>> /\ batch' \subseteq batch
        /\ cur' = cur /\ (Busy' => Busy)
    BY <1>22 DEF DeadLetterDelete, DeadLetterFails, Rescue, Escaped, Returned
  <2> QED
    BY <1>a, <2>1 DEF Genuine
<1>23. CASE UNCHANGED vars
  <2>1. /\ UNCHANGED <<log, last, missed>> /\ batch' \subseteq batch
        /\ cur' = cur /\ (Busy' => Busy)
    BY <1>23 DEF vars
  <2> QED
    BY <1>a, <2>1 DEF Genuine
<1> QED
  BY <1>0, <1>1, <1>2, <1>3, <1>4, <1>5, <1>6, <1>7, <1>8, <1>9, <1>10, <1>11, <1>12, <1>13, <1>14, <1>15, <1>16, <1>17, <1>18, <1>19, <1>20, <1>21, <1>22, <1>23
     DEF Next, ConsumerStep, Setup, ProcessMessage

\* Every step of process_message is taken with the item its program point says.
LEMMA StepStep == Inv /\ [Next]_vars => StepInv'
<1>0. SUFFICES ASSUME Inv, [Next]_vars PROVE StepInv'
  OBVIOUS
<1>a. TypeOK /\ ItemInv /\ StepInv
  BY <1>0 DEF Inv
<1>b. Grows
  BY <1>0, GrowsStep
<1> USE DEF StepInv, redis, client, history
<1>1. ASSUME NEW p \in Payload, Produce(p) PROVE StepInv'
  <2>1. PICK cut \in 0..Len(log) :
          LET kept == {i \in stream \cup {Len(log) + 1} : cut < i}
          IN stream' = kept /\ missed' = missed \cup DataOf(stream \ kept)
    BY <1>1 DEF Produce
  <2>2. Busy => cur.id \in 1..Len(log) /\ log'[cur.id] = log[cur.id]
    BY <1>a, <1>b DEF ItemInv, Genuine, TypeOK, Grows
  <2>3. Busy /\ Requeued => Requeued'
    <3>1. SUFFICES ASSUME Busy, NEW j \in Undelivered,
                     log[j] = [data |-> log[cur.id].data, retries |-> log[cur.id].retries + 1]
            PROVE Requeued'
      BY <1>b, <2>2, <1>1 DEF Requeued, Grows, Produce
    <3>2. j \in 1..Len(log) /\ log'[j] = log[j] /\ log[j].data = log[cur.id].data
      BY <1>a, <1>b, <3>1 DEF TypeOK, Grows, Undelivered
    <3>3. CASE j \in stream'
      BY <2>2, <3>1, <3>2, <3>3, <1>1 DEF Requeued, Undelivered, Produce
    <3>4. CASE j \notin stream'
      <4>1. log[j].data \in missed'
        BY <2>1, <3>1, <3>4 DEF DataOf, Undelivered
      <4> QED
        BY <2>2, <3>1, <3>2, <4>1, <1>1 DEF Requeued, Produce
    <3> QED
      BY <3>3, <3>4
  <2>4. UNCHANGED <<pc, cur, pel, dlq, stale, handled, inTry>>
    BY <1>1 DEF Produce
  <2>5. pc = "retryAck" => Requeued'
    BY <1>a, <2>3 DEF Busy
  <2>6. pc = "ack" => cur.data = log'[cur.id].data
    BY <1>a, <2>2 DEF Busy
  <2> QED
    BY <1>a, <2>4, <2>5, <2>6
<1>2. ASSUME NEW p \in Payload, Age(p) PROVE StepInv'
  <2>1. Requeued' = Requeued
    BY <1>2 DEF Age, Requeued, Undelivered
  <2> QED
    BY <1>a, <2>1, <1>2 DEF Age
<1>3. CASE Start
  <2>1. pc' \notin {"callback", "ack", "retryAdd", "retryAck", "dlqAdd", "dlqAck", "dlqDel"}
    BY <1>3 DEF Start
  <2> QED
    BY <2>1
<1>4. CASE Crash
  <2>1. pc' \notin {"callback", "ack", "retryAdd", "retryAck", "dlqAdd", "dlqAck", "dlqDel"}
    BY <1>4 DEF Crash
  <2> QED
    BY <2>1
<1>5. CASE Stop
  <2>1. Requeued' = Requeued
    BY <1>5 DEF Stop, Requeued, Undelivered
  <2> QED
    BY <1>a, <2>1, <1>5 DEF Stop
<1>6. CASE CreateGroup
  <2>1. pc' \notin {"callback", "ack", "retryAdd", "retryAck", "dlqAdd", "dlqAck", "dlqDel"}
    BY <1>6 DEF CreateGroup
  <2> QED
    BY <2>1
<1>7. CASE InspectGroup
  <2>1. pc' \notin {"callback", "ack", "retryAdd", "retryAck", "dlqAdd", "dlqAck", "dlqDel"}
    BY <1>7 DEF InspectGroup
  <2> QED
    BY <2>1
<1>8. CASE DestroyGroup
  <2>1. pc' \notin {"callback", "ack", "retryAdd", "retryAck", "dlqAdd", "dlqAck", "dlqDel"}
    BY <1>8 DEF DestroyGroup
  <2> QED
    BY <2>1
<1>9. CASE RecreateGroup
  <2>1. pc' \notin {"callback", "ack", "retryAdd", "retryAck", "dlqAdd", "dlqAck", "dlqDel"}
    BY <1>9 DEF RecreateGroup
  <2> QED
    BY <2>1
<1>10. CASE ReadPending
  <2>1. pc' \notin {"callback", "ack", "retryAdd", "retryAck", "dlqAdd", "dlqAck", "dlqDel"}
    BY <1>10 DEF ReadPending
  <2> QED
    BY <2>1
<1>11. CASE ReadNew
  <2>1. pc' \notin {"callback", "ack", "retryAdd", "retryAck", "dlqAdd", "dlqAck", "dlqDel"}
    BY <1>11 DEF ReadNew
  <2> QED
    BY <2>1
<1>12. CASE LeaveLoop
  <2>1. pc' \notin {"callback", "ack", "retryAdd", "retryAck", "dlqAdd", "dlqAck", "dlqDel"}
    BY <1>12 DEF LeaveLoop
  <2> QED
    BY <2>1
<1>13. CASE EndBatch
  <2>1. pc' \notin {"callback", "ack", "retryAdd", "retryAck", "dlqAdd", "dlqAck", "dlqDel"}
    BY <1>13 DEF EndBatch
  <2> QED
    BY <2>1
<1>14. CASE BeginMessage
  <2>1. PICK m \in batch :
          /\ cur' = m
          /\ IF TooOld(m) THEN pc' = "dlqAdd" /\ inTry' = TRUE
                          ELSE pc' = "callback" /\ inTry' = FALSE
    BY <1>14 DEF BeginMessage
  <2>2. m.data \in Data
    BY <1>a DEF TypeOK, Item
  <2> QED
    BY <1>a, <2>1, <2>2, <1>14 DEF BeginMessage, TooOld, Data
<1>15. CASE CallbackReturns
  <2>1. cur.data = log[cur.id].data
    BY <1>a, ConstantsAssumption, <1>15 DEF CallbackReturns, ItemInv, Busy, Genuine
  <2> QED
    BY <2>1, <1>15 DEF CallbackReturns
<1>16. CASE CallbackRaises
  <2>1. pc' = IF cur.retries >= MaxRetries THEN "dlqAdd" ELSE "retryAdd"
    BY <1>16 DEF CallbackRaises, Rescue
  <2>2. cur.retries \in 0..MaxRetries /\ cur' = cur
    BY <1>a, <1>16 DEF TypeOK, Item, CallbackRaises
  <2> QED
    BY <2>1, <2>2, ConstantsAssumption
<1>17. CASE Acknowledge
  <2>1. pc' \in {"next", "retryAdd", "dlqAdd"}
    BY <1>17 DEF Acknowledge, Returned, Rescue
  <2>2. pc' # "next" => pc' = IF cur.retries >= MaxRetries THEN "dlqAdd" ELSE "retryAdd"
    BY <1>17 DEF Acknowledge, Returned, Rescue
  <2>3. cur.retries \in 0..MaxRetries /\ cur' = cur
    BY <1>a, <1>17 DEF TypeOK, Item, Acknowledge
  <2> QED
    BY <2>1, <2>2, <2>3, ConstantsAssumption
<1>18. CASE RetryAdd
  <2>1. Genuine(cur) /\ cur.retries < MaxRetries
    BY <1>a, <1>18 DEF RetryAdd, ItemInv, Busy
  <2>2. [data |-> cur.data, retries |-> cur.retries + 1] \in Fields
    BY <1>a, <2>1, ConstantsAssumption DEF TypeOK, Fields, Item
  <2>3. /\ cur.id \in 1..Len(log) /\ Len(log) + 1 \in 1..Len(log)+1
        /\ last < Len(log) + 1
    BY <1>a, <2>1 DEF Genuine, TypeOK
  <2>4. CASE pc' = "retryAck"
    <3>1. /\ log' = Append(log, [data |-> cur.data, retries |-> cur.retries + 1])
          /\ stream' = stream \cup {Len(log) + 1}
      BY <2>4, <1>18 DEF RetryAdd, Escaped, Returned
    <3>2. log'[Len(log) + 1] = [data |-> cur.data, retries |-> cur.retries + 1]
      BY <1>a, <2>2, <3>1, AppendType
    <3>3. UNCHANGED <<last, group, cur, missed>>
      BY <1>18 DEF RetryAdd
    <3>4. Len(log) + 1 \in Undelivered'
      BY <2>3, <3>1, <3>3 DEF Undelivered
    <3>5. log'[cur.id] = log[cur.id]
      BY <1>b, <2>3 DEF Grows
    <3>6. Requeued'
      BY <2>1, <3>2, <3>3, <3>4, <3>5 DEF Requeued, Genuine
    <3> QED
      BY <2>4, <3>6
  <2>5. CASE pc' # "retryAck"
    BY <2>5, <1>18 DEF RetryAdd, Escaped, Returned
  <2> QED
    BY <2>4, <2>5
<1>19. CASE RetryAck
  <2>1. pc' \notin {"callback", "ack", "retryAdd", "retryAck", "dlqAdd", "dlqAck", "dlqDel"}
    BY <1>19 DEF RetryAck, Returned, Escaped
  <2> QED
    BY <2>1
<1>20. CASE DeadLetterAdd
  <2>1. PICK r \in Replies :
          /\ r = "ok" => pc' = "dlqAck"
          /\ r # "ok" => DeadLetterFails
          /\ r = "ok" => [id |-> cur.id, data |-> cur.data] \in dlq'
    BY <1>20 DEF DeadLetterAdd
  <2>2. cur' = cur /\ cur.retries \in 0..MaxRetries
    BY <1>a, <1>20 DEF TypeOK, Item, DeadLetterAdd
  <2>3. CASE r = "ok"
    BY <1>a, <2>1, <2>2, <2>3
  <2>4. CASE r # "ok"
    <3>1. \/ pc' \in {"next", "loop"}
          \/ pc' = IF cur.retries >= MaxRetries THEN "dlqAdd" ELSE "retryAdd"
      BY <2>1, <2>4 DEF DeadLetterFails, Rescue, Escaped, Returned
    <3> QED
      BY <2>2, <3>1, ConstantsAssumption
  <2> QED
    BY <2>3, <2>4
<1>21. CASE DeadLetterAck
  <2>1. PICK r \in Replies :
          /\ r = "ok" => pc' = "dlqDel"
          /\ r # "ok" => DeadLetterFails
          /\ r = "ok" => cur.id \notin pel' /\ dlq' = dlq /\ pc = "dlqAck"
    BY <1>21 DEF DeadLetterAck
  <2>2. cur' = cur /\ cur.retries \in 0..MaxRetries
    BY <1>a, <1>21 DEF TypeOK, Item, DeadLetterAck
  <2>3. CASE r = "ok"
    BY <1>a, <2>1, <2>2, <2>3
  <2>4. CASE r # "ok"
    <3>1. \/ pc' \in {"next", "loop"}
          \/ pc' = IF cur.retries >= MaxRetries THEN "dlqAdd" ELSE "retryAdd"
      BY <2>1, <2>4 DEF DeadLetterFails, Rescue, Escaped, Returned
    <3> QED
      BY <2>2, <3>1, ConstantsAssumption
  <2> QED
    BY <2>3, <2>4
<1>22. CASE DeadLetterDelete
  <2>1. PICK r \in Replies :
          /\ r = "ok" => pc' = "next"
          /\ r # "ok" => DeadLetterFails
          /\ TRUE
    BY <1>22 DEF DeadLetterDelete, Returned
  <2>2. cur' = cur /\ cur.retries \in 0..MaxRetries
    BY <1>a, <1>22 DEF TypeOK, Item, DeadLetterDelete
  <2>3. CASE r = "ok"
    BY <1>a, <2>1, <2>2, <2>3
  <2>4. CASE r # "ok"
    <3>1. \/ pc' \in {"next", "loop"}
          \/ pc' = IF cur.retries >= MaxRetries THEN "dlqAdd" ELSE "retryAdd"
      BY <2>1, <2>4 DEF DeadLetterFails, Rescue, Escaped, Returned
    <3> QED
      BY <2>2, <3>1, ConstantsAssumption
  <2> QED
    BY <2>3, <2>4
<1>23. CASE UNCHANGED vars
  <2>1. Requeued' = Requeued
    BY <1>23 DEF vars, Requeued, Undelivered
  <2> QED
    BY <1>a, <2>1, <1>23 DEF vars
<1> QED
  BY <1>0, <1>1, <1>2, <1>3, <1>4, <1>5, <1>6, <1>7, <1>8, <1>9, <1>10, <1>11, <1>12, <1>13, <1>14, <1>15, <1>16, <1>17, <1>18, <1>19, <1>20, <1>21, <1>22, <1>23
     DEF Next, ConsumerStep, Setup, ProcessMessage

\* No step makes an event disappear: the induction step of NoSilentLoss.
LEMMA LossStep == Inv /\ [Next]_vars => NoSilentLoss'
<1>0. SUFFICES ASSUME Inv, [Next]_vars PROVE NoSilentLoss'
  OBVIOUS
<1>a. TypeOK /\ GroupInv /\ ItemInv /\ StepInv /\ NoSilentLoss
  BY <1>0 DEF Inv
<1>b. Grows
  BY <1>0, GrowsStep
<1> USE DEF redis, client, history
<1>1. ASSUME NEW p \in Payload, Produce(p) PROVE NoSilentLoss'
  <2>1. PICK cut \in 0..Len(log) :
          LET kept == {i \in stream \cup {Len(log) + 1} : cut < i}
          IN stream' = kept /\ missed' = missed \cup DataOf(stream \ kept)
    BY <1>1 DEF Produce
  <2>2. UNCHANGED <<pel, group, last>>
    BY <1>1 DEF Produce
  <2>3. log' = Append(log, [data |-> p, retries |-> 0])
    BY <1>1 DEF Produce
  <2>4. \A i \in pel : Safe(log[i].data)'
    BY <2>2 DEF Safe, DataOf
  <2>5. ASSUME NEW i \in Undelivered PROVE Safe(log[i].data)'
    <3>1. log'[i] = log[i]
      BY <1>a, <1>b DEF TypeOK, Grows, Undelivered
    <3>2. CASE i \in stream'
      BY <2>2, <3>2 DEF Safe, DataOf, Undelivered
    <3>3. CASE i \notin stream'
      BY <2>1, <3>1, <3>3 DEF Safe, DataOf, Undelivered
    <3> QED
      BY <3>2, <3>3
  <2>6. ASSUME NEW i \in 1..Len(log'), i \notin 1..Len(log) PROVE Safe(log[i].data)'
    <3>1. [data |-> p, retries |-> 0] \in Fields
      BY ConstantsAssumption DEF Fields, Data
    <3>2. i = Len(log) + 1
      BY <1>a, <2>3, <2>6, <3>1, AppendType, LenType
    <3>3. i \in stream' /\ (group => last < i)
      BY <1>a, <2>1, <3>2, LenType DEF TypeOK
    <3> QED
      BY <2>2, <3>3 DEF Safe, DataOf, Undelivered
  <2> QED
    BY <1>a, <1>b, <2>4, <2>5, <2>6, Accounted
<1>2. ASSUME NEW p \in Payload, Age(p) PROVE NoSilentLoss'
  <2>1. UNCHANGED <<log, pel, stream, group, last>>
    BY <1>2 DEF Age
  <2> QED
    BY <1>a, <1>b, <2>1, SafeQuiet
<1>3. CASE Start
  <2>1. UNCHANGED <<log, pel, stream, group, last>>
    BY <1>3 DEF Start
  <2> QED
    BY <1>a, <1>b, <2>1, SafeQuiet
<1>4. CASE Crash
  <2>1. UNCHANGED <<log, pel, stream, group, last>>
    BY <1>4 DEF Crash
  <2> QED
    BY <1>a, <1>b, <2>1, SafeQuiet
<1>5. CASE Stop
  <2>1. UNCHANGED <<log, pel, stream, group, last>>
    BY <1>5 DEF Stop
  <2> QED
    BY <1>a, <1>b, <2>1, SafeQuiet
<1>6. CASE CreateGroup
  <2>1. CASE UNCHANGED <<group, last>>
    <3>1. UNCHANGED <<log, pel, stream, group, last>>
      BY <1>6, <2>1 DEF CreateGroup
    <3> QED
      BY <1>a, <1>b, <3>1, SafeQuiet
  <2>2. CASE ~UNCHANGED <<group, last>>
    <3>1. missed' = missed \cup DataOf(stream) /\ UNCHANGED <<log, pel, stream>>
      BY <1>6, <2>2 DEF CreateGroup
    <3>2. \A i \in pel \cup Undelivered : Safe(log[i].data)'
      BY <3>1 DEF Safe, DataOf, Undelivered
    <3> QED
      BY <1>a, <1>b, <3>1, <3>2, Accounted
  <2> QED
    BY <2>1, <2>2
<1>7. CASE InspectGroup
  <2>1. UNCHANGED <<log, pel, stream, group, last>>
    BY <1>7 DEF InspectGroup
  <2> QED
    BY <1>a, <1>b, <2>1, SafeQuiet
<1>8. CASE DestroyGroup
  <2>1. pel = {} /\ UNCHANGED <<log, stream>>
    BY <1>a, <1>8 DEF DestroyGroup, GroupInv
  <2>2. UNCHANGED <<group, last>> \/ group' = FALSE
    BY <1>8 DEF DestroyGroup
  <2>3. \A i \in Undelivered : Safe(log[i].data)'
    BY <2>1, <2>2 DEF Safe, DataOf, Undelivered
  <2> QED
    BY <1>a, <1>b, <2>1, <2>3, Accounted
<1>9. CASE RecreateGroup
  <2>1. ~group /\ last = 0 /\ UNCHANGED <<log, pel, stream, last>>
    BY <1>a, <1>9 DEF RecreateGroup, GroupInv
  <2>2. ASSUME NEW i \in Undelivered PROVE i \in Undelivered'
    BY <1>a, <2>1, LenType DEF Undelivered, TypeOK
  <2>3. \A i \in pel \cup Undelivered : Safe(log[i].data)'
    BY <2>1, <2>2 DEF Safe, DataOf
  <2> QED
    BY <1>a, <1>b, <2>1, <2>3, Accounted
<1>10. CASE ReadPending
  <2>1. UNCHANGED <<log, pel, stream, group, last>>
    BY <1>10 DEF ReadPending
  <2> QED
    BY <1>a, <1>b, <2>1, SafeQuiet
<1>11. CASE ReadNew
  <2>1. PICK chunk \in SUBSET Undelivered :
          /\ FirstOf(chunk, Undelivered, BatchSize)
          /\ last' \in chunk /\ \A i \in chunk : i <= last'
          /\ pel' = pel \cup chunk
    BY <1>11 DEF ReadNew
  <2>2. UNCHANGED <<log, stream, group>>
    BY <1>11 DEF ReadNew
  <2>3. PICK k \in Undelivered : chunk = {i \in Undelivered : i <= k}
    BY <2>1 DEF FirstOf
  <2>4. ASSUME NEW i \in Undelivered PROVE i \in pel' \/ i \in Undelivered'
    <3>1. i \in Int /\ last' \in Int /\ k \in Int
      BY <1>a, <2>1 DEF TypeOK, Undelivered
    <3>2. CASE i <= k
      BY <2>1, <2>3, <3>2
    <3>3. CASE k < i
      BY <2>1, <2>2, <2>3, <3>1, <3>3 DEF Undelivered
    <3> QED
      BY <3>1, <3>2, <3>3
  <2>5. \A i \in pel \cup Undelivered : Safe(log[i].data)'
    BY <2>1, <2>2, <2>4 DEF Safe, DataOf
  <2> QED
    BY <1>a, <1>b, <2>2, <2>5, Accounted
<1>12. CASE LeaveLoop
  <2>1. UNCHANGED <<log, pel, stream, group, last>>
    BY <1>12 DEF LeaveLoop
  <2> QED
    BY <1>a, <1>b, <2>1, SafeQuiet
<1>13. CASE EndBatch
  <2>1. UNCHANGED <<log, pel, stream, group, last>>
    BY <1>13 DEF EndBatch
  <2> QED
    BY <1>a, <1>b, <2>1, SafeQuiet
<1>14. CASE BeginMessage
  <2>1. UNCHANGED <<log, pel, stream, group, last>>
    BY <1>14 DEF BeginMessage
  <2> QED
    BY <1>a, <1>b, <2>1, SafeQuiet
<1>15. CASE CallbackReturns
  <2>1. UNCHANGED <<log, pel, stream, group, last>>
    BY <1>15 DEF CallbackReturns
  <2> QED
    BY <1>a, <1>b, <2>1, SafeQuiet
<1>16. CASE CallbackRaises
  <2>1. UNCHANGED <<log, pel, stream, group, last>>
    BY <1>16 DEF CallbackRaises
  <2> QED
    BY <1>a, <1>b, <2>1, SafeQuiet
<1>17. CASE Acknowledge
  <2>1. /\ pel' = pel \/ pel' = pel \ {cur.id}
        /\ UNCHANGED <<log, stream, group, last, handled, dlq, missed>>
    BY <1>17 DEF Acknowledge
  <2>2. Safe(log[cur.id].data)'
    BY <1>a, <2>1, <1>17 DEF Acknowledge, StepInv, Safe, Settled
  <2>3. ASSUME NEW i \in pel \cup Undelivered PROVE Safe(log[i].data)'
    <3>1. CASE i = cur.id
      BY <2>2, <3>1, <1>17 DEF Acknowledge
    <3>2. CASE i \in Undelivered
      BY <2>1, <3>2 DEF Safe, DataOf, Undelivered
    <3>3. CASE i \in pel /\ i # cur.id
      BY <2>1, <3>3 DEF Safe, DataOf
    <3> QED
      BY <3>1, <3>2, <3>3
  <2> QED
    BY <1>a, <1>b, <2>1, <2>3, Accounted
<1>18. CASE RetryAdd
  <2>1. CASE UNCHANGED <<log, stream>>
    <3>1. UNCHANGED <<log, pel, stream, group, last>>
      BY <1>18, <2>1 DEF RetryAdd
    <3> QED
      BY <1>a, <1>b, <3>1, SafeQuiet
  <2>2. CASE ~UNCHANGED <<log, stream>>
    <3>1. /\ log' = Append(log, [data |-> cur.data, retries |-> cur.retries + 1])
          /\ stream' = stream \cup {Len(log) + 1}
          /\ UNCHANGED <<pel, group, last>>
      BY <1>18, <2>2 DEF RetryAdd
    <3>2. \A i \in pel \cup Undelivered : Safe(log[i].data)'
      BY <3>1 DEF Safe, DataOf, Undelivered
    <3>3. ASSUME NEW i \in 1..Len(log'), i \notin 1..Len(log) PROVE Safe(log[i].data)'
      <4>1. cur.retries < MaxRetries
        BY <1>a, <1>18 DEF RetryAdd, StepInv
      <4>2. [data |-> cur.data, retries |-> cur.retries + 1] \in Fields
        BY <1>a, <4>1, ConstantsAssumption DEF TypeOK, Fields, Item
      <4>3. i = Len(log) + 1
        BY <1>a, <3>1, <3>3, <4>2, AppendType, LenType
      <4>4. i \in stream' /\ last < i
        BY <1>a, <3>1, <4>3, LenType DEF TypeOK
      <4> QED
        BY <3>1, <4>4 DEF Safe, DataOf, Undelivered
    <3> QED
      BY <1>a, <1>b, <3>2, <3>3, Accounted
  <2> QED
    BY <2>1, <2>2
<1>19. CASE RetryAck
  <2>1. /\ pel' = pel \/ pel' = pel \ {cur.id}
        /\ UNCHANGED <<log, stream, group, last, handled, dlq, missed>>
    BY <1>19 DEF RetryAck
  <2>2. Safe(log[cur.id].data)'
    BY <1>a, <2>1, <1>19 DEF RetryAck, StepInv, Requeued, Safe, DataOf, Undelivered
  <2>3. ASSUME NEW i \in pel \cup Undelivered PROVE Safe(log[i].data)'
    <3>1. CASE i = cur.id
      BY <2>2, <3>1, <1>19 DEF RetryAck
    <3>2. CASE i \in Undelivered
      BY <2>1, <3>2 DEF Safe, DataOf, Undelivered
    <3>3. CASE i \in pel /\ i # cur.id
      BY <2>1, <3>3 DEF Safe, DataOf
    <3> QED
      BY <3>1, <3>2, <3>3
  <2> QED
    BY <1>a, <1>b, <2>1, <2>3, Accounted
<1>20. CASE DeadLetterAdd
  <2>1. UNCHANGED <<log, pel, stream, group, last>>
    BY <1>20 DEF DeadLetterAdd
  <2> QED
    BY <1>a, <1>b, <2>1, SafeQuiet
<1>21. CASE DeadLetterAck
  <2>1. /\ pel' = pel \/ pel' = pel \ {cur.id}
        /\ UNCHANGED <<log, stream, group, last, handled, dlq, missed>>
    BY <1>21 DEF DeadLetterAck
  <2>2. Safe(log[cur.id].data)'
    BY <1>a, <2>1, <1>21 DEF DeadLetterAck, StepInv, ItemInv, Busy, Genuine, Safe, Settled, DeadLettered
  <2>3. ASSUME NEW i \in pel \cup Undelivered PROVE Safe(log[i].data)'
    <3>1. CASE i = cur.id
      BY <2>2, <3>1, <1>21 DEF DeadLetterAck
    <3>2. CASE i \in Undelivered
      BY <2>1, <3>2 DEF Safe, DataOf, Undelivered
    <3>3. CASE i \in pel /\ i # cur.id
      BY <2>1, <3>3 DEF Safe, DataOf
    <3> QED
      BY <3>1, <3>2, <3>3
  <2> QED
    BY <1>a, <1>b, <2>1, <2>3, Accounted
<1>22. CASE DeadLetterDelete
  <2>1. /\ stream' = stream \/ stream' = stream \ {cur.id}
        /\ UNCHANGED <<log, pel, group, last>>
    BY <1>22 DEF DeadLetterDelete
  <2>2. cur.id \notin Undelivered
    BY <1>a, <1>22 DEF DeadLetterDelete, ItemInv, Busy, Genuine, GroupInv, TypeOK, Undelivered
  <2>3. \A i \in pel \cup Undelivered : Safe(log[i].data)'
    BY <2>1, <2>2 DEF Safe, DataOf, Undelivered
  <2> QED
    BY <1>a, <1>b, <2>1, <2>3, Accounted
<1>23. CASE UNCHANGED vars
  <2>1. UNCHANGED <<log, pel, stream, group, last>>
    BY <1>23 DEF vars
  <2> QED
    BY <1>a, <1>b, <2>1, SafeQuiet
<1> QED
  BY <1>0, <1>1, <1>2, <1>3, <1>4, <1>5, <1>6, <1>7, <1>8, <1>9, <1>10, <1>11, <1>12, <1>13, <1>14, <1>15, <1>16, <1>17, <1>18, <1>19, <1>20, <1>21, <1>22, <1>23
     DEF Next, ConsumerStep, Setup, ProcessMessage

\* No step stores a dead letter without a reason.
LEMMA DeadLetterStep == Inv /\ [Next]_vars => DeadLetterJustified'
<1>0. SUFFICES ASSUME Inv, [Next]_vars PROVE DeadLetterJustified'
  OBVIOUS
<1>a. TypeOK /\ ItemInv /\ StepInv /\ DeadLetterJustified
  BY <1>0 DEF Inv
<1>b. Grows
  BY <1>0, GrowsStep
<1> USE DEF redis, client, history
<1>1. ASSUME NEW p \in Payload, Produce(p) PROVE DeadLetterJustified'
  <2>1. dlq' = dlq
    BY <1>1 DEF Produce
  <2> QED
    BY <1>a, <1>b, <2>1 DEF DeadLetterJustified, Grows, TypeOK
<1>2. ASSUME NEW p \in Payload, Age(p) PROVE DeadLetterJustified'
  <2>1. dlq' = dlq
    BY <1>2 DEF Age
  <2> QED
    BY <1>a, <1>b, <2>1 DEF DeadLetterJustified, Grows, TypeOK
<1>3. CASE Start
  <2>1. dlq' = dlq
    BY <1>3 DEF Start
  <2> QED
    BY <1>a, <1>b, <2>1 DEF DeadLetterJustified, Grows, TypeOK
<1>4. CASE Crash
  <2>1. dlq' = dlq
    BY <1>4 DEF Crash
  <2> QED
    BY <1>a, <1>b, <2>1 DEF DeadLetterJustified, Grows, TypeOK
<1>5. CASE Stop
  <2>1. dlq' = dlq
    BY <1>5 DEF Stop
  <2> QED
    BY <1>a, <1>b, <2>1 DEF DeadLetterJustified, Grows, TypeOK
<1>6. CASE CreateGroup
  <2>1. dlq' = dlq
    BY <1>6 DEF CreateGroup
  <2> QED
    BY <1>a, <1>b, <2>1 DEF DeadLetterJustified, Grows, TypeOK
<1>7. CASE InspectGroup
  <2>1. dlq' = dlq
    BY <1>7 DEF InspectGroup
  <2> QED
    BY <1>a, <1>b, <2>1 DEF DeadLetterJustified, Grows, TypeOK
<1>8. CASE DestroyGroup
  <2>1. dlq' = dlq
    BY <1>8 DEF DestroyGroup
  <2> QED
    BY <1>a, <1>b, <2>1 DEF DeadLetterJustified, Grows, TypeOK
<1>9. CASE RecreateGroup
  <2>1. dlq' = dlq
    BY <1>9 DEF RecreateGroup
  <2> QED
    BY <1>a, <1>b, <2>1 DEF DeadLetterJustified, Grows, TypeOK
<1>10. CASE ReadPending
  <2>1. dlq' = dlq
    BY <1>10 DEF ReadPending
  <2> QED
    BY <1>a, <1>b, <2>1 DEF DeadLetterJustified, Grows, TypeOK
<1>11. CASE ReadNew
  <2>1. dlq' = dlq
    BY <1>11 DEF ReadNew
  <2> QED
    BY <1>a, <1>b, <2>1 DEF DeadLetterJustified, Grows, TypeOK
<1>12. CASE LeaveLoop
  <2>1. dlq' = dlq
    BY <1>12 DEF LeaveLoop
  <2> QED
    BY <1>a, <1>b, <2>1 DEF DeadLetterJustified, Grows, TypeOK
<1>13. CASE EndBatch
  <2>1. dlq' = dlq
    BY <1>13 DEF EndBatch
  <2> QED
    BY <1>a, <1>b, <2>1 DEF DeadLetterJustified, Grows, TypeOK
<1>14. CASE BeginMessage
  <2>1. dlq' = dlq
    BY <1>14 DEF BeginMessage
  <2> QED
    BY <1>a, <1>b, <2>1 DEF DeadLetterJustified, Grows, TypeOK
<1>15. CASE CallbackReturns
  <2>1. dlq' = dlq
    BY <1>15 DEF CallbackReturns
  <2> QED
    BY <1>a, <1>b, <2>1 DEF DeadLetterJustified, Grows, TypeOK
<1>16. CASE CallbackRaises
  <2>1. dlq' = dlq
    BY <1>16 DEF CallbackRaises
  <2> QED
    BY <1>a, <1>b, <2>1 DEF DeadLetterJustified, Grows, TypeOK
<1>17. CASE Acknowledge
  <2>1. dlq' = dlq
    BY <1>17 DEF Acknowledge
  <2> QED
    BY <1>a, <1>b, <2>1 DEF DeadLetterJustified, Grows, TypeOK
<1>18. CASE RetryAdd
  <2>1. dlq' = dlq
    BY <1>18 DEF RetryAdd
  <2> QED
    BY <1>a, <1>b, <2>1 DEF DeadLetterJustified, Grows, TypeOK
<1>19. CASE RetryAck
  <2>1. dlq' = dlq
    BY <1>19 DEF RetryAck
  <2> QED
    BY <1>a, <1>b, <2>1 DEF DeadLetterJustified, Grows, TypeOK
<1>20. CASE DeadLetterAdd
  <2>1. \A d \in dlq' : d \in dlq \/ d = [id |-> cur.id, data |-> cur.data]
    BY <1>20 DEF DeadLetterAdd
  <2>2. UNCHANGED <<log, stale>>
    BY <1>20 DEF DeadLetterAdd
  <2>3. cur.data \in stale \cup {NoData} \/ log[cur.id].retries = MaxRetries
    BY <1>a, <1>20 DEF DeadLetterAdd, StepInv, ItemInv, Busy, Genuine
  <2> QED
    BY <1>a, <2>1, <2>2, <2>3 DEF DeadLetterJustified
<1>21. CASE DeadLetterAck
  <2>1. dlq' = dlq
    BY <1>21 DEF DeadLetterAck
  <2> QED
    BY <1>a, <1>b, <2>1 DEF DeadLetterJustified, Grows, TypeOK
<1>22. CASE DeadLetterDelete
  <2>1. dlq' = dlq
    BY <1>22 DEF DeadLetterDelete
  <2> QED
    BY <1>a, <1>b, <2>1 DEF DeadLetterJustified, Grows, TypeOK
<1>23. CASE UNCHANGED vars
  <2>1. dlq' = dlq
    BY <1>23 DEF vars
  <2> QED
    BY <1>a, <1>b, <2>1 DEF DeadLetterJustified, Grows, TypeOK
<1> QED
  BY <1>0, <1>1, <1>2, <1>3, <1>4, <1>5, <1>6, <1>7, <1>8, <1>9, <1>10, <1>11, <1>12, <1>13, <1>14, <1>15, <1>16, <1>17, <1>18, <1>19, <1>20, <1>21, <1>22, <1>23
     DEF Next, ConsumerStep, Setup, ProcessMessage

\* The inductive invariant holds before the group exists.
LEMMA InitInv == Init => Inv
<1> SUFFICES ASSUME Init PROVE Inv
  OBVIOUS
<1> USE ConstantsAssumption DEF Init
<1>1. TypeOK
  <2>1. log \in Seq(Fields) /\ last \in 0..Len(log)
    OBVIOUS
  <2>2. attempts \in [Payload -> Nat]
    OBVIOUS
  <2>3. faults \in 0..MaxFaults /\ starts \in 0..MaxStarts
    OBVIOUS
  <2> QED
    BY <2>1, <2>2, <2>3, NoItemType DEF TypeOK, Phases
<1>2. GroupInv /\ PelInv /\ ItemInv /\ StepInv
  BY DEF GroupInv, PelInv, ItemInv, StepInv, Busy
<1>3. NoSilentLoss /\ DeadLetterJustified
  BY DEF NoSilentLoss, DeadLetterJustified, Published
<1> QED
  BY <1>1, <1>2, <1>3 DEF Inv

\* The inductive invariant is preserved by every step.
LEMMA NextInv == Inv /\ [Next]_vars => Inv'
  BY TypeStep, GroupStep, PelStep, ItemStep, StepStep, LossStep, DeadLetterStep DEF Inv

\* The inductive invariant holds in every behaviour.
THEOREM InvHolds == Spec => []Inv
  BY InitInv, NextInv, PTL DEF Spec

\* Type correctness, for every set of events and every value of the limits.
THEOREM TypeCorrect == Spec => []TypeOK
<1>1. Inv => TypeOK
  BY DEF Inv
<1> QED
  BY <1>1, InvHolds, PTL

\* No published event disappears from a consumer's stream unanswered.
THEOREM NothingLost == Spec => []NoSilentLoss
<1>1. Inv => NoSilentLoss
  BY DEF Inv
<1> QED
  BY <1>1, InvHolds, PTL

\* Every dead letter has a reason.
THEOREM DeadLettersJustified == Spec => []DeadLetterJustified
<1>1. Inv => DeadLetterJustified
  BY DEF Inv
<1> QED
  BY <1>1, InvHolds, PTL

\* What AckedIsAnswered says of one entry.
Answered(i) ==
  \/ Settled(log[i].data) \/ log[i].data \in missed
  \/ \E j \in Undelivered :
       i < j /\ log[j] = [data |-> log[i].data, retries |-> log[i].retries + 1]

\* A step that takes an entry off the PEL leaves its event answered.
LEMMA AckStep == Inv /\ [Next]_vars => (\A i \in pel \ pel' : Answered(i))
<1>0. SUFFICES ASSUME Inv, [Next]_vars PROVE (\A i \in pel \ pel' : Answered(i))
  OBVIOUS
<1>a. TypeOK /\ GroupInv /\ ItemInv /\ StepInv
  BY <1>0 DEF Inv
<1> USE DEF redis, client, history
<1>1. ASSUME NEW p \in Payload, Produce(p) PROVE (\A i \in pel \ pel' : Answered(i))
  <2>1. pel \subseteq pel'
    BY <1>1 DEF Produce
  <2> QED
    BY <2>1
<1>2. ASSUME NEW p \in Payload, Age(p) PROVE (\A i \in pel \ pel' : Answered(i))
  <2>1. pel \subseteq pel'
    BY <1>2 DEF Age
  <2> QED
    BY <2>1
<1>3. CASE Start
  <2>1. pel \subseteq pel'
    BY <1>3 DEF Start
  <2> QED
    BY <2>1
<1>4. CASE Crash
  <2>1. pel \subseteq pel'
    BY <1>4 DEF Crash
  <2> QED
    BY <2>1
<1>5. CASE Stop
  <2>1. pel \subseteq pel'
    BY <1>5 DEF Stop
  <2> QED
    BY <2>1
<1>6. CASE CreateGroup
  <2>1. pel \subseteq pel'
    BY <1>6 DEF CreateGroup
  <2> QED
    BY <2>1
<1>7. CASE InspectGroup
  <2>1. pel \subseteq pel'
    BY <1>7 DEF InspectGroup
  <2> QED
    BY <2>1
<1>8. CASE DestroyGroup
  <2>1. pel = {}
    BY <1>a, <1>8 DEF DestroyGroup, GroupInv
  <2> QED
    BY <2>1
<1>9. CASE RecreateGroup
  <2>1. pel \subseteq pel'
    BY <1>9 DEF RecreateGroup
  <2> QED
    BY <2>1
<1>10. CASE ReadPending
  <2>1. pel \subseteq pel'
    BY <1>10 DEF ReadPending
  <2> QED
    BY <2>1
<1>11. CASE ReadNew
  <2>1. pel \subseteq pel'
    BY <1>11 DEF ReadNew
  <2> QED
    BY <2>1
<1>12. CASE LeaveLoop
  <2>1. pel \subseteq pel'
    BY <1>12 DEF LeaveLoop
  <2> QED
    BY <2>1
<1>13. CASE EndBatch
  <2>1. pel \subseteq pel'
    BY <1>13 DEF EndBatch
  <2> QED
    BY <2>1
<1>14. CASE BeginMessage
  <2>1. pel \subseteq pel'
    BY <1>14 DEF BeginMessage
  <2> QED
    BY <2>1
<1>15. CASE CallbackReturns
  <2>1. pel \subseteq pel'
    BY <1>15 DEF CallbackReturns
  <2> QED
    BY <2>1
<1>16. CASE CallbackRaises
  <2>1. pel \subseteq pel'
    BY <1>16 DEF CallbackRaises
  <2> QED
    BY <2>1
<1>17. CASE Acknowledge
  <2>1. \A i \in pel \ pel' : i = cur.id
    BY <1>17 DEF Acknowledge
  <2>2. Settled(log[cur.id].data)
    BY <1>a, <1>17 DEF Acknowledge, StepInv, Settled
  <2> QED
    BY <2>1, <2>2 DEF Answered
<1>18. CASE RetryAdd
  <2>1. pel \subseteq pel'
    BY <1>18 DEF RetryAdd
  <2> QED
    BY <2>1
<1>19. CASE RetryAck
  <2>1. \A i \in pel \ pel' : i = cur.id
    BY <1>19 DEF RetryAck
  <2>2. Requeued
    BY <1>a, <1>19 DEF RetryAck, StepInv
  <2>3. group /\ cur.id \in 1..last
    BY <1>a, <1>19 DEF RetryAck, GroupInv, ItemInv, Busy, Genuine
  <2>4. \A j \in Undelivered : cur.id < j
    BY <1>a, <2>3 DEF Undelivered, TypeOK
  <2> QED
    BY <2>1, <2>2, <2>4 DEF Answered, Requeued
<1>20. CASE DeadLetterAdd
  <2>1. pel \subseteq pel'
    BY <1>20 DEF DeadLetterAdd
  <2> QED
    BY <2>1
<1>21. CASE DeadLetterAck
  <2>1. \A i \in pel \ pel' : i = cur.id
    BY <1>21 DEF DeadLetterAck
  <2>2. Settled(log[cur.id].data) \/ log[cur.id].data \in missed
    BY <1>a, <1>21 DEF DeadLetterAck, StepInv, ItemInv, Busy, Genuine, Settled, DeadLettered
  <2> QED
    BY <2>1, <2>2 DEF Answered
<1>22. CASE DeadLetterDelete
  <2>1. pel \subseteq pel'
    BY <1>22 DEF DeadLetterDelete
  <2> QED
    BY <2>1
<1>23. CASE UNCHANGED vars
  <2>1. pel \subseteq pel'
    BY <1>23 DEF vars
  <2> QED
    BY <2>1
<1> QED
  BY <1>0, <1>1, <1>2, <1>3, <1>4, <1>5, <1>6, <1>7, <1>8, <1>9, <1>10, <1>11, <1>12, <1>13, <1>14, <1>15, <1>16, <1>17, <1>18, <1>19, <1>20, <1>21, <1>22, <1>23
     DEF Next, ConsumerStep, Setup, ProcessMessage

\* XACK never comes before the callback returned, the dead letter was stored or
\* the retry copy was queued.
THEOREM AcksAnswered == Spec => AckedIsAnswered
<1>1. Inv /\ [Next]_vars => [\A i \in pel \ pel' : Answered(i)]_vars
  BY AckStep
<1> QED
  BY <1>1, InvHolds, PTL DEF Spec, AckedIsAnswered, Answered

-----------------------------------------------------------------------------
(***************************************************************************)
(* WorkedOnce: one life without failing commands.                          *)
(***************************************************************************)
Clean == faults = 0 /\ starts <= 1

\* In that life setup creates the group and finds nothing pending.
OneLife ==
  /\ starts = 0 => pc = "down" /\ ~group
  /\ pc = "create" => ~group
  /\ pc \notin {"inspect", "destroy", "recreate"}
  /\ pc = "readPending" => pel = {}

\* The last entry with its data: no retry copy follows it.
Newest(i) ==
  /\ i \in 1..Len(log) /\ log[i].data \in Payload
  /\ \A j \in 1..Len(log) : log[j].data = log[i].data => j <= i

\* What may still be handed to the callback was handed over at most once for each
\* of the entries before it, and none of them came to an end.
Live(i) == i \in Undelivered \/ \E m \in batch : m.id = i

Ready(i) ==
  /\ Newest(i) /\ attempts[log[i].data] <= log[i].retries
  /\ log[i].data \notin handled /\ ~DeadLettered(log[i].data)

AllReady == \A i \in 1..Len(log) : Live(i) => Ready(i)

Same(m) == m.data = log[m.id].data /\ m.retries = log[m.id].retries
AllSame == \A m \in batch : Same(m)

Alone == Newest(cur.id) /\ Same(cur) /\ \A m \in batch : m.id # cur.id
Unended == cur.data \notin handled /\ ~DeadLettered(cur.data)

HandOnce ==
  /\ pc \in {"callback", "ack", "retryAdd", "dlqAdd", "dlqAck", "dlqDel"} => Alone
  /\ pc \in {"callback", "retryAdd"} => attempts[cur.data] <= cur.retries + 1
  /\ pc \in {"callback", "retryAdd", "dlqAdd"} => Unended

Counts ==
  \A p \in Payload :
    /\ attempts[p] <= MaxRetries + 1
    /\ p \in handled => ~DeadLettered(p)
    /\ p \notin Published => attempts[p] = 0 /\ p \notin handled /\ ~DeadLettered(p)

Once == OneLife /\ HandOnce /\ Counts /\ AllReady /\ AllSame

OnceInv == Clean => Once

\* A life without failures so far was one before its last step, which failed nothing.
LEMMA CleanBefore ==
  ASSUME Inv, [Next]_vars, Clean'
  PROVE  /\ Clean /\ \A r : Reply(r) => r = "ok"
<1> USE DEF Inv, TypeOK, Clean
<1>a. faults \in Nat /\ starts \in Nat
  BY ConstantsAssumption
<1>1. \A r : Reply(r) => faults' = faults /\ r = "ok"
  BY <1>a DEF Reply
<1>2. faults' = faults
  <2>1. (\E r \in Replies : Reply(r)) \/ faults' = faults
    BY DEF Next, vars, history, redis, client, Produce, Age, Start, Crash, Stop, ConsumerStep, Setup,
           CreateGroup, InspectGroup, DestroyGroup, RecreateGroup, ReadPending, ReadNew,
           LeaveLoop, EndBatch, ProcessMessage, BeginMessage, CallbackReturns,
           CallbackRaises, Acknowledge, RetryAdd, RetryAck, DeadLetterAdd,
           DeadLetterAck, DeadLetterDelete, Replies
  <2> QED
    BY <1>a, <1>1, <2>1
<1>3. starts' = starts \/ starts' = starts + 1
  BY DEF Next, vars, history, redis, client, Produce, Age, Start, Crash, Stop, ConsumerStep, Setup,
         CreateGroup, InspectGroup, DestroyGroup, RecreateGroup, ReadPending, ReadNew,
         LeaveLoop, EndBatch, ProcessMessage, BeginMessage, CallbackReturns,
         CallbackRaises, Acknowledge, RetryAdd, RetryAck, DeadLetterAdd,
         DeadLetterAck, DeadLetterDelete
<1> QED
  BY <1>a, <1>1, <1>2, <1>3

\* A step that hands over nothing and ends nothing keeps what is live ready.
LEMMA OnceFrame ==
  ASSUME Counts, AllReady, AllSame,
         UNCHANGED <<log, attempts, handled, dlq>>,
         batch' \subseteq batch, Undelivered' \subseteq Undelivered
  PROVE  Counts' /\ AllReady' /\ AllSame'
BY DEF Counts, AllReady, AllSame, Published, DeadLettered, Live, Ready, Newest, Same

\* Two entries that no copy follows have different data: what is live is about
\* another event than the message in hand.
LEMMA Apart ==
  ASSUME Inv, Alone, Busy, AllReady, NEW i \in 1..Len(log), Live(i)
  PROVE  log[i].data # cur.data
<1>1. Newest(i) /\ Newest(cur.id) /\ Same(cur)
  BY DEF AllReady, Ready, Alone
<1>2. i # cur.id
  <2>1. cur.id <= last /\ group
    BY DEF Inv, ItemInv, Genuine, GroupInv, Busy, TypeOK
  <2>2. last \in Nat /\ cur.id \in Nat /\ i \in Nat
    BY DEF Inv, TypeOK, Item
  <2> QED
    BY <2>1, <2>2 DEF Live, Undelivered, Alone
<1>3. Len(log) \in Nat
  BY DEF Inv, TypeOK
<1> QED
  BY <1>1, <1>2, <1>3 DEF Newest, Same

\* An item in memory is one of an entry that was delivered.
LEMMA BatchIds ==
  ASSUME Inv, NEW m \in batch
  PROVE  m.id \in 1..Len(log) /\ m \in Item /\ m.id <= last /\ group
  BY DEF Inv, TypeOK, ItemInv, Genuine, GroupInv

\* A new entry is the newest of its event, and leaves the others where they were.
LEMMA Appended ==
  ASSUME TypeOK, NEW f \in Fields, f.data \in Payload, log' = Append(log, f)
  PROVE  /\ Len(log') = Len(log) + 1 /\ log'[Len(log) + 1] = f
         /\ \A i \in 1..Len(log) : i \in 1..Len(log') /\ log'[i] = log[i]
         /\ \A k : k = Len(log) + 1 => Newest(k)'
         /\ \A i \in 1..Len(log) : Newest(i) /\ log[i].data # f.data => Newest(i)'
         /\ Published' = Published \cup {f.data}
<1>1. /\ Len(log') = Len(log) + 1 /\ log'[Len(log) + 1] = f
      /\ \A i \in 1..Len(log) : log'[i] = log[i]
  BY AppendType
<1>2. Len(log) \in Nat
  BY LenType
<1>3. 1..Len(log') = 1..Len(log) \cup {Len(log) + 1}
  BY <1>1, <1>2
<1> HIDE DEF TypeOK
<1>4. \A j \in 1..Len(log') : j <= Len(log) + 1
  BY <1>1, <1>2
<1>5. ASSUME NEW k, k = Len(log) + 1 PROVE Newest(k)'
  BY <1>1, <1>3, <1>4, <1>5 DEF Newest
<1>6. ASSUME NEW i \in 1..Len(log), Newest(i), log[i].data # f.data PROVE Newest(i)'
  BY <1>1, <1>3, <1>6 DEF Newest
<1>7. Published' = Published \cup {f.data}
  BY <1>1, <1>3 DEF Published
<1> QED
  BY <1>1, <1>3, <1>5, <1>6, <1>7

\* An event that is published for the first time was never handed over.
LEMMA OnceProduce ==
  ASSUME Inv, Once, NEW p \in Payload, Produce(p) PROVE Once'
<1> DEFINE f == [data |-> p, retries |-> 0]
<1>1. f \in Fields /\ f.data = p /\ f.retries = 0 /\ log' = Append(log, f) /\ TypeOK
  BY ConstantsAssumption DEF Fields, Data, Produce, Inv
<1>2. f.data \in Payload
  BY <1>1
<1> HIDE DEF f
<1>3. /\ Len(log') = Len(log) + 1 /\ log'[Len(log) + 1] = f
      /\ \A i \in 1..Len(log) : i \in 1..Len(log') /\ log'[i] = log[i]
      /\ \A k : k = Len(log) + 1 => Newest(k)'
      /\ \A i \in 1..Len(log) : Newest(i) /\ log[i].data # p => Newest(i)'
      /\ Published' = Published \cup {p}
  BY <1>1, <1>2, Appended
<1>4. \A i \in 1..Len(log) : log[i].data # p
  BY DEF Produce, Published
<1>5. 1..Len(log') = 1..Len(log) \cup {Len(log) + 1}
  BY <1>1, <1>3, LenType
<1>6. Undelivered' \subseteq Undelivered \cup {Len(log) + 1}
  BY DEF Produce, Undelivered
<1>7. OneLife' /\ UNCHANGED <<batch, cur, pc, attempts, handled, dlq>>
  BY DEF Once, OneLife, Produce, client
<1>8. Counts'
  BY <1>3, <1>7 DEF Once, Counts, DeadLettered
<1>9. HandOnce'
  <2>1. Alone => Alone'
    BY <1>3, <1>4, <1>7 DEF Alone, Same, Newest
  <2> QED
    BY <2>1, <1>7 DEF Once, HandOnce, Unended, DeadLettered
<1>10. AllSame'
  <2>1. \A m \in batch : m.id \in 1..Len(log)
    BY BatchIds
  <2> QED
    BY <2>1, <1>3, <1>7 DEF Once, AllSame, Same
<1>11. ASSUME NEW i \in 1..Len(log'), Live(i)' PROVE Ready(i)'
  <2>1. CASE i = Len(log) + 1
    <3>1. attempts[p] = 0 /\ p \notin handled /\ ~DeadLettered(p)
      BY DEF Once, Counts, Produce
    <3> QED
      BY <1>1, <1>3, <1>7, <2>1, <3>1 DEF Ready, DeadLettered
  <2>2. CASE i \in 1..Len(log) /\ i # Len(log) + 1
    <3>1. Ready(i)
      BY <1>6, <1>7, <1>11, <2>2 DEF Live, Once, AllReady
    <3>2. Newest(i)' /\ log'[i] = log[i]
      BY <1>3, <1>4, <2>2, <3>1 DEF Ready
    <3> QED
      BY <1>7, <3>1, <3>2 DEF Ready, DeadLettered
  <2> QED
    BY <1>5, <2>1, <2>2
<1> QED
  BY <1>7, <1>8, <1>9, <1>10, <1>11 DEF Once, AllReady

\* Setup only reads, once the group exists: what it creates it creates empty.
LEMMA OnceSetup ==
  ASSUME Inv, Once, \A r : Reply(r) => r = "ok", starts \in Nat,
         Start \/ Crash \/ Setup, (starts <= 1)'
  PROVE  Once'
<1>1. CASE Start
  <2>1. starts = 0 /\ starts' = 1
    BY <1>1 DEF Start
  <2>2. ~group /\ pc' = "create" /\ UNCHANGED <<log, attempts, handled, dlq, batch, stream, group, last>>
    BY <1>1, <2>1 DEF Start, Once, OneLife, redis
  <2>3. Counts' /\ AllReady' /\ AllSame'
    BY <2>2, OnceFrame DEF Once, Undelivered
  <2> QED
    BY <2>1, <2>2, <2>3 DEF Once, OneLife, HandOnce
<1>2. CASE Crash
  <2>1. starts # 0 /\ pc' = "down" /\ starts' = starts
    BY <1>2 DEF Crash, Once, OneLife, history
  <2>2. batch' = {} /\ UNCHANGED <<log, attempts, handled, dlq, stream, group, last>>
    BY <1>2 DEF Crash, redis, history
  <2>3. Counts' /\ AllReady' /\ AllSame'
    BY <2>2, OnceFrame DEF Once, Undelivered
  <2> QED
    BY <2>1, <2>2, <2>3 DEF Once, OneLife, HandOnce
<1>3. CASE CreateGroup
  <2>1. ~group /\ pel = {} /\ starts # 0
    BY <1>3 DEF CreateGroup, Once, OneLife, Inv, GroupInv
  <2>2. /\ group' = TRUE /\ last' = Len(log) /\ pc' = "readPending"
        /\ UNCHANGED <<log, attempts, handled, dlq, stream, pel, batch, starts>>
    BY <1>3, <2>1 DEF CreateGroup
  <2>3. Undelivered' \subseteq Undelivered
    BY <2>1, <2>2 DEF Undelivered
  <2>4. Counts' /\ AllReady' /\ AllSame'
    BY <2>2, <2>3, OnceFrame DEF Once
  <2> QED
    BY <2>1, <2>2, <2>4 DEF Once, OneLife, HandOnce
<1>4. ~InspectGroup /\ ~DestroyGroup /\ ~RecreateGroup
  BY DEF InspectGroup, DestroyGroup, RecreateGroup, Once, OneLife
<1> QED
  BY <1>1, <1>2, <1>3, <1>4 DEF Setup

\* A read makes what waits live in memory instead of in the stream.
LEMMA OnceLoop ==
  ASSUME Inv, Once, \A r : Reply(r) => r = "ok",
         ReadPending \/ ReadNew \/ LeaveLoop \/ EndBatch
  PROVE  Once'
<1>0. starts' = starts /\ pc # "down"
  BY DEF ReadPending, ReadNew, LeaveLoop, EndBatch, history
<1>1. CASE ~ReadNew
  <2>1. /\ pc' \in {"down", "loop"}
        /\ UNCHANGED <<log, attempts, handled, dlq, batch, stream, group, last, pel>>
    BY <1>1 DEF ReadPending, LeaveLoop, EndBatch, Once, OneLife, redis, history
  <2>2. Counts' /\ AllReady' /\ AllSame'
    BY <2>1, OnceFrame DEF Once, Undelivered
  <2> QED
    BY <1>0, <2>1, <2>2 DEF Once, OneLife, HandOnce
<1>2. CASE ReadNew
  <2>1. PICK chunk \in SUBSET Undelivered :
          /\ last' \in chunk
          /\ batch' = {ItemOf(i) : i \in chunk}
    BY <1>2 DEF ReadNew
  <2>2. /\ pc' \in {"next", "loop"} /\ group
        /\ UNCHANGED <<log, attempts, handled, dlq, stream, group>>
    BY <1>2 DEF ReadNew, history
  <2>3. Undelivered' \subseteq Undelivered
    <3>1. stream \subseteq Nat /\ last \in Nat /\ last' \in Nat /\ last < last'
      BY <2>1, <2>2 DEF Inv, TypeOK, Undelivered
    <3>2. \A i \in stream : last' < i => last < i
      BY <3>1
    <3> QED
      BY <2>2, <3>2 DEF Undelivered
  <2>4. \A i \in chunk : ItemOf(i) = [id |-> i, data |-> log[i].data, retries |-> log[i].retries]
    BY DEF Undelivered, ItemOf
  <2>5. AllSame'
    BY <2>1, <2>2, <2>4 DEF AllSame, Same
  <2>6. \A i \in 1..Len(log) : Live(i)' => i \in Undelivered
    BY <2>1, <2>3, <2>4 DEF Live
  <2>7. AllReady'
    BY <2>2, <2>6 DEF Once, AllReady, Live, Ready, Newest, DeadLettered
  <2>8. Counts'
    BY <2>2 DEF Once, Counts, Published, DeadLettered
  <2> QED
    BY <1>0, <2>2, <2>5, <2>7, <2>8 DEF Once, OneLife, HandOnce
<1> QED
  BY <1>1, <1>2

\* Handing a message over is one call more, and takes it from what is live.
LEMMA OnceBegin ==
  ASSUME Inv, Once, BeginMessage PROVE Once'
<1>1. PICK m \in batch :
        /\ cur' = m /\ batch' = batch \ {m}
        /\ IF TooOld(m)
           THEN pc' = "dlqAdd" /\ inTry' = TRUE /\ UNCHANGED attempts
           ELSE /\ pc' = "callback" /\ inTry' = FALSE
                /\ attempts' = [attempts EXCEPT ![m.data] = @ + 1]
  BY DEF BeginMessage
<1>2. /\ UNCHANGED <<log, stream, group, last, dlq, handled, starts>>
      /\ starts = 0 => pc = "down"
      /\ pc = "next"
  BY DEF BeginMessage, redis, Once, OneLife
<1>3. m.id \in 1..Len(log) /\ m \in Item /\ m.id <= last /\ group
  BY BatchIds
<1>4. Ready(m.id) /\ Same(m)
  BY <1>3 DEF Once, AllReady, AllSame, Live
<1>5. m.data = log[m.id].data /\ m.retries = log[m.id].retries /\ m.data \in Payload /\ Newest(m.id)
  BY <1>4 DEF Ready, Newest, Same
<1>6. attempts \in [Payload -> Nat] /\ m.retries \in 0..MaxRetries /\ attempts[m.data] <= m.retries
  BY <1>3, <1>4, <1>5 DEF Inv, TypeOK, Item, Ready
<1>7. \A o \in batch' : o.id # m.id
  <2>1. \A o \in batch : o \in Item /\ Same(o)
    BY BatchIds DEF Once, AllSame
  <2> QED
    BY <1>1, <1>3, <1>5, <2>1 DEF Item, Same
<1>8. /\ \A q \in Payload \ {m.data} : attempts'[q] = attempts[q]
      /\ attempts'[m.data] <= m.retries + 1 /\ attempts'[m.data] <= MaxRetries + 1
  BY <1>1, <1>5, <1>6, ConstantsAssumption
<1>9. HandOnce'
  <2>1. m.data \notin handled /\ ~DeadLettered(m.data)
    BY <1>4, <1>5 DEF Ready
  <2>2. Alone'
    BY <1>1, <1>2, <1>5, <1>7 DEF Alone, Same, Newest
  <2>3. Unended'
    BY <1>1, <1>2, <2>1 DEF Unended, DeadLettered
  <2> QED
    BY <1>1, <1>8, <2>2, <2>3 DEF HandOnce
<1>10. Counts'
  <2>1. m.data \in Published /\ Published' = Published
    BY <1>2, <1>3, <1>5 DEF Published
  <2> QED
    BY <1>2, <1>8, <2>1 DEF Once, Counts, DeadLettered
<1>11. ASSUME NEW i \in 1..Len(log'), Live(i)' PROVE Ready(i)'
  <2>1. i \in 1..Len(log) /\ Live(i)
    BY <1>1, <1>2, <1>11 DEF Live, Undelivered
  <2>2. i # m.id
    <3>1. m.id \in Nat /\ last \in Nat /\ i \in Nat
      BY <1>3, <2>1 DEF Inv, TypeOK, Item
    <3>2. i \in Undelivered => last < i
      BY <1>3 DEF Undelivered
    <3>3. i \in Undelivered \/ \E o \in batch' : o.id = i
      BY <1>2, <1>11 DEF Live, Undelivered
    <3> QED
      BY <1>3, <1>7, <3>1, <3>2, <3>3
  <2>3. Ready(i)
    BY <2>1 DEF Once, AllReady
  <2>4. log[i].data # m.data
    BY <1>3, <1>5, <2>1, <2>2, <2>3 DEF Ready, Newest
  <2>5. attempts'[log[i].data] = attempts[log[i].data]
    BY <1>8, <2>3, <2>4 DEF Ready, Newest
  <2> QED
    BY <1>2, <2>3, <2>5 DEF Ready, Newest, DeadLettered
<1>12. AllSame'
  BY <1>1, <1>2 DEF Once, AllSame, Same
<1> QED
  BY <1>1, <1>2, <1>9, <1>10, <1>11, <1>12 DEF Once, OneLife, AllReady

\* The callback ends the event of the message in hand, and no other waits.
LEMMA OnceReturns ==
  ASSUME Inv, Once, CallbackReturns PROVE Once'
<1>1. /\ pc = "callback" /\ pc' = "ack" /\ handled' = handled \cup {cur.data}
      /\ UNCHANGED <<log, stream, group, last, dlq, batch, cur, attempts, starts>>
  BY DEF CallbackReturns, redis
<1>2. Busy /\ Alone /\ Unended /\ cur.data \in Published
  BY <1>1 DEF Busy, Once, HandOnce, Alone, Same, Newest, Published
<1>3. HandOnce'
  BY <1>1, <1>2 DEF HandOnce, Alone, Same, Newest
<1>4. Counts'
  BY <1>1, <1>2 DEF Once, Counts, Unended, DeadLettered, Published
<1>5. AllReady'
  <2>1. \A i \in 1..Len(log) : Live(i) => Ready(i) /\ log[i].data # cur.data
    BY <1>2, Apart DEF Once, AllReady
  <2> QED
    BY <1>1, <2>1 DEF AllReady, Live, Ready, Newest, DeadLettered, Undelivered
<1> QED
  BY <1>1, <1>3, <1>4, <1>5 DEF Once, OneLife, AllSame, Same

\* So does the dead letter.
LEMMA OnceDead ==
  ASSUME Inv, Once, \A r : Reply(r) => r = "ok", DeadLetterAdd PROVE Once'
<1>1. /\ pc = "dlqAdd" /\ pc' = "dlqAck"
      /\ dlq' = dlq \cup {[id |-> cur.id, data |-> cur.data]}
      /\ UNCHANGED <<log, stream, group, last, batch, cur, attempts, handled, starts>>
  BY DEF DeadLetterAdd, history
<1>2. Busy /\ Alone /\ Unended /\ cur.data \in Published
  BY <1>1 DEF Busy, Once, HandOnce, Alone, Same, Newest, Published
<1>3. HandOnce'
  BY <1>1, <1>2 DEF HandOnce, Alone, Same, Newest
<1>4. \A p : DeadLettered(p)' => DeadLettered(p) \/ p = cur.data
  BY <1>1 DEF DeadLettered
<1>5. Counts'
  BY <1>1, <1>2, <1>4 DEF Once, Counts, Unended, Published
<1>6. AllReady'
  <2>1. \A i \in 1..Len(log) : Live(i) => Ready(i) /\ log[i].data # cur.data
    BY <1>2, Apart DEF Once, AllReady
  <2>2. \A i \in 1..Len(log) : Live(i)' => Live(i)
    BY <1>1 DEF Live, Undelivered
  <2>3. ASSUME NEW i \in 1..Len(log'), Live(i)' PROVE Ready(i)'
    BY <1>1, <1>4, <2>1, <2>2, <2>3 DEF Ready, Newest
  <2> QED
    BY <2>3 DEF AllReady
<1> QED
  BY <1>1, <1>3, <1>5, <1>6 DEF Once, OneLife, AllSame, Same

\* The copy takes the place of its original: one more retry for one more call.
LEMMA OnceRetry ==
  ASSUME Inv, Once, \A r : Reply(r) => r = "ok", RetryAdd PROVE Once'
<1> DEFINE f == [data |-> cur.data, retries |-> cur.retries + 1]
<1>1. /\ pc = "retryAdd" /\ pc' = "retryAck"
      /\ log' = Append(log, f) /\ stream' = stream \cup {Len(log) + 1}
      /\ UNCHANGED <<group, last, batch, cur, attempts, handled, dlq, starts>>
  BY DEF RetryAdd, history
<1>2. Busy /\ Alone /\ Unended /\ cur.data \in Payload /\ attempts[cur.data] <= cur.retries + 1
  BY <1>1 DEF Busy, Once, HandOnce, Alone, Same, Newest
<1>3. f \in Fields /\ f.data = cur.data /\ f.retries = cur.retries + 1 /\ TypeOK
  BY <1>1, <1>2, ConstantsAssumption DEF Inv, TypeOK, StepInv, Fields, Item, Data
<1>a. f.data \in Payload
  BY <1>2
<1> HIDE DEF f
<1>4. /\ Len(log') = Len(log) + 1 /\ log'[Len(log) + 1] = f
      /\ \A i \in 1..Len(log) : i \in 1..Len(log') /\ log'[i] = log[i]
      /\ \A k : k = Len(log) + 1 => Newest(k)'
      /\ \A i \in 1..Len(log) : Newest(i) /\ log[i].data # cur.data => Newest(i)'
      /\ Published' = Published \cup {cur.data}
  BY <1>1, <1>3, <1>a, Appended
<1>5. 1..Len(log') = 1..Len(log) \cup {Len(log) + 1}
  BY <1>3, <1>4, LenType
<1>6. Undelivered' \subseteq Undelivered \cup {Len(log) + 1}
  BY <1>1 DEF Undelivered
<1>7. Counts'
  BY <1>1, <1>4 DEF Once, Counts, DeadLettered
<1>8. AllSame'
  <2>1. \A m \in batch : m.id \in 1..Len(log)
    BY BatchIds
  <2> QED
    BY <1>1, <1>4, <2>1 DEF Once, AllSame, Same
<1>9. ASSUME NEW i \in 1..Len(log'), Live(i)' PROVE Ready(i)'
  <2>1. CASE i = Len(log) + 1
    BY <1>1, <1>2, <1>3, <1>4, <2>1 DEF Ready, Unended, DeadLettered
  <2>2. CASE i \in 1..Len(log) /\ i # Len(log) + 1
    <3>1. Live(i)
      BY <1>1, <1>6, <1>9, <2>2 DEF Live
    <3>2. Ready(i) /\ log[i].data # cur.data
      BY <1>2, <2>2, <3>1, Apart DEF Once, AllReady
    <3>3. Newest(i)' /\ log'[i] = log[i]
      BY <1>4, <2>2, <3>2 DEF Ready
    <3> QED
      BY <1>1, <3>2, <3>3 DEF Ready, DeadLettered
  <2> QED
    BY <1>5, <2>1, <2>2
<1> QED
  BY <1>1, <1>7, <1>8, <1>9 DEF Once, OneLife, HandOnce, AllReady

\* The other steps hand over nothing, and end nothing.
LEMMA OnceQuiet ==
  ASSUME Inv, Once, \A r : Reply(r) => r = "ok",
         \/ \E p \in Payload : Age(p)
         \/ Stop \/ CallbackRaises \/ Acknowledge \/ RetryAck \/ DeadLetterAck
         \/ DeadLetterDelete \/ UNCHANGED vars
  PROVE  Once'
<1>1. /\ UNCHANGED <<log, attempts, handled, dlq, group, last, cur, starts>>
      /\ batch' = batch /\ stream' \subseteq stream
  BY DEF Age, Stop, CallbackRaises, Rescue, Acknowledge, Returned, RetryAck, DeadLetterAck,
         DeadLetterDelete, vars, redis, client, history
<1>2. Counts' /\ AllReady' /\ AllSame'
  BY <1>1, OnceFrame DEF Once, Undelivered
<1>3. /\ Alone => Alone'
      /\ Unended => Unended'
  BY <1>1 DEF Alone, Same, Newest, Unended, DeadLettered
<1>4. \/ pc' = pc /\ pel' = pel
      \/ pc = "callback" /\ pc' \in {"retryAdd", "dlqAdd"}
      \/ pc = "dlqAck" /\ pc' = "dlqDel"
      \/ pc \in {"ack", "retryAck", "dlqDel"} /\ pc' = "next"
  BY DEF Age, Stop, CallbackRaises, Rescue, Acknowledge, Returned, RetryAck, DeadLetterAck,
         DeadLetterDelete, vars, redis, client, history
<1>5. HandOnce'
  BY <1>1, <1>3, <1>4 DEF Once, HandOnce
<1>6. OneLife'
  BY <1>1, <1>4 DEF Once, OneLife
<1> QED
  BY <1>2, <1>5, <1>6 DEF Once

\* Each step keeps OnceInv, one lemma per kind of step.
LEMMA OnceStep == Inv /\ OnceInv /\ [Next]_vars => OnceInv'
<1> SUFFICES ASSUME Inv, OnceInv, [Next]_vars, Clean' PROVE Once'
  BY DEF OnceInv
<1>1. Once /\ \A r : Reply(r) => r = "ok"
  BY CleanBefore DEF OnceInv
<1>2. starts \in Nat /\ (starts <= 1)'
  BY ConstantsAssumption DEF Inv, TypeOK, Clean
<1> QED
  BY <1>1, <1>2, OnceProduce, OnceSetup, OnceLoop, OnceBegin, OnceReturns, OnceDead,
     OnceRetry, OnceQuiet
  DEF Next, ConsumerStep, ProcessMessage

\* Nothing is published yet.
LEMMA OnceInitial == Init => OnceInv
BY ConstantsAssumption
DEF Init, OnceInv, Clean, Once, OneLife, HandOnce, Counts, AllReady, AllSame, Live,
    Undelivered, Published, DeadLettered

\* In one life without failing commands a callback of cp/base.py is called at most
\* max_retries + 1 times per event, and an event it returned for neither waits again
\* nor ends among the dead letters.
THEOREM CallbackBounded == Spec => []WorkedOnce
<1>1. Inv /\ OnceInv => WorkedOnce
  <2> SUFFICES ASSUME Inv, Once PROVE
        \A p \in Payload :
          /\ attempts[p] <= MaxRetries + 1
          /\ p \in handled => p \notin DataOf(Undelivered) /\ ~DeadLettered(p)
    BY DEF WorkedOnce, OnceInv, Clean
  <2>1. \A i \in Undelivered : i \in 1..Len(log) /\ Live(i)
    BY DEF Inv, TypeOK, Undelivered, Live
  <2> QED
    BY <2>1 DEF Once, Counts, AllReady, Ready, DataOf
<1> QED
  BY <1>1, OnceInitial, OnceStep, InvHolds, PTL DEF Spec

-----------------------------------------------------------------------------
(***************************************************************************)
(* StreamConsumer implements EventQueue: every step is a step of the queue *)
(* or a stutter.  What the inductive invariant knows of the message in     *)
(* hand decides whether an entry may leave the PEL, and NoSilentLoss says  *)
(* what a new group finds in the stream.                                   *)
(***************************************************************************)
QueueStep == Queue!Next \/ UNCHANGED Queue!vars

\* Steps that leave Redis and what was handled alone are invisible.
LEMMA QuietStep ==
  ASSUME UNCHANGED <<log, stream, group, last, pel, dlq, handled, missed>>
  PROVE  QueueStep
<1>1. UNCHANGED <<Published, Waiting>>
  BY DEF Published, Waiting, DataOf, Undelivered
<1>2. UNCHANGED {p \in Payload : Settled(p)}
  BY DEF Settled, DeadLettered
<1> QED
  BY <1>1, <1>2 DEF QueueStep, Queue!vars

\* Settling an event that was published is a step of the queue.
LEMMA SettleStep ==
  ASSUME UNCHANGED <<log, stream, group, last, pel, missed>>,
         NEW d \in Data, d \in Published \cup {NoData},
         \A p \in Payload : Settled(p)' <=> Settled(p) \/ p = d
  PROVE  QueueStep
<1>1. UNCHANGED <<Published, Waiting>>
  BY DEF Published, Waiting, DataOf, Undelivered
<1>2. CASE d = NoData
  <2>1. UNCHANGED {p \in Payload : Settled(p)}
    BY <1>2, ConstantsAssumption
  <2> QED
    BY <1>1, <2>1 DEF QueueStep, Queue!vars
<1>3. CASE d # NoData
  <2>1. d \in Payload
    BY <1>3 DEF Data
  <2>2. {p \in Payload : Settled(p)}' = {p \in Payload : Settled(p)} \cup {d}
    BY <2>1
  <2>3. Queue!Settle(d)
    BY <1>1, <1>3, <2>2 DEF Queue!Settle
  <2> QED
    BY <2>1, <2>3 DEF QueueStep, Queue!Next
<1> QED
  BY <1>2, <1>3

\* XACK of an entry whose event is settled or given up, or still waits.
LEMMA AckQueueStep ==
  ASSUME TypeOK, UNCHANGED <<log, stream, group, last, dlq, handled, missed>>,
         NEW i \in 1..Len(log), pel' = pel \ {i} \/ pel' = pel,
         \/ Settled(log[i].data) \/ log[i].data \in missed
         \/ log[i].data \in DataOf(Undelivered)
  PROVE  QueueStep
<1> DEFINE d == log[i].data
<1>1. UNCHANGED <<Published, Undelivered>>
  BY DEF Published, Undelivered
<1>2. UNCHANGED {p \in Payload : Settled(p)}
  BY DEF Settled, DeadLettered
<1>3. d \in Data
  <2>1. log[i] \in Fields
    BY DEF TypeOK
  <2> QED
    BY <2>1 DEF Fields
<1>4. Waiting' \subseteq Waiting /\ Waiting \subseteq Waiting' \cup {d}
  BY <1>1 DEF Waiting, DataOf
<1>5. CASE Waiting' = Waiting
  BY <1>1, <1>2, <1>5 DEF QueueStep, Queue!vars
<1>6. CASE Waiting' # Waiting
  <2>1. d \in Waiting /\ Waiting' = Waiting \ {d}
    BY <1>4, <1>6
  <2>2. d \in Payload
    BY <2>1, <1>3 DEF Waiting, Data
  <2>3. d \notin DataOf(Undelivered)
    <3>1. DataOf(Undelivered)' = DataOf(Undelivered)
      BY <1>1 DEF DataOf
    <3>2. d \notin Waiting' /\ d # NoData
      BY <2>1, <2>2, ConstantsAssumption
    <3> QED
      BY <3>1, <3>2 DEF Waiting, DataOf
  <2>4. d \in {p \in Payload : Settled(p)} \cup (missed \ {NoData})
    BY <2>2, <2>3, ConstantsAssumption
  <2>5. Queue!Finish(d)
    BY <1>1, <1>2, <2>1, <2>4 DEF Queue!Finish
  <2> QED
    BY <2>2, <2>5 DEF QueueStep, Queue!Next
<1> QED
  BY <1>5, <1>6

\* What is published is a payload, or the missing data of a retried message.
LEMMA PublishedType == TypeOK => Published \subseteq Data
<1>1. SUFFICES ASSUME TypeOK, NEW i \in 1..Len(log) PROVE log[i].data \in Data
  BY DEF Published
<1>2. log[i] \in Fields
  BY <1>1 DEF TypeOK
<1> QED
  BY <1>2 DEF Fields

\* A step that lets more events wait, all of them published before.
LEMMA RedeliverStep ==
  ASSUME TypeOK, NoSilentLoss, UNCHANGED <<Published \ {NoData}, dlq, handled, missed>>,
         group' => group,
         Waiting \subseteq Waiting', Waiting' \subseteq Published \ {NoData}
  PROVE  QueueStep
<1>1. UNCHANGED {p \in Payload : Settled(p)}
  BY DEF Settled, DeadLettered
<1>2. Waiting' \subseteq Waiting \cup {p \in Payload : Settled(p)} \cup (missed \ {NoData})
  <2>1. SUFFICES ASSUME NEW d \in Published \ {NoData}
                 PROVE  d \in Waiting \cup {p \in Payload : Settled(p)} \cup (missed \ {NoData})
    OBVIOUS
  <2>2. d \in Payload
    BY <2>1, PublishedType DEF Data
  <2>3. Settled(d) \/ d \in missed \/ d \in DataOf(pel) \/ d \in DataOf(Undelivered)
    BY <2>1 DEF NoSilentLoss
  <2> QED
    BY <2>1, <2>2, <2>3 DEF Waiting, DataOf
<1>3. Queue!Redeliver
  BY <1>1, <1>2 DEF Queue!Redeliver
<1> QED
  BY <1>3 DEF QueueStep, Queue!Next

\* A new entry joins what the group has not delivered yet.
LEMMA AppendUndelivered ==
  ASSUME TypeOK, NEW f \in Fields, UNCHANGED <<group, last>>,
         log' = Append(log, f), stream' = stream \cup {Len(log) + 1}
  PROVE  /\ Undelivered' = Undelivered \cup {Len(log) + 1}
         /\ Published' = Published \cup {f.data}
         /\ \A S : S \subseteq 1..Len(log) => DataOf(S)' = DataOf(S)
<1>1. /\ Len(log') = Len(log) + 1 /\ log'[Len(log) + 1] = f
      /\ \A i \in 1..Len(log) : log'[i] = log[i]
      /\ 1..Len(log') = 1..Len(log) \cup {Len(log) + 1}
  BY AppendType, LenType
<1>2. Undelivered' = Undelivered \cup {Len(log) + 1}
  <2>1. group => last < Len(log) + 1
    BY LenType DEF TypeOK
  <2> QED
    BY <2>1 DEF Undelivered
<1>3. Published' = Published \cup {f.data}
  BY <1>1 DEF Published
<1>4. ASSUME NEW S, S \subseteq 1..Len(log) PROVE DataOf(S)' = DataOf(S)
  BY <1>1, <1>4 DEF DataOf
<1> QED
  BY <1>2, <1>3, <1>4

\* The log only grows: what was published stays published.
LEMMA PublishedGrows == ASSUME Grows PROVE Published \subseteq Published'
  BY DEF Published, Grows

\* Only published events are given up.
LEMMA MissedStep ==
  ASSUME Inv, missed \subseteq Published, [Next]_vars
  PROVE  missed' \subseteq Published'
<1>1. Published \subseteq Published'
  BY GrowsStep, PublishedGrows
<1>2. \A S : S \subseteq 1..Len(log) => DataOf(S) \subseteq Published
  BY DEF DataOf, Published
<1>3. stream \subseteq 1..Len(log)
  BY DEF Inv, TypeOK
<1>4. CASE \E p \in Payload : Produce(p)
  <2>1. PICK S \in SUBSET stream : missed' = missed \cup DataOf(S)
    BY <1>4 DEF Produce
  <2> QED
    BY <1>1, <1>2, <1>3, <2>1
<1>5. CASE CreateGroup
  <2>1. missed' = missed \/ missed' = missed \cup DataOf(stream)
    BY <1>5 DEF CreateGroup
  <2> QED
    BY <1>1, <1>2, <1>3, <2>1
<1>6. CASE missed' = missed
  BY <1>1, <1>6
<1> QED
  BY <1>4, <1>5, <1>6 DEF Next, ConsumerStep, Setup, ProcessMessage, vars, redis,
     client, history, Age, Start, Crash, Stop, InspectGroup, DestroyGroup,
     RecreateGroup, ReadPending, ReadNew, LeaveLoop, EndBatch, BeginMessage,
     CallbackReturns, CallbackRaises, Acknowledge, RetryAdd, RetryAck,
     DeadLetterAdd, DeadLetterAck, DeadLetterDelete

\* XADD of a producer, with what the trimming gives up.
LEMMA ProduceStep ==
  ASSUME TypeOK, missed \subseteq Published, NEW p \in Payload, Produce(p)
  PROVE  QueueStep
<1> DEFINE all == stream \cup {Len(log) + 1}
<1>1. PICK cut \in 0..Len(log) :
        /\ stream' = {i \in all : cut < i}
        /\ missed' = missed \cup DataOf(stream \ stream')
  BY DEF Produce
<1>2. [data |-> p, retries |-> 0] \in Fields
  BY ConstantsAssumption DEF Fields, Data
<1>3. /\ Len(log') = Len(log) + 1 /\ log'[Len(log) + 1].data = p
      /\ \A i \in 1..Len(log) : log'[i] = log[i]
      /\ 1..Len(log') = 1..Len(log) \cup {Len(log) + 1}
      /\ Len(log) \in Nat
  BY <1>2, AppendType, LenType DEF Produce
<1>4. stream \subseteq 1..Len(log) /\ pel \subseteq 1..Len(log) /\ last \in 0..Len(log)
  BY DEF TypeOK
<1>5. Published' = Published \cup {p}
  BY <1>3 DEF Published
<1>6. Len(log) + 1 \in stream' /\ stream' \subseteq all
  BY <1>1, <1>3
<1>7. UNCHANGED <<group, last, pel, dlq, handled>>
  BY DEF Produce
<1>8. Undelivered' \subseteq Undelivered \cup {Len(log) + 1}
  BY <1>6, <1>7 DEF Undelivered
<1>9. Len(log) + 1 \in Undelivered'
  BY <1>3, <1>4, <1>6, <1>7 DEF Undelivered
<1>10. \A i \in Undelivered : i \in Undelivered' \/ log[i].data \in missed'
  BY <1>1, <1>7 DEF Undelivered, DataOf
<1>11. Waiting' \subseteq Waiting \cup {p}
  <2>1. SUFFICES ASSUME NEW i \in pel' \cup Undelivered', log'[i].data # NoData
                 PROVE  log'[i].data \in Waiting \cup {p}
    BY DEF Waiting, DataOf
  <2>2. CASE i = Len(log) + 1
    BY <1>3, <2>2
  <2>3. CASE i \in pel \cup Undelivered
    <3>1. log'[i] = log[i]
      BY <1>3, <1>4, <2>3 DEF Undelivered
    <3> QED
      BY <2>1, <2>3, <3>1 DEF Waiting, DataOf
  <2> QED
    BY <1>7, <1>8, <2>2, <2>3
<1>12. (Waiting \cup {p}) \ Waiting' \subseteq missed' \ {NoData}
  <2>1. p \in Waiting'
    BY <1>3, <1>9, ConstantsAssumption DEF Waiting, DataOf
  <2>2. SUFFICES ASSUME NEW i \in pel \cup Undelivered, log[i].data # NoData
                 PROVE  log[i].data \in Waiting' \cup missed'
    BY <2>1, ConstantsAssumption DEF Waiting, DataOf
  <2>3. log'[i] = log[i]
    BY <1>3, <1>4, <2>2 DEF Undelivered
  <2>4. CASE i \in pel' \cup Undelivered'
    BY <2>2, <2>3, <2>4 DEF Waiting, DataOf
  <2> QED
    BY <1>7, <1>10, <2>2, <2>4
<1>13. missed' \subseteq Published'
  <2>1. DataOf(stream \ stream') \subseteq Published
    BY <1>4 DEF DataOf, Published
  <2> QED
    BY <1>1, <1>5, <2>1
<1>14. UNCHANGED {q \in Payload : Settled(q)}
  BY <1>7 DEF Settled, DeadLettered
<1>15. p \notin Published \ {NoData}
  BY DEF Produce
<1>16. Published' \ {NoData} = (Published \ {NoData}) \cup {p}
  BY <1>5, ConstantsAssumption
<1>17. missed \ {NoData} \subseteq missed' \ {NoData}
  BY <1>1
<1>18. Queue!Publish(p)
  BY <1>7, <1>11, <1>12, <1>13, <1>14, <1>15, <1>16, <1>17 DEF Queue!Publish
<1> QED
  BY <1>18 DEF QueueStep, Queue!Next

\* XREADGROUP moves entries from the undelivered to the pending ones.
LEMMA ReadQueueStep == ASSUME TypeOK, ReadNew PROVE QueueStep
<1>1. /\ UNCHANGED <<log, stream, group, dlq, handled, missed>>
      /\ group
  BY DEF ReadNew, redis, history
<1>2. PICK chunk \in SUBSET Undelivered :
        /\ FirstOf(chunk, Undelivered, BatchSize)
        /\ last' \in chunk /\ \A i \in chunk : i <= last'
        /\ pel' = pel \cup chunk
  BY DEF ReadNew
<1>3. pel' \cup Undelivered' = pel \cup Undelivered
  <2>1. PICK k \in Undelivered : chunk = {i \in Undelivered : i <= k}
    BY <1>2 DEF FirstOf
  <2>2. \A i \in Undelivered : i \in Nat /\ i \in stream /\ last < i
    BY <1>1, LenType DEF Undelivered, TypeOK
  <2>3. last' \in Nat /\ last' \in Undelivered /\ last < last' /\ last \in Nat
    BY <1>2, <2>2, LenType DEF TypeOK
  <2>4. ASSUME NEW i \in Undelivered PROVE i \in chunk \/ i \in Undelivered'
    <3>1. i <= last' => i <= k
      BY <1>2, <2>1, <2>2, <2>3
    <3>2. i <= last' => i \in chunk
      BY <2>1, <3>1
    <3> QED
      BY <1>1, <2>2, <2>3, <3>2 DEF Undelivered
  <2>5. ASSUME NEW i \in Undelivered' PROVE i \in Undelivered
    <3>1. i \in stream /\ last' < i /\ i \in Nat
      BY <1>1, LenType DEF Undelivered, TypeOK
    <3> QED
      BY <1>1, <2>3, <3>1 DEF Undelivered
  <2> QED
    BY <1>2, <2>4, <2>5
<1>4. UNCHANGED <<Published, Waiting>>
  BY <1>1, <1>3 DEF Published, Waiting, DataOf
<1>5. UNCHANGED {p \in Payload : Settled(p)}
  BY <1>1 DEF Settled, DeadLettered
<1> QED
  BY <1>1, <1>4, <1>5 DEF QueueStep, Queue!vars

\* XGROUP CREATE at "$": the new group gives up what the stream holds.
LEMMA CreateQueueStep ==
  ASSUME TypeOK, GroupInv, CreateGroup PROVE QueueStep
<1>1. UNCHANGED <<log, stream, pel, dlq, handled>>
  BY DEF CreateGroup
<1>2. CASE UNCHANGED <<group, last, missed>>
  BY <1>1, <1>2, QuietStep
<1>3. CASE ~group /\ group' /\ last' = Len(log) /\ missed' = missed \cup DataOf(stream)
  <2>1. pel = {} /\ Undelivered = stream
    BY <1>3 DEF GroupInv, Undelivered
  <2>2. Undelivered' = {}
    <3>1. \A i \in stream : i \in 1..Len(log) /\ Len(log) \in Nat
      BY LenType DEF TypeOK
    <3>2. \A i \in stream : ~(Len(log) < i)
      BY <3>1
    <3> QED
      BY <1>1, <1>3, <3>2 DEF Undelivered
  <2>3. Waiting = DataOf(stream) \ {NoData} /\ Waiting' = {}
    BY <1>1, <2>1, <2>2 DEF Waiting, DataOf
  <2>4. missed' \ {NoData} = (missed \ {NoData}) \cup Waiting
    BY <1>3, <2>3
  <2>5. UNCHANGED Published
    BY <1>1 DEF Published
  <2>6. UNCHANGED {p \in Payload : Settled(p)}
    BY <1>1 DEF Settled, DeadLettered
  <2>7. Queue!Open
    BY <1>3, <2>3, <2>4, <2>5, <2>6 DEF Queue!Open
  <2> QED
    BY <2>7 DEF QueueStep, Queue!Next
<1> QED
  BY <1>2, <1>3 DEF CreateGroup

\* XGROUP DESTROY: everything stored waits for the next group.
LEMMA DestroyQueueStep ==
  ASSUME Inv, DestroyGroup PROVE QueueStep
<1>a. TypeOK /\ GroupInv /\ NoSilentLoss
  BY DEF Inv
<1>1. UNCHANGED <<log, stream, dlq, handled, missed>>
  BY DEF DestroyGroup, history
<1>2. CASE UNCHANGED <<group, last, pel>>
  BY <1>1, <1>2, QuietStep
<1>3. CASE group' = FALSE /\ pel' = {}
  <2>1. pel = {} /\ Undelivered' = stream /\ Undelivered \subseteq stream
    BY <1>a, <1>1, <1>3 DEF GroupInv, Undelivered, DestroyGroup
  <2>2. Waiting' = DataOf(stream) \ {NoData}
    BY <1>1, <1>3, <2>1 DEF Waiting, DataOf
  <2>3. stream \subseteq 1..Len(log)
    BY <1>a DEF TypeOK
  <2>4. Waiting \subseteq Waiting' /\ Waiting' \subseteq Published \ {NoData}
    BY <2>1, <2>2, <2>3 DEF Waiting, DataOf, Published
  <2>5. UNCHANGED (Published \ {NoData})
    BY <1>1 DEF Published
  <2> QED
    BY <1>a, <1>1, <1>3, <2>4, <2>5, RedeliverStep
<1> QED
  BY <1>2, <1>3 DEF DestroyGroup

\* XGROUP CREATE at "0" gives nothing up.
LEMMA RecreateQueueStep ==
  ASSUME Inv, RecreateGroup PROVE QueueStep
<1>1. UNCHANGED <<log, stream, last, pel, dlq, handled, missed>>
  BY DEF RecreateGroup, history
<1>2. ~group /\ last = 0
  BY DEF RecreateGroup, Inv, GroupInv
<1>3. CASE ~group'
  <2>1. group' = group
    BY <1>2, <1>3 DEF RecreateGroup, Inv, TypeOK
  <2> QED
    BY <1>1, <2>1, QuietStep
<1>4. CASE group'
  <2>1. Undelivered' = Undelivered
    <3>1. \A i \in stream : 0 < i
      BY DEF Inv, TypeOK
    <3> QED
      BY <1>1, <1>2, <1>4, <3>1 DEF Undelivered
  <2>2. UNCHANGED <<Published, Waiting>>
    BY <1>1, <2>1 DEF Published, Waiting, DataOf
  <2>3. UNCHANGED {p \in Payload : Settled(p)}
    BY <1>1 DEF Settled, DeadLettered
  <2>4. Queue!Open
    BY <1>1, <1>2, <1>4, <2>2, <2>3 DEF Queue!Open
  <2> QED
    BY <2>4 DEF QueueStep, Queue!Next
<1> QED
  BY <1>3, <1>4

\* The copy of a retried message waits, and so does its event from then on.
LEMMA RetryQueueStep ==
  ASSUME Inv, RetryAdd PROVE QueueStep
<1>a. TypeOK /\ GroupInv /\ ItemInv /\ StepInv /\ NoSilentLoss
  BY DEF Inv
<1>1. UNCHANGED <<group, last, pel, dlq, handled, missed>>
  BY DEF RetryAdd, history
<1>2. CASE UNCHANGED <<log, stream>>
  BY <1>1, <1>2, QuietStep
<1>3. CASE ~UNCHANGED <<log, stream>>
  <2> DEFINE f == [data |-> cur.data, retries |-> cur.retries + 1]
  <2>1. f \in Fields
    <3>1. cur \in Item /\ cur.retries < MaxRetries
      BY <1>a DEF TypeOK, StepInv, RetryAdd
    <3>2. cur.data \in Data /\ cur.retries + 1 \in 0..MaxRetries
      BY <3>1, ConstantsAssumption DEF Item
    <3> QED
      BY <3>2 DEF Fields
  <2>2. log' = Append(log, f) /\ stream' = stream \cup {Len(log) + 1}
    BY <1>3 DEF RetryAdd
  <2>3. /\ Undelivered' = Undelivered \cup {Len(log) + 1}
        /\ Published' = Published \cup {cur.data}
        /\ \A S : S \subseteq 1..Len(log) => DataOf(S)' = DataOf(S)
    BY <1>a, <1>1, <2>1, <2>2, AppendUndelivered
  <2>4. cur.data \in Published \cup {NoData}
    <3>1. Genuine(cur) /\ last \in 0..Len(log) /\ Len(log) \in Nat
      BY <1>a, LenType DEF ItemInv, Busy, RetryAdd, TypeOK
    <3>2. cur.id \in 1..Len(log)
      BY <3>1 DEF Genuine
    <3> QED
      BY <3>1, <3>2 DEF Genuine, Published
  <2>5. log'[Len(log) + 1].data = cur.data
    BY <1>a, <2>1, <2>2, AppendType
  <2>6. UNCHANGED (Published \ {NoData})
    BY <2>3, <2>4
  <2>7. \A i \in pel \cup Undelivered : i \in 1..Len(log) /\ log'[i] = log[i]
    BY <1>a, <2>1, <2>2, AppendType DEF Undelivered, TypeOK
  <2>8. Waiting' = Waiting \cup ({cur.data} \ {NoData})
    BY <1>1, <2>3, <2>5, <2>7 DEF Waiting, DataOf
  <2>9. Waiting \subseteq Published
    BY <2>7 DEF Waiting, DataOf, Published
  <2>10. Waiting \subseteq Waiting' /\ Waiting' \subseteq Published \ {NoData}
    BY <2>4, <2>8, <2>9 DEF Waiting
  <2> QED
    BY <1>a, <1>1, <2>6, <2>10, RedeliverStep
<1> QED
  BY <1>2, <1>3

\* XDEL of a dead letter removes nothing a group has not delivered yet.
LEMMA DeleteQueueStep ==
  ASSUME Inv, DeadLetterDelete PROVE QueueStep
<1>1. UNCHANGED <<log, group, last, pel, dlq, handled, missed>>
  BY DEF DeadLetterDelete, history
<1>2. cur.id <= last /\ group
  <2>1. cur.id \in 1..last /\ last \in Nat /\ group
    BY LenType DEF Inv, TypeOK, ItemInv, GroupInv, Busy, Genuine, DeadLetterDelete
  <2> QED
    BY <2>1
<1>3. stream' = stream \/ stream' = stream \ {cur.id}
  BY DEF DeadLetterDelete
<1>4. Undelivered' = Undelivered
  <2>1. \A i \in Undelivered : i # cur.id
    <3>1. last \in Nat /\ cur.id \in Nat /\ ~(last < cur.id)
      BY <1>2, LenType DEF Inv, TypeOK, Item
    <3> QED
      BY <1>2, <3>1 DEF Undelivered
  <2> QED
    BY <1>1, <1>3, <2>1 DEF Undelivered
<1>5. UNCHANGED <<Published, Waiting>>
  BY <1>1, <1>4 DEF Published, Waiting, DataOf
<1>6. UNCHANGED {p \in Payload : Settled(p)}
  BY <1>1 DEF Settled, DeadLettered
<1> QED
  BY <1>1, <1>5, <1>6 DEF QueueStep, Queue!vars

\* What is known of the entry of the message in hand.
LEMMA InHand ==
  ASSUME Inv, Busy
  PROVE  /\ cur.id \in 1..Len(log)
         /\ cur.data \in Data /\ cur.data \in Published \cup {NoData}
         /\ cur.data = log[cur.id].data \/ log[cur.id].data \in missed
<1>1. Genuine(cur) /\ last \in 0..Len(log) /\ Len(log) \in Nat
  BY LenType DEF Inv, ItemInv, TypeOK
<1>2. cur.id \in 1..Len(log)
  BY <1>1 DEF Genuine
<1>3. cur \in Item
  BY DEF Inv, TypeOK
<1>4. cur.data \in Data
  BY <1>3 DEF Item
<1> QED
  BY <1>1, <1>2, <1>4 DEF Genuine, Published

\* Every step of the consumer, the producers and Redis is a step of the queue.
LEMMA NextQueueStep ==
  ASSUME Inv, missed \subseteq Published, [Next]_vars PROVE QueueStep
<1>a. TypeOK /\ GroupInv /\ StepInv
  BY DEF Inv
<1> USE DEF redis, client, history
<1>1. ASSUME NEW p \in Payload, Produce(p) PROVE QueueStep
  BY <1>a, <1>1, ProduceStep
<1>2. ASSUME NEW p \in Payload, Age(p) PROVE QueueStep
  BY <1>2, QuietStep DEF Age
<1>3. CASE Start
  BY <1>3, QuietStep DEF Start
<1>4. CASE Crash
  BY <1>4, QuietStep DEF Crash
<1>5. CASE Stop
  BY <1>5, QuietStep DEF Stop
<1>6. CASE CreateGroup
  BY <1>a, <1>6, CreateQueueStep
<1>7. CASE InspectGroup
  BY <1>7, QuietStep DEF InspectGroup
<1>8. CASE DestroyGroup
  BY <1>8, DestroyQueueStep
<1>9. CASE RecreateGroup
  BY <1>9, RecreateQueueStep
<1>10. CASE ReadPending
  BY <1>10, QuietStep DEF ReadPending
<1>11. CASE ReadNew
  BY <1>a, <1>11, ReadQueueStep
<1>12. CASE LeaveLoop
  BY <1>12, QuietStep DEF LeaveLoop
<1>13. CASE EndBatch
  BY <1>13, QuietStep DEF EndBatch
<1>14. CASE BeginMessage
  BY <1>14, QuietStep DEF BeginMessage
<1>15. CASE CallbackReturns
  <2>1. UNCHANGED <<log, stream, group, last, pel, dlq, missed>>
    BY <1>15 DEF CallbackReturns
  <2>2. \A p \in Payload : Settled(p)' <=> Settled(p) \/ p = cur.data
    BY <1>15 DEF CallbackReturns, Settled, DeadLettered
  <2> QED
    BY <1>15, <2>1, <2>2, InHand, SettleStep DEF CallbackReturns, Busy
<1>16. CASE CallbackRaises
  BY <1>16, QuietStep DEF CallbackRaises
<1>17. CASE Acknowledge
  <2>1. /\ UNCHANGED <<log, stream, group, last, dlq, handled, missed>>
        /\ pel' = pel \ {cur.id} \/ pel' = pel
    BY <1>17 DEF Acknowledge
  <2>2. \/ Settled(log[cur.id].data) \/ log[cur.id].data \in missed
        \/ log[cur.id].data \in DataOf(Undelivered)
    BY <1>a, <1>17 DEF Acknowledge, StepInv, Settled
  <2> QED
    BY <1>a, <1>17, <2>1, <2>2, InHand, AckQueueStep DEF Acknowledge, Busy
<1>18. CASE RetryAdd
  BY <1>18, RetryQueueStep
<1>19. CASE RetryAck
  <2>1. /\ UNCHANGED <<log, stream, group, last, dlq, handled, missed>>
        /\ pel' = pel \ {cur.id} \/ pel' = pel
    BY <1>19 DEF RetryAck
  <2>2. \/ Settled(log[cur.id].data) \/ log[cur.id].data \in missed
        \/ log[cur.id].data \in DataOf(Undelivered)
    BY <1>a, <1>19 DEF RetryAck, StepInv, Requeued, DataOf
  <2> QED
    BY <1>a, <1>19, <2>1, <2>2, InHand, AckQueueStep DEF RetryAck, Busy
<1>20. CASE DeadLetterAdd
  <2>1. UNCHANGED <<log, stream, group, last, pel, handled, missed>>
    BY <1>20 DEF DeadLetterAdd
  <2>2. CASE dlq' = dlq
    BY <2>1, <2>2, QuietStep
  <2>3. CASE dlq' = dlq \cup {[id |-> cur.id, data |-> cur.data]}
    <3>1. ASSUME NEW p \in Payload PROVE DeadLettered(p)' <=> DeadLettered(p) \/ p = cur.data
      <4>1. [id |-> cur.id, data |-> cur.data].data = cur.data
        OBVIOUS
      <4> QED
        BY <2>3, <4>1, Zenon DEF DeadLettered
    <3>2. \A p \in Payload : Settled(p)' <=> Settled(p) \/ p = cur.data
      BY <2>1, <3>1 DEF Settled
    <3> QED
      BY <1>20, <2>1, <3>2, InHand, SettleStep DEF DeadLetterAdd, Busy
  <2> QED
    BY <1>20, <2>2, <2>3 DEF DeadLetterAdd
<1>21. CASE DeadLetterAck
  <2>1. /\ UNCHANGED <<log, stream, group, last, dlq, handled, missed>>
        /\ pel' = pel \ {cur.id} \/ pel' = pel
    BY <1>21 DEF DeadLetterAck
  <2>2. \/ Settled(log[cur.id].data) \/ log[cur.id].data \in missed
        \/ log[cur.id].data \in DataOf(Undelivered)
    BY <1>a, <1>21, InHand DEF DeadLetterAck, StepInv, Busy, Settled, DeadLettered
  <2> QED
    BY <1>a, <1>21, <2>1, <2>2, InHand, AckQueueStep DEF DeadLetterAck, Busy
<1>22. CASE DeadLetterDelete
  BY <1>22, DeleteQueueStep
<1>23. CASE UNCHANGED vars
  BY <1>23, QuietStep DEF vars
<1> QED
  BY <1>1, <1>2, <1>3, <1>4, <1>5, <1>6, <1>7, <1>8, <1>9, <1>10, <1>11, <1>12, <1>13, <1>14, <1>15, <1>16, <1>17, <1>18, <1>19, <1>20, <1>21, <1>22, <1>23
     DEF Next, ConsumerStep, Setup, ProcessMessage

\* Nothing is published, settled or given up at first.
LEMMA InitQueue == Init => Queue!Init /\ missed \subseteq Published
<1>1. SUFFICES ASSUME Init PROVE Queue!Init /\ missed \subseteq Published
  OBVIOUS
<1>2. Published = {} /\ Undelivered = {} /\ pel = {} /\ missed = {}
  BY <1>1 DEF Init, Published, Undelivered
<1>3. {p \in Payload : Settled(p)} = {}
  BY <1>1 DEF Init, Settled, DeadLettered
<1> QED
  BY <1>1, <1>2, <1>3 DEF Queue!Init, Init, Waiting, DataOf

\* The consumer of cp/base.py implements the at-least-once queue: an event stops
\* waiting only once its callback returned, it is a dead letter or it was given
\* up, through every crash, failing command and restart.
THEOREM StreamImplementsQueue == Spec => ImplementsQueue
<1>1. Inv /\ missed \subseteq Published /\ [Next]_vars => (missed \subseteq Published)'
  BY MissedStep
<1>2. Inv /\ missed \subseteq Published /\ [Next]_vars => [Queue!Next]_(Queue!vars)
  BY NextQueueStep DEF QueueStep
<1> QED
  BY <1>1, <1>2, InitQueue, InvHolds, PTL DEF Spec, ImplementsQueue, Queue!Spec

-----------------------------------------------------------------------------
(***************************************************************************)
(* The preloader                                                           *)
(***************************************************************************)
LoopAt == {"none", "gen", "set", "answer", "rest", "sleep", "done"}

PreloaderType ==
  /\ entry \in [Cache -> [age : Nat, ttl : 0..Interval]]
  /\ loop \in [Cache -> [at : LoopAt, age : 0..MaxDelay, wake : 0..(Interval - 1)]]
  /\ is_running \subseteq Cache /\ cancelled \subseteq Cache
  /\ get \in [busy : BOOLEAN, cache : {get.cache}, age : 0..MaxDelay]
  /\ get.busy => get.cache \in Cache
  /\ stops \in [Calls -> {"none", "monitor", "caches", "returned"}]

\* The tasks are cancelled, and a call of stop() is under way, only after the
\* event that keeps the monitor from starting caches again.
StoppedInOrder ==
  /\ cancelled # {} => shutdown
  /\ \A s \in Calls : stops[s] # "none" => shutdown
  /\ cancelled \cap is_running = {}

\* Until the answer of a SET is there, its value has lost no more of its life than
\* the answer is late.
AnswerOnItsWay ==
  \A c \in Cache :
    loop[c].at = "answer" /\ c \notin cancelled => entry[c].ttl + loop[c].age >= Interval

PreloaderIInv ==
  /\ PreloaderType /\ StoppedInOrder
  /\ Fresh /\ AnswerOnItsWay /\ FilledWhileResting

\* The strengthening holds when the service starts.
LEMMA PreloaderInitial == PreloaderInit => PreloaderIInv
<1> SUFFICES ASSUME PreloaderInit PROVE PreloaderIInv
  OBVIOUS
<1> USE PreloaderAssumption
<1>1. PreloaderType
  BY DEF PreloaderInit, PreloaderType, Nothing, Loop, LoopAt, NoGet, Calls
<1>2. StoppedInOrder
  BY DEF PreloaderInit, StoppedInOrder
<1>3. Fresh /\ AnswerOnItsWay /\ FilledWhileResting
  BY DEF PreloaderInit, Fresh, AnswerOnItsWay, FilledWhileResting, Nothing, Loop
<1> QED
  BY <1>1, <1>2, <1>3 DEF PreloaderIInv

\* Steps that only move the monitor or a call of stop() leave the caches alone.
LEMMA ServiceKeeps == PreloaderIInv /\ ServiceStep => PreloaderIInv'
<1> SUFFICES ASSUME PreloaderIInv, ServiceStep PROVE PreloaderIInv'
  OBVIOUS
<1> USE PreloaderAssumption
<1>s. ASSUME ~shutdown, Starts(Cache), UNCHANGED <<entry, cancelled, get, shutdown, stops>>
      PROVE  PreloaderIInv'
  <2>1. PreloaderType'
    BY <1>s DEF PreloaderIInv, PreloaderType, Starts, Loop, LoopAt
  <2>2. cancelled = {}
    BY <1>s DEF PreloaderIInv, StoppedInOrder
  <2>3. StoppedInOrder'
    BY <1>s, <2>2 DEF PreloaderIInv, StoppedInOrder
  <2>4. Fresh'
    BY <1>s DEF PreloaderIInv, Fresh
  <2>5. AnswerOnItsWay' /\ FilledWhileResting'
    BY <1>s, <2>2
    DEF PreloaderIInv, AnswerOnItsWay, FilledWhileResting, Starts, Loop, PreloaderType
  <2> QED
    BY <2>1, <2>3, <2>4, <2>5 DEF PreloaderIInv
<1>q. ASSUME UNCHANGED <<entry, loop, is_running, cancelled, get, shutdown>>,
             stops' \in [Calls -> {"none", "monitor", "caches", "returned"}],
             \A s \in Calls : stops'[s] # "none" => shutdown
      PROVE  PreloaderIInv'
  BY <1>q
  DEF PreloaderIInv, PreloaderType, StoppedInOrder, Fresh, AnswerOnItsWay, FilledWhileResting
<1>c. ASSUME NEW s \in Calls, StopsCaches(s), shutdown', UNCHANGED <<entry, loop, get>>
      PROVE  PreloaderIInv'
  <2>1. PreloaderType'
    BY <1>c DEF PreloaderIInv, PreloaderType, StopsCaches
  <2>2. StoppedInOrder'
    BY <1>c DEF PreloaderIInv, StoppedInOrder, StopsCaches
  <2>3. Fresh' /\ AnswerOnItsWay' /\ FilledWhileResting'
    BY <1>c DEF PreloaderIInv, Fresh, AnswerOnItsWay, FilledWhileResting, StopsCaches
  <2> QED
    BY <2>1, <2>2, <2>3 DEF PreloaderIInv
<1>1. CASE StartCaches
  BY <1>1, <1>s DEF StartCaches
<1>2. CASE CreateMonitor \/ MonitorEnds
  <2>1. stops' = stops /\ UNCHANGED <<entry, loop, is_running, cancelled, get, shutdown>>
    BY <1>2 DEF CreateMonitor, MonitorEnds
  <2> QED
    BY <2>1, <1>q DEF PreloaderIInv, PreloaderType, StoppedInOrder
<1>3. CASE Check
  <2>1. CASE shutdown
    <3>1. stops' = stops /\ UNCHANGED <<entry, loop, is_running, cancelled, get, shutdown>>
      BY <1>3, <2>1 DEF Check
    <3> QED
      BY <3>1, <1>q DEF PreloaderIInv, PreloaderType, StoppedInOrder
  <2>2. CASE ~shutdown
    BY <1>3, <2>2, <1>s DEF Check
  <2> QED
    BY <2>1, <2>2
<1>4. ASSUME NEW s \in Calls, CallStop(s) PROVE PreloaderIInv'
  <2>1. CASE monitor.at = "check"
    <3>1. stops' = [stops EXCEPT ![s] = "monitor"] /\ shutdown'
          /\ UNCHANGED <<entry, loop, is_running, cancelled, get>>
      BY <1>4, <2>1 DEF CallStop
    <3>2. PreloaderType'
      BY <3>1 DEF PreloaderIInv, PreloaderType
    <3>3. StoppedInOrder' /\ Fresh' /\ AnswerOnItsWay' /\ FilledWhileResting'
      BY <3>1 DEF PreloaderIInv, StoppedInOrder, Fresh, AnswerOnItsWay, FilledWhileResting
    <3> QED
      BY <3>2, <3>3 DEF PreloaderIInv
  <2>2. CASE monitor.at # "check"
    BY <1>4, <2>2, <1>c DEF CallStop
  <2> QED
    BY <2>1, <2>2
<1>5. ASSUME NEW s \in Calls, StopCaches(s) PROVE PreloaderIInv'
  <2>1. shutdown
    BY <1>5 DEF StopCaches, PreloaderIInv, StoppedInOrder
  <2> QED
    BY <1>5, <2>1, <1>c DEF StopCaches
<1>6. ASSUME NEW s \in Calls, StopReturns(s) PROVE PreloaderIInv'
  <2>1. shutdown /\ UNCHANGED <<entry, loop, is_running, cancelled, get, shutdown>>
    BY <1>6 DEF StopReturns, PreloaderIInv, StoppedInOrder
  <2>2. stops' \in [Calls -> {"none", "monitor", "caches", "returned"}]
    BY <1>6 DEF StopReturns, PreloaderIInv, PreloaderType
  <2> QED
    BY <2>1, <2>2, <1>q
<1> QED
  BY <1>1, <1>2, <1>3, <1>4, <1>5, <1>6 DEF ServiceStep

\* A step of one update loop changes the entry and the task of its cache only.
LEMMA UpdateKeeps ==
  ASSUME PreloaderIInv, NEW c \in Cache, UpdateStep(c)
  PROVE  PreloaderIInv'
<1> USE PreloaderAssumption
<1>t. loop[c] \in [at : LoopAt, age : 0..MaxDelay, wake : 0..(Interval - 1)]
      /\ entry[c] \in [age : Nat, ttl : 0..Interval]
  BY DEF PreloaderIInv, PreloaderType
<1>m. ASSUME entry' = entry \/ entry' = [entry EXCEPT ![c] = Stored(loop[c].age)],
             UNCHANGED <<get, shutdown, stops, is_running>>,
             cancelled' \in {cancelled, cancelled \ {c}},
             NEW a \in LoopAt, NEW late \in 0..MaxDelay, NEW n \in 0..(Interval - 1),
             loop' = [loop EXCEPT ![c] = [at |-> a, age |-> late, wake |-> n]],
             a = "answer" => entry'[c].ttl + late >= Interval,
             a = "rest" => entry'[c].ttl + late > n
      PROVE  PreloaderIInv'
  <2>1. Stored(loop[c].age) \in [age : Nat, ttl : 0..Interval]
        /\ Stored(loop[c].age).age + Stored(loop[c].age).ttl <= Interval + MaxDelay
    BY <1>t DEF Stored
  <2>2. PreloaderType'
    <3>1. entry' \in [Cache -> [age : Nat, ttl : 0..Interval]]
      BY <1>m, <2>1 DEF PreloaderIInv, PreloaderType
    <3>2. loop' \in [Cache -> [at : LoopAt, age : 0..MaxDelay, wake : 0..(Interval - 1)]]
      BY <1>m DEF PreloaderIInv, PreloaderType
    <3> QED
      BY <1>m, <3>1, <3>2 DEF PreloaderIInv, PreloaderType
  <2>3. StoppedInOrder'
    BY <1>m DEF PreloaderIInv, StoppedInOrder
  <2>4. Fresh'
    BY <1>m, <2>1 DEF PreloaderIInv, Fresh, PreloaderType
  <2>5. AnswerOnItsWay' /\ FilledWhileResting'
    BY <1>m DEF PreloaderIInv, AnswerOnItsWay, FilledWhileResting, PreloaderType
  <2> QED
    BY <2>2, <2>3, <2>4, <2>5 DEF PreloaderIInv
<1>a. LoopAt = {"none", "gen", "set", "answer", "rest", "sleep", "done"}
      /\ {0, 1, Interval - 1} \subseteq 0..(Interval - 1) /\ 0 \in 0..MaxDelay
  BY DEF LoopAt
<1>1. CASE Generate(c)
  BY <1>1, <1>a, <1>m DEF Generate, Loop
<1>2. CASE Set(c)
  <2>1. ASSUME entry' = [entry EXCEPT ![c] = Stored(loop[c].age)]
        PROVE  entry'[c].ttl = Interval
    BY <2>1 DEF PreloaderIInv, PreloaderType, Stored
  <2>2. CASE loop' = [loop EXCEPT ![c] = Loop("answer", 0)]
             /\ entry' = [entry EXCEPT ![c] = Stored(loop[c].age)]
    <3>1. entry'[c].ttl + 0 >= Interval
      BY <2>1, <2>2
    <3> QED
      BY <1>2, <1>a, <2>2, <3>1, <1>m DEF Set, Loop
  <2>3. CASE loop' = [loop EXCEPT ![c] = Loop("sleep", 1)]
    BY <1>2, <1>a, <2>3, <1>m DEF Set, Loop
  <2> QED
    BY <1>2, <2>2, <2>3 DEF Set
<1>3. CASE Rest(c)
  <2>1. loop[c].at = "answer" /\ c \notin cancelled /\ entry' = entry
    BY <1>3 DEF Rest, Rests
  <2>2. CASE loop' = [loop EXCEPT ![c] = Loop("sleep", 1)]
    BY <1>3, <1>a, <2>2, <1>m DEF Rest, Rests, Loop
  <2>3. CASE loop' = [loop EXCEPT ![c] = [at |-> "rest", age |-> @.age, wake |-> Interval - 1]]
    <3>1. entry'[c].ttl + loop[c].age > Interval - 1
      BY <2>1, <1>t DEF PreloaderIInv, AnswerOnItsWay
    <3> QED
      BY <1>3, <1>a, <1>t, <2>3, <3>1, <1>m DEF Rest, Rests
  <2> QED
    BY <1>3, <2>2, <2>3 DEF Rest, Rests
<1>4. CASE Again(c)
  BY <1>4, <1>a, <1>m DEF Again, Loop
<1>5. CASE Cancelled(c)
  BY <1>5, <1>a, <1>m DEF Cancelled, Loop
<1> QED
  BY <1>1, <1>2, <1>3, <1>4, <1>5 DEF UpdateStep

\* A reader stores a value as old as it waited for the node.
LEMMA GetKeeps == PreloaderIInv /\ GetStep => PreloaderIInv'
<1> SUFFICES ASSUME PreloaderIInv, GetStep PROVE PreloaderIInv'
  OBVIOUS
<1> USE PreloaderAssumption
<1>1. ASSUME NEW c \in Cache, Get(c) PROVE PreloaderIInv'
  BY <1>1
  DEF Get, PreloaderIInv, PreloaderType, StoppedInOrder, Fresh, AnswerOnItsWay, FilledWhileResting
<1>2. CASE GetSet
  <2>1. UNCHANGED <<loop, is_running, cancelled, shutdown, stops>>
        /\ get' = NoGet /\ get.busy
        /\ (entry' = entry \/ entry' = [entry EXCEPT ![get.cache] = Stored(get.age)])
    BY <1>2 DEF GetSet
  <2>2. Stored(get.age) \in [age : Nat, ttl : 0..Interval]
        /\ Stored(get.age).age + Stored(get.age).ttl <= Interval + MaxDelay
        /\ Stored(get.age).ttl = Interval
    BY DEF Stored, PreloaderIInv, PreloaderType
  <2>3. PreloaderType'
    <3>1. entry' \in [Cache -> [age : Nat, ttl : 0..Interval]]
      BY <2>1, <2>2 DEF PreloaderIInv, PreloaderType
    <3> QED
      BY <2>1, <3>1 DEF PreloaderIInv, PreloaderType, NoGet
  <2>4. StoppedInOrder' /\ Fresh'
    BY <2>1, <2>2 DEF PreloaderIInv, PreloaderType, StoppedInOrder, Fresh
  <2>5. ASSUME NEW c \in Cache
        PROVE  /\ entry[c].ttl \in 0..Interval
               /\ entry'[c].ttl = entry[c].ttl \/ entry'[c].ttl = Interval
               /\ loop[c].age \in 0..MaxDelay /\ loop[c].wake \in 0..(Interval - 1)
    BY <2>1, <2>2 DEF PreloaderIInv, PreloaderType
  <2>6. AnswerOnItsWay'
    BY <2>1, <2>5 DEF PreloaderIInv, AnswerOnItsWay
  <2>7. FilledWhileResting'
    BY <2>1, <2>5 DEF PreloaderIInv, FilledWhileResting
  <2> QED
    BY <2>3, <2>4, <2>6, <2>7 DEF PreloaderIInv
<1> QED
  BY <1>1, <1>2 DEF GetStep

\* Time: a value gets older as its expiry gets nearer, an answer on its way later,
\* and the sleep of a loop that rests shorter.
LEMMA TickKeeps == PreloaderIInv /\ Tick => PreloaderIInv'
<1> SUFFICES ASSUME PreloaderIInv, Tick PROVE PreloaderIInv'
  OBVIOUS
<1> USE PreloaderAssumption
<1>1. ASSUME NEW c \in Cache
      PROVE  /\ entry'[c] \in [age : Nat, ttl : 0..Interval]
             /\ entry'[c].age + entry'[c].ttl <= Interval + MaxDelay
             /\ entry'[c].ttl + 1 >= entry[c].ttl
  <2>1. entry'[c] = Older(entry[c])
    BY DEF Tick
  <2>2. entry[c] \in [age : Nat, ttl : 0..Interval]
        /\ entry[c].age + entry[c].ttl <= Interval + MaxDelay
    BY DEF PreloaderIInv, PreloaderType, Fresh
  <2> QED
    BY <2>1, <2>2 DEF Older, Nothing
<1>2. ASSUME NEW c \in Cache
      PROVE  /\ loop'[c] \in [at : LoopAt, age : 0..MaxDelay, wake : 0..(Interval - 1)]
             /\ loop'[c].at = loop[c].at
             /\ loop[c].at = "answer" => loop'[c].age = loop[c].age + 1
             /\ loop[c].at = "rest" =>
                  /\ loop[c].wake > 0 /\ loop'[c].wake = loop[c].wake - 1
                  /\ loop'[c].age = loop[c].age
  <2>1. loop[c] \in [at : LoopAt, age : 0..MaxDelay, wake : 0..(Interval - 1)]
    BY DEF PreloaderIInv, PreloaderType
  <2>2. /\ loop[c].at \in {"set", "answer"} => loop[c].age < MaxDelay
        /\ loop[c].at \in {"rest", "sleep"} => loop[c].wake > 0
        /\ loop'[c] = [loop[c] EXCEPT !.age = IF loop[c].at \in {"set", "answer"} THEN @ + 1 ELSE @,
                                      !.wake = IF @ > 0 THEN @ - 1 ELSE 0]
    BY DEF Tick
  <2> DEFINE a == IF loop[c].at \in {"set", "answer"} THEN loop[c].age + 1 ELSE loop[c].age
             n == IF loop[c].wake > 0 THEN loop[c].wake - 1 ELSE 0
  <2>3. a \in 0..MaxDelay /\ n \in 0..(Interval - 1)
    BY <2>1, <2>2
  <2>4. loop'[c] = [loop[c] EXCEPT !.age = a, !.wake = n]
    BY <2>2
  <2>5. /\ loop[c].at = "rest" => n = loop[c].wake - 1 /\ a = loop[c].age
        /\ loop[c].at = "answer" => a = loop[c].age + 1
    BY <2>2
  <2> HIDE DEF a, n
  <2> QED
    BY <2>1, <2>2, <2>3, <2>4, <2>5
<1>3. PreloaderType'
  <2>1. entry' \in [Cache -> [age : Nat, ttl : 0..Interval]]
    BY <1>1 DEF Tick
  <2>2. loop' \in [Cache -> [at : LoopAt, age : 0..MaxDelay, wake : 0..(Interval - 1)]]
    BY <1>2 DEF Tick
  <2>3. get' \in [busy : BOOLEAN, cache : {get'.cache}, age : 0..MaxDelay]
        /\ (get'.busy => get'.cache \in Cache)
    <3>1. /\ get \in [busy : BOOLEAN, cache : {get.cache}, age : 0..MaxDelay]
          /\ get.busy => get.cache \in Cache
          /\ get.busy => get.age < MaxDelay
          /\ get' = [get EXCEPT !.age = IF get.busy THEN @ + 1 ELSE @]
      BY DEF PreloaderIInv, PreloaderType, Tick
    <3> QED
      BY <3>1
  <2> QED
    BY <2>1, <2>2, <2>3 DEF PreloaderIInv, PreloaderType, Tick
<1>4. StoppedInOrder' /\ Fresh'
  BY <1>1 DEF PreloaderIInv, StoppedInOrder, Fresh, Tick
<1>5. AnswerOnItsWay'
  <2> SUFFICES ASSUME NEW c \in Cache, loop'[c].at = "answer", c \notin cancelled
               PROVE  entry'[c].ttl + loop'[c].age >= Interval
    BY DEF AnswerOnItsWay, Tick
  <2>1. entry[c].ttl + loop[c].age >= Interval
    BY <1>2 DEF PreloaderIInv, AnswerOnItsWay
  <2>2. entry[c].ttl \in Nat /\ loop[c].age \in Nat
    BY DEF PreloaderIInv, PreloaderType
  <2> QED
    BY <1>1, <1>2, <2>1, <2>2
<1>6. FilledWhileResting'
  <2> SUFFICES ASSUME NEW c \in Cache, loop'[c].at = "rest", c \notin cancelled
               PROVE  entry'[c].ttl + loop'[c].age > loop'[c].wake
    BY DEF FilledWhileResting, Tick
  <2>1. entry[c].ttl + loop[c].age > loop[c].wake /\ loop[c].wake > 0
    BY <1>2 DEF PreloaderIInv, FilledWhileResting
  <2>2. entry[c].ttl \in Nat /\ loop[c].wake \in Nat /\ loop[c].age \in Nat
    BY DEF PreloaderIInv, PreloaderType
  <2> QED
    BY <1>1, <1>2, <2>1, <2>2
<1> QED
  BY <1>3, <1>4, <1>5, <1>6 DEF PreloaderIInv

-----------------------------------------------------------------------------
(***************************************************************************)
(* The route.  As long as the API has named one pool only and nothing has  *)
(* failed, a swap that builds finds the pool in the sorted set and its     *)
(* data in Redis: whatever ended its look-up in find_route left both       *)
(* there, and no trim takes the only pool away.                            *)
(***************************************************************************)
SwapAt ==
  {"asked", "curve", "memo", "top", "bump", "data", "row", "fetch", "add",
   "store", "length", "trim", "select", "insert", "built", "failed"}

SwapType ==
  [at : SwapAt, program : Programs, phase : {"route", "build"},
   route : {"none", "PUMP", "RAYDIUM_V4", "DEX", "unsupported"},
   pool : Pool \cup {NoPool}, num : Nat]

RouteType ==
  /\ swap \in [Swap -> SwapType]
  /\ held \subseteq Pool /\ rows \subseteq held
  /\ listed \subseteq Named /\ listed \subseteq Pool /\ IsFiniteSet(listed)
  /\ failures \in Nat
  /\ memo = "launched" => migrated

\* What a swap knows at its await.
Knows(s) ==
  /\ swap[s].at \in {"asked", "curve", "memo"} => swap[s].phase = "route"
  /\ swap[s].at \in {"built", "failed"} => swap[s].phase = "build"
  /\ swap[s].at \in {"bump", "data", "add", "store", "length", "trim", "select", "insert"} =>
       swap[s].pool \in Pool
  /\ swap[s].at \in {"bump", "data"} => swap[s].pool \in Named
  /\ swap[s].at \in {"length", "trim", "select", "insert"} => swap[s].pool \in held
  /\ swap[s].at = "memo" /\ swap[s].num = 1 => migrated

\* Nothing has failed and the API has named one pool at most.
Calm == failures = 0 /\ \A p, q \in Named : p = q

Lucky(s) ==
  /\ swap[s].at = "store" => listed # {}
  /\ swap[s].at = "trim" => swap[s].num <= 1
  /\ swap[s].phase = "build" /\ swap[s].at \notin {"built", "failed"} =>
       held # {} /\ swap[s].at \in {"top", "bump", "data"}
  /\ swap[s].at = "failed" => swap[s].route = "unsupported"

RouteIInv ==
  /\ RouteType
  /\ \A s \in Swap : Knows(s)
  /\ Calm => /\ held # {} => listed # {}
             /\ \A s \in Swap : Lucky(s)

\* The strengthening holds at first.
LEMMA RouteInitial == RouteInit => RouteIInv
<1> SUFFICES ASSUME RouteInit PROVE RouteIInv
  OBVIOUS
<1>1. swap \in [Swap -> SwapType] /\ \A s \in Swap : swap[s].at = "asked" /\ swap[s].phase = "route"
  BY DEF RouteInit, SwapType, SwapAt
<1>2. IsFiniteSet({})
  BY FS_EmptySet
<1>3. RouteType
  BY <1>1, <1>2 DEF RouteInit, RouteType
<1>4. \A s \in Swap : Knows(s) /\ Lucky(s)
  BY <1>1 DEF Knows, Lucky
<1> QED
  BY <1>3, <1>4 DEF RouteIInv, RouteInit

\* A step of s leaves the other swaps where they are.
Changed(s) ==
  /\ swap' \in [Swap -> SwapType]
  /\ \A t \in Swap \ {s} : swap'[t] = swap[t]

LEMMA GoesTo ==
  ASSUME RouteType, NEW s \in Swap, NEW a \in SwapAt, Goes(s, a)
  PROVE  /\ Changed(s)
         /\ swap'[s].at = a /\ swap'[s].pool = swap[s].pool /\ swap'[s].num = swap[s].num
         /\ swap'[s].phase = swap[s].phase /\ swap'[s].route = swap[s].route
  BY DEF RouteType, Goes, Changed, SwapType

LEMMA GoesToWith ==
  ASSUME RouteType, NEW s \in Swap, NEW a \in SwapAt,
         NEW p \in Pool \cup {NoPool}, NEW n \in Nat, GoesWith(s, a, p, n)
  PROVE  /\ Changed(s)
         /\ swap'[s].at = a /\ swap'[s].pool = p /\ swap'[s].num = n
         /\ swap'[s].phase = swap[s].phase /\ swap'[s].route = swap[s].route
<1> DEFINE f == [swap EXCEPT ![s].at = a]
           g == [f EXCEPT ![s].pool = p]
<1>1. swap' = [g EXCEPT ![s].num = n]
  BY DEF GoesWith
<1>2. /\ f \in [Swap -> SwapType] /\ \A t \in Swap \ {s} : f[t] = swap[t]
      /\ f[s].at = a /\ f[s].phase = swap[s].phase /\ f[s].route = swap[s].route
  BY DEF RouteType, SwapType
<1> HIDE DEF f
<1>3. /\ g \in [Swap -> SwapType] /\ \A t \in Swap \ {s} : g[t] = f[t]
      /\ g[s].pool = p /\ g[s].at = f[s].at /\ g[s].phase = f[s].phase
      /\ g[s].route = f[s].route
  BY <1>2 DEF SwapType
<1> HIDE DEF g
<1>4. /\ swap' \in [Swap -> SwapType] /\ \A t \in Swap \ {s} : swap'[t] = g[t]
      /\ swap'[s].num = n /\ swap'[s].pool = g[s].pool /\ swap'[s].at = g[s].at
      /\ swap'[s].phase = g[s].phase /\ swap'[s].route = g[s].route
  BY <1>1, <1>3 DEF SwapType
<1> QED
  BY <1>2, <1>3, <1>4 DEF Changed

LEMMA IsRouted ==
  ASSUME RouteType, NEW s \in Swap,
         NEW r \in {"PUMP", "RAYDIUM_V4", "DEX", "unsupported"}, Routed(s, r)
  PROVE  /\ Changed(s)
         /\ swap'[s].at = (IF r = "RAYDIUM_V4" THEN "top"
                           ELSE IF r = "unsupported" THEN "failed" ELSE "built")
         /\ swap'[s].phase = "build" /\ swap'[s].route = r
<1> DEFINE a == IF r = "RAYDIUM_V4" THEN "top" ELSE IF r = "unsupported" THEN "failed" ELSE "built"
           f == [swap EXCEPT ![s].route = r]
           g == [f EXCEPT ![s].phase = "build"]
           h == [g EXCEPT ![s].pool = NoPool]
           k == [h EXCEPT ![s].num = 0]
<1>1. a \in SwapAt /\ swap' = [k EXCEPT ![s].at = a]
  BY DEF SwapAt, Routed
<1>2. /\ f \in [Swap -> SwapType] /\ \A t \in Swap \ {s} : f[t] = swap[t]
      /\ f[s].route = r
  BY DEF RouteType, SwapType
<1> HIDE DEF a, f
<1>3. /\ g \in [Swap -> SwapType] /\ \A t \in Swap \ {s} : g[t] = f[t]
      /\ g[s].route = f[s].route /\ g[s].phase = "build"
  BY <1>2 DEF SwapType
<1> HIDE DEF g
<1>4. /\ h \in [Swap -> SwapType] /\ \A t \in Swap \ {s} : h[t] = g[t]
      /\ h[s].route = g[s].route /\ h[s].phase = g[s].phase
  BY <1>3 DEF SwapType
<1> HIDE DEF h
<1>5. /\ k \in [Swap -> SwapType] /\ \A t \in Swap \ {s} : k[t] = h[t]
      /\ k[s].route = h[s].route /\ k[s].phase = h[s].phase
  BY <1>4 DEF SwapType
<1> HIDE DEF k
<1>6. /\ swap' \in [Swap -> SwapType] /\ \A t \in Swap \ {s} : swap'[t] = k[t]
      /\ swap'[s].at = a /\ swap'[s].route = k[s].route /\ swap'[s].phase = k[s].phase
  BY <1>1, <1>5 DEF SwapType
<1>7. Changed(s) /\ swap'[s].at = a /\ swap'[s].phase = "build" /\ swap'[s].route = r
  BY <1>2, <1>3, <1>4, <1>5, <1>6 DEF Changed
<1> QED
  BY <1>7 DEF a

LEMMA OtherwiseType == \A g \in Programs : Otherwise(g) \in {"RAYDIUM_V4", "DEX", "unsupported"}
  BY DEF Otherwise, Programs

\* Nothing the API named is forgotten as long as what s holds is not.
LEMMA NamedGrows ==
  ASSUME NEW s \in Swap, Changed(s), held \subseteq held',
         swap[s].at \in {"add", "store"} => swap[s].pool \in Named'
  PROVE  Named \subseteq Named'
<1> SUFFICES ASSUME NEW p \in Named PROVE p \in Named'
  OBVIOUS
<1>1. CASE p \in held
  BY <1>1 DEF Named
<1>2. CASE p \notin held
  <2>1. PICK t \in Swap : swap[t].at \in {"add", "store"} /\ swap[t].pool = p
    BY <1>2 DEF Named
  <2>2. CASE t = s
    BY <2>1, <2>2
  <2>3. CASE t # s
    BY <2>1, <2>3 DEF Named, Changed
  <2> QED
    BY <2>2, <2>3
<1> QED
  BY <1>1, <1>2

\* What is to be shown of a step of s.
LEMMA RouteStep ==
  ASSUME RouteIInv, NEW s \in Swap, Changed(s),
         migrated' = migrated, failures' \in Nat, failures' >= failures,
         held \subseteq held', held' \subseteq Pool, rows' \subseteq held',
         listed' \subseteq Named', listed' \subseteq Pool, IsFiniteSet(listed'),
         memo' = "launched" => migrated,
         swap[s].at \in {"add", "store"} => swap[s].pool \in Named',
         Knows(s)',
         Calm /\ Calm' => /\ listed # {} => listed' # {}
                          /\ held' # held => listed' # {}
                          /\ Lucky(s)'
  PROVE  RouteIInv'
<1>1. RouteType'
  BY DEF RouteType, RouteIInv, Changed
<1>2. Named \subseteq Named'
  BY NamedGrows
<1>3. Calm' => Calm
  BY <1>2 DEF Calm, RouteIInv, RouteType
<1>4. ASSUME NEW t \in Swap PROVE Knows(t)'
  <2>1. CASE t = s
    BY <2>1
  <2>2. CASE t # s
    <3>1. Knows(t) /\ swap'[t] = swap[t]
      BY <2>2 DEF RouteIInv, Changed
    <3> QED
      BY <3>1, <1>2 DEF Knows
  <2> QED
    BY <2>1, <2>2
<1>5. ASSUME Calm' PROVE (held # {} => listed # {})' /\ \A t \in Swap : Lucky(t)'
  <2>1. (held # {} => listed # {})'
    BY <1>3, <1>5 DEF RouteIInv
  <2>2. ASSUME NEW t \in Swap, t # s PROVE Lucky(t)'
    <3>1. Lucky(t) /\ swap'[t] = swap[t] /\ (listed # {} => listed' # {})
      BY <1>3, <1>5, <2>2 DEF RouteIInv, Changed
    <3> QED
      BY <3>1 DEF Lucky
  <2> QED
    BY <1>3, <1>5, <2>1, <2>2
<1> QED
  BY <1>1, <1>4, <1>5 DEF RouteIInv

-----------------------------------------------------------------------------
\* What a swap that leaves the look-up of find_route has to show for Lucky and
\* Knows: in a calm run it left the pool's data behind.
LEMMA RoutedStep ==
  ASSUME RouteIInv, NEW s \in Swap,
         NEW r \in {"PUMP", "RAYDIUM_V4", "DEX", "unsupported"}, Routed(s, r),
         migrated' = migrated, failures' \in Nat, failures' >= failures,
         held' = held, listed' = listed, rows' \subseteq held,
         memo' = "launched" => migrated,
         swap[s].at \notin {"add", "store"},
         Calm /\ Calm' /\ r = "RAYDIUM_V4" => held # {}
  PROVE  RouteIInv'
<1>1. RouteType
  BY DEF RouteIInv
<1>2. /\ Changed(s)
      /\ swap'[s].at = (IF r = "RAYDIUM_V4" THEN "top"
                        ELSE IF r = "unsupported" THEN "failed" ELSE "built")
      /\ swap'[s].phase = "build" /\ swap'[s].route = r
  BY <1>1, IsRouted
<1>3. Knows(s)'
  BY <1>2 DEF Knows
<1>4. Calm /\ Calm' => Lucky(s)'
  BY <1>2 DEF Lucky
<1>5. Named = Named'
  BY <1>2 DEF Named, Changed
<1> QED
  BY <1>1, <1>2, <1>3, <1>4, <1>5, RouteStep DEF RouteType

LEMMA EndsStep ==
  ASSUME RouteIInv, NEW s \in Swap, NEW a \in {"built", "failed"}, Ends(s, a),
         migrated' = migrated, failures' \in Nat, failures' >= failures,
         held' = held, listed' = listed, rows' \subseteq held, memo' = memo,
         swap[s].at \notin {"asked", "curve", "memo", "add", "store"},
         Calm /\ Calm' => /\ swap[s].phase = "route" => held # {}
                          /\ swap[s].phase = "build" => a = "built"
  PROVE  RouteIInv'
<1>1. RouteType /\ swap[s].program \in Programs /\ swap[s].phase \in {"route", "build"}
  BY DEF RouteIInv, RouteType, SwapType
<1>2. CASE swap[s].phase = "route"
  <2>1. Routed(s, Otherwise(swap[s].program))
        /\ Otherwise(swap[s].program) \in {"PUMP", "RAYDIUM_V4", "DEX", "unsupported"}
    BY <1>1, <1>2, OtherwiseType DEF Ends
  <2> QED
    BY <1>1, <1>2, <2>1, RoutedStep DEF RouteType
<1>3. CASE swap[s].phase = "build"
  <2>1. GoesWith(s, a, NoPool, 0) /\ a \in SwapAt
    BY <1>3 DEF Ends, SwapAt
  <2>2. Changed(s) /\ swap'[s].at = a /\ swap'[s].phase = "build"
    BY <1>1, <1>3, <2>1, GoesToWith
  <2>3. Knows(s)'
    BY <2>2 DEF Knows
  <2>4. Calm /\ Calm' => Lucky(s)'
    BY <1>3, <2>2 DEF Lucky
  <2>5. Named \subseteq Named'
    BY <2>2, NamedGrows
  <2> QED
    BY <1>1, <2>2, <2>3, <2>4, <2>5, RouteStep DEF RouteType
<1> QED
  BY <1>1, <1>2, <1>3

LEMMA RoutesStep ==
  ASSUME RouteIInv, NEW s \in Swap, NEW launched \in BOOLEAN, Routes(s, launched),
         swap[s].at \in {"asked", "memo"}, memo' = "launched" => migrated,
         UNCHANGED <<migrated, failures, held, listed, rows>>
  PROVE  RouteIInv'
<1>1. RouteType /\ swap[s].phase = "route"
  BY DEF RouteIInv, Knows
<1>2. CASE Routed(s, "PUMP")
  BY <1>1, <1>2, RoutedStep DEF RouteType
<1>3. CASE Goes(s, "top")
  <2>1. Changed(s) /\ swap'[s].at = "top" /\ swap'[s].phase = "route"
    BY <1>1, <1>3, GoesTo DEF SwapAt
  <2>2. Knows(s)' /\ Lucky(s)'
    BY <2>1 DEF Knows, Lucky
  <2>3. Named \subseteq Named'
    BY <2>1, NamedGrows
  <2> QED
    BY <1>1, <2>1, <2>2, <2>3, RouteStep DEF RouteType
<1> QED
  BY <1>2, <1>3 DEF Routes

\* A calm sorted set has one pool at most.
LEMMA OneAtMost ==
  ASSUME NEW S, IsFiniteSet(S), \A p, q \in S : p = q
  PROVE  Cardinality(S) \in Nat /\ Cardinality(S) <= 1
<1>1. CASE S = {}
  BY <1>1, FS_EmptySet
<1>2. CASE S # {}
  <2>1. PICK x : x \in S
    BY <1>2
  <2>2. S = {x}
    BY <2>1
  <2> QED
    BY <2>2, FS_Singleton
<1> QED
  BY <1>1, <1>2

LEMMA SwapKeeps ==
  ASSUME RouteIInv, NEW s \in Swap, SwapStep(s)
  PROVE  RouteIInv'
<1> USE RouteAssumption
<1>0. /\ RouteType /\ Knows(s) /\ failures \in Nat /\ failures >= failures
      /\ swap[s] \in SwapType
      /\ swap[s].pool \in Pool \cup {NoPool} /\ swap[s].num \in Nat
      /\ swap[s].program \in Programs /\ swap[s].phase \in {"route", "build"}
  BY DEF RouteIInv, RouteType, SwapType
<1>a. SwapAt = {"asked", "curve", "memo", "top", "bump", "data", "row", "fetch", "add",
                "store", "length", "trim", "select", "insert", "built", "failed"}
  BY DEF SwapAt
<1>1. CASE AskMemo(s)
  <2>1. CASE memo = "none"
    <3>1. Changed(s) /\ swap'[s].at = "curve" /\ swap'[s].phase = "route"
      BY <1>0, <1>1, <2>1, <1>a, GoesTo DEF AskMemo, Knows
    <3>2. Knows(s)' /\ Lucky(s)'
      BY <3>1 DEF Knows, Lucky
    <3>3. Named \subseteq Named'
      BY <1>1, <3>1, NamedGrows DEF AskMemo
    <3> QED
      BY <1>0, <1>1, <3>1, <3>2, <3>3, RouteStep DEF AskMemo, RouteType
  <2>2. CASE memo # "none"
    <3>1. Routes(s, memo = "launched") /\ (memo = "launched") \in BOOLEAN
      BY <1>1, <2>2 DEF AskMemo
    <3> QED
      BY <1>0, <1>1, <3>1, RoutesStep DEF AskMemo, RouteType
  <2> QED
    BY <2>1, <2>2
<1>2. CASE ReadCurve(s)
  <2>1. CASE GoesWith(s, "memo", NoPool, IF migrated THEN 1 ELSE 0) /\ UNCHANGED failures
    <3>1. (IF migrated THEN 1 ELSE 0) \in Nat
      OBVIOUS
    <3>2. Changed(s) /\ swap'[s].at = "memo" /\ swap'[s].phase = "route"
          /\ swap'[s].num = IF migrated THEN 1 ELSE 0
      BY <1>0, <1>2, <2>1, <1>a, <3>1, GoesToWith DEF ReadCurve, Knows
    <3>3. Knows(s)' /\ Lucky(s)'
      BY <1>2, <3>2 DEF Knows, Lucky, ReadCurve
    <3>4. Named \subseteq Named'
      BY <1>2, <3>2, NamedGrows DEF ReadCurve
    <3> QED
      BY <1>0, <1>2, <2>1, <3>2, <3>3, <3>4, RouteStep DEF ReadCurve, RouteType
  <2>2. CASE Failing /\ Routed(s, Otherwise(swap[s].program))
    <3>1. failures' \in Nat /\ failures' > 0 /\ failures' >= failures /\ ~Calm'
      BY <1>0, <2>2 DEF Failing, Calm
    <3>2. Otherwise(swap[s].program) \in {"PUMP", "RAYDIUM_V4", "DEX", "unsupported"}
      BY <1>0, OtherwiseType
    <3> QED
      BY <1>0, <1>2, <2>2, <3>1, <3>2, RoutedStep DEF ReadCurve, RouteType
  <2> QED
    BY <1>2, <2>1, <2>2 DEF ReadCurve
<1>3. CASE Keep(s)
  <2>1. Routes(s, swap[s].num = 1) /\ (swap[s].num = 1) \in BOOLEAN
    BY <1>3 DEF Keep
  <2>2. memo' = "launched" => migrated
    BY <1>0, <1>3 DEF Keep, Knows
  <2> QED
    BY <1>3, <2>1, <2>2, RoutesStep DEF Keep
<1>4. CASE FindTop(s)
  <2>1. CASE listed = {} /\ Goes(s, "row")
    <3>1. Changed(s) /\ swap'[s].at = "row" /\ swap'[s].phase = swap[s].phase
      BY <1>0, <2>1, <1>a, GoesTo
    <3>2. Knows(s)'
      BY <3>1 DEF Knows
    <3>3. Calm => Lucky(s)'
      BY <1>0, <1>4, <2>1, <3>1 DEF FindTop, RouteIInv, Lucky
    <3>4. Named \subseteq Named'
      BY <1>4, <3>1, NamedGrows DEF FindTop
    <3> QED
      BY <1>0, <1>4, <3>1, <3>2, <3>3, <3>4, RouteStep DEF FindTop, RouteType
  <2>2. ASSUME NEW p \in listed, GoesWith(s, "bump", p, 0) PROVE RouteIInv'
    <3>0. p \in Pool /\ p \in Named
      BY <1>0 DEF RouteType
    <3>1. Changed(s) /\ swap'[s].at = "bump" /\ swap'[s].phase = swap[s].phase
          /\ swap'[s].pool = p
      BY <1>0, <2>2, <3>0, <1>a, GoesToWith
    <3>2. Named \subseteq Named'
      BY <1>4, <3>1, NamedGrows DEF FindTop
    <3>3. Knows(s)'
      BY <3>0, <3>1, <3>2 DEF Knows
    <3>4. Calm => Lucky(s)'
      BY <1>4, <3>1 DEF FindTop, RouteIInv, Lucky
    <3> QED
      BY <1>0, <1>4, <3>1, <3>2, <3>3, <3>4, RouteStep DEF FindTop, RouteType
  <2> QED
    BY <1>4, <2>1, <2>2 DEF FindTop
<1>5. CASE Bump(s)
  <2>0. swap[s].pool \in Pool /\ swap[s].pool \in Named
    BY <1>0, <1>5 DEF Bump, Knows
  <2>1. Changed(s) /\ swap'[s].at = "data" /\ swap'[s].phase = swap[s].phase
        /\ swap'[s].pool = swap[s].pool
    BY <1>0, <1>5, <1>a, GoesTo DEF Bump
  <2>2. Named \subseteq Named'
    BY <1>5, <2>1, NamedGrows DEF Bump
  <2>3. Knows(s)'
    BY <2>0, <2>1, <2>2 DEF Knows
  <2>4. Calm => Lucky(s)'
    BY <1>5, <2>1 DEF Bump, RouteIInv, Lucky
  <2>5. IsFiniteSet(listed') /\ listed' # {} /\ listed' \subseteq Named' /\ listed' \subseteq Pool
    BY <1>0, <1>5, <2>0, <2>2, FS_AddElement DEF Bump, RouteType
  <2> QED
    BY <1>0, <1>5, <2>1, <2>2, <2>3, <2>4, <2>5, RouteStep DEF Bump, RouteType
<1>6. CASE ReadData(s)
  <2>0. swap[s].pool \in Pool /\ swap[s].pool \in Named
    BY <1>0, <1>6 DEF ReadData, Knows
  <2>1. CASE swap[s].pool \in held
    BY <1>0, <1>6, <2>1, EndsStep DEF ReadData, RouteType, Answers
  <2>2. CASE swap[s].pool \notin held
    <3>1. Changed(s) /\ swap'[s].at = "fetch" /\ swap'[s].phase = swap[s].phase
      BY <1>0, <1>6, <2>2, <1>a, GoesToWith DEF ReadData
    <3>2. Named \subseteq Named'
      BY <1>6, <3>1, NamedGrows DEF ReadData
    <3>3. Knows(s)'
      BY <3>1 DEF Knows
    <3>4. ASSUME Calm, swap[s].phase = "build" PROVE FALSE
      <4>1. PICK p : p \in held
        BY <1>6, <3>4 DEF ReadData, RouteIInv, Lucky
      <4>2. p \in Named
        BY <4>1 DEF Named
      <4> QED
        BY <2>0, <2>2, <3>4, <4>1, <4>2 DEF Calm
    <3>5. Calm => Lucky(s)'
      BY <3>1, <3>4 DEF Lucky
    <3> QED
      BY <1>0, <1>6, <3>1, <3>2, <3>3, <3>5, RouteStep DEF ReadData, RouteType
  <2> QED
    BY <2>1, <2>2
<1>7. CASE ReadRow(s)
  <2>0. Calm => swap[s].phase = "route"
    BY <1>0, <1>7 DEF ReadRow, RouteIInv, Lucky
  <2>1. CASE rows = {}
    <3>1. Changed(s) /\ swap'[s].at = "fetch" /\ swap'[s].phase = swap[s].phase
      <4>1. Cardinality(rows) = 0
        BY <2>1, FS_EmptySet
      <4>2. Goes(s, "fetch")
        BY <1>7, <2>1, <4>1 DEF ReadRow
      <4> QED
        BY <1>0, <4>2, <1>a, GoesTo
    <3>2. Named \subseteq Named'
      BY <1>7, <3>1, NamedGrows DEF ReadRow
    <3>3. Knows(s)'
      BY <3>1 DEF Knows
    <3>4. Calm => Lucky(s)'
      BY <2>0, <3>1 DEF Lucky
    <3> QED
      BY <1>0, <1>7, <3>1, <3>2, <3>3, <3>4, RouteStep DEF ReadRow, RouteType
  <2>2. CASE rows # {}
    <3>1. held # {}
      BY <1>0, <2>2 DEF RouteType
    <3>2. Answers(s) \/ Raises(s)
      BY <1>7, <2>2 DEF ReadRow
    <3>3. PICK a \in {"built", "failed"} : Ends(s, a)
      BY <3>2 DEF Answers, Raises
    <3>4. swap[s].at = "row" /\ UNCHANGED <<migrated, memo, listed, held, rows, failures>>
      BY <1>7 DEF ReadRow
    <3>5. rows' \subseteq held
      BY <1>0, <3>4 DEF RouteType
    <3> QED
      BY <1>0, <2>0, <3>1, <3>3, <3>4, <3>5, EndsStep
  <2> QED
    BY <2>1, <2>2
<1>8. CASE Fetch(s)
  <2>0. Calm => swap[s].phase = "route"
    BY <1>0, <1>8 DEF Fetch, RouteIInv, Lucky
  <2>1. ASSUME NEW p \in Pool, GoesWith(s, "add", p, 0), UNCHANGED failures PROVE RouteIInv'
    <3>1. Changed(s) /\ swap'[s].at = "add" /\ swap'[s].phase = swap[s].phase
          /\ swap'[s].pool = p
      BY <1>0, <2>1, <1>a, GoesToWith
    <3>2. Named \subseteq Named'
      BY <1>8, <3>1, NamedGrows DEF Fetch
    <3>3. Knows(s)'
      BY <3>1 DEF Knows
    <3>4. Calm => Lucky(s)'
      BY <2>0, <3>1 DEF Lucky
    <3> QED
      BY <1>0, <1>8, <2>1, <3>1, <3>2, <3>3, <3>4, RouteStep DEF Fetch, RouteType
  <2>2. CASE Failing /\ Raises(s)
    <3>1. failures' \in Nat /\ failures' > 0 /\ failures' >= failures /\ ~Calm'
      BY <1>0, <2>2 DEF Failing, Calm
    <3> QED
      BY <1>0, <1>8, <2>2, <3>1, EndsStep DEF Fetch, RouteType, Raises
  <2> QED
    BY <1>8, <2>1, <2>2 DEF Fetch
<1>9. CASE AddScore(s)
  <2>0. swap[s].pool \in Pool
    BY <1>0, <1>9 DEF AddScore, Knows
  <2>1. Changed(s) /\ swap'[s].at = "store" /\ swap'[s].phase = swap[s].phase
        /\ swap'[s].pool = swap[s].pool
    BY <1>0, <1>9, <1>a, GoesTo DEF AddScore
  <2>2. swap[s].pool \in Named'
    BY <2>1 DEF Named
  <2>3. Named \subseteq Named'
    BY <1>9, <2>1, <2>2, NamedGrows DEF AddScore
  <2>4. Knows(s)'
    BY <2>0, <2>1 DEF Knows
  <2>5. IsFiniteSet(listed') /\ listed' # {} /\ listed' \subseteq Named' /\ listed' \subseteq Pool
    BY <1>0, <1>9, <2>0, <2>2, <2>3, FS_AddElement DEF AddScore, RouteType
  <2>6. Calm => Lucky(s)'
    BY <1>9, <2>1, <2>5 DEF AddScore, RouteIInv, Lucky
  <2> QED
    BY <1>0, <1>9, <2>1, <2>2, <2>3, <2>4, <2>5, <2>6, RouteStep DEF AddScore, RouteType
<1>10. CASE Store(s)
  <2>0. swap[s].pool \in Pool
    BY <1>0, <1>10 DEF Store, Knows
  <2>1. Changed(s) /\ swap'[s].at = "length" /\ swap'[s].phase = swap[s].phase
        /\ swap'[s].pool = swap[s].pool
    BY <1>0, <1>10, <1>a, GoesTo DEF Store
  <2>2. swap[s].pool \in Named' /\ held \subseteq held' /\ held' \subseteq Pool /\ rows' \subseteq held'
    BY <1>0, <1>10, <2>0 DEF Named, Store, RouteType
  <2>3. Named \subseteq Named'
    BY <2>1, <2>2, NamedGrows
  <2>4. Knows(s)'
    BY <1>10, <2>0, <2>1 DEF Knows, Store
  <2>5. Calm => listed # {} /\ swap[s].phase = "route"
    BY <1>0, <1>10 DEF Store, RouteIInv, Lucky
  <2>6. Calm => Lucky(s)'
    BY <2>1, <2>5 DEF Lucky
  <2> QED
    BY <1>0, <1>10, <2>1, <2>2, <2>3, <2>4, <2>5, <2>6, RouteStep DEF Store, RouteType
<1>11. CASE ReadLength(s)
  <2>0. swap[s].pool \in Pool /\ swap[s].pool \in held /\ Cardinality(listed) \in Nat
    BY <1>0, <1>11, FS_CardinalityType DEF ReadLength, Knows, RouteType
  <2>1. Changed(s) /\ swap'[s].at = "trim" /\ swap'[s].phase = swap[s].phase
        /\ swap'[s].pool = swap[s].pool /\ swap'[s].num = Cardinality(listed)
    BY <1>0, <1>11, <2>0, <1>a, GoesToWith DEF ReadLength
  <2>2. Named \subseteq Named'
    BY <1>11, <2>1, NamedGrows DEF ReadLength
  <2>3. Knows(s)'
    BY <1>11, <2>0, <2>1 DEF Knows, ReadLength
  <2>4. Calm => Cardinality(listed) <= 1
    <3> SUFFICES ASSUME Calm PROVE Cardinality(listed) <= 1
      OBVIOUS
    <3>1. IsFiniteSet(listed) /\ \A p, q \in listed : p = q
      BY <1>0 DEF Calm, RouteType
    <3> QED
      BY <3>1, OneAtMost
  <2>5. Calm => swap[s].phase = "route"
    BY <1>0, <1>11 DEF ReadLength, RouteIInv, Lucky
  <2>6. Calm => Lucky(s)'
    BY <2>1, <2>4, <2>5 DEF Lucky
  <2> QED
    BY <1>0, <1>11, <2>1, <2>2, <2>3, <2>6, RouteStep DEF ReadLength, RouteType
<1>12. CASE Trim(s)
  <2>0. swap[s].pool \in Pool /\ swap[s].pool \in held
    BY <1>0, <1>12 DEF Trim, Knows, RouteType
  <2>1. Changed(s) /\ swap'[s].at = "select" /\ swap'[s].phase = swap[s].phase
        /\ swap'[s].pool = swap[s].pool
    BY <1>0, <1>12, <2>0, <1>a, GoesToWith DEF Trim
  <2>2. Named \subseteq Named'
    BY <1>12, <2>1, NamedGrows DEF Trim
  <2>3. Knows(s)'
    BY <1>12, <2>0, <2>1 DEF Knows, Trim
  <2>4. listed' \subseteq listed
    BY <1>12 DEF Trim
  <2>5. IsFiniteSet(listed')
    BY <1>0, <2>4, FS_Subset DEF RouteType
  <2>6. Calm => listed' = listed /\ swap[s].phase = "route"
    <3> SUFFICES ASSUME Calm PROVE listed' = listed /\ swap[s].phase = "route"
      OBVIOUS
    <3>1. swap[s].num <= 1 /\ swap[s].phase = "route"
      BY <1>0, <1>12 DEF Trim, RouteIInv, Lucky
    <3>2. ~(swap[s].num - MaxLength > 0)
      BY <1>0, <3>1
    <3> QED
      BY <1>12, <3>1, <3>2 DEF Trim
  <2>7. Calm => Lucky(s)'
    BY <2>1, <2>6 DEF Lucky
  <2>8. listed' \subseteq Named' /\ listed' \subseteq Pool
    BY <1>0, <2>2, <2>4 DEF RouteType
  <2> QED
    BY <1>0, <1>12, <2>1, <2>2, <2>3, <2>5, <2>6, <2>7, <2>8, RouteStep DEF Trim, RouteType
<1>13. CASE Select(s)
  <2>0. swap[s].pool \in Pool /\ swap[s].pool \in held /\ (Calm => swap[s].phase = "route")
    BY <1>0, <1>13 DEF Select, Knows, RouteIInv, Lucky
  <2>1. CASE swap[s].pool \in rows
    BY <1>0, <1>13, <2>0, <2>1, EndsStep DEF Select, RouteType, Answers
  <2>2. CASE swap[s].pool \notin rows
    <3>1. Changed(s) /\ swap'[s].at = "insert" /\ swap'[s].phase = swap[s].phase
          /\ swap'[s].pool = swap[s].pool
      BY <1>0, <1>13, <2>2, <1>a, GoesTo DEF Select
    <3>2. Named \subseteq Named'
      BY <1>13, <3>1, NamedGrows DEF Select
    <3>3. Knows(s)'
      BY <1>13, <2>0, <3>1 DEF Knows, Select
    <3>4. Calm => Lucky(s)'
      BY <2>0, <3>1 DEF Lucky
    <3> QED
      BY <1>0, <1>13, <3>1, <3>2, <3>3, <3>4, RouteStep DEF Select, RouteType
  <2> QED
    BY <2>1, <2>2
<1>14. CASE Insert(s)
  <2>0. swap[s].pool \in held /\ (Calm => swap[s].phase = "route")
    BY <1>0, <1>14 DEF Insert, Knows, RouteIInv, Lucky
  <2>1. rows' \subseteq held
    BY <1>0, <1>14, <2>0 DEF Insert, RouteType
  <2>2. \E a \in {"built", "failed"} : Ends(s, a)
    BY <1>14 DEF Insert, Answers, Raises
  <2> QED
    BY <1>0, <1>14, <2>0, <2>1, <2>2, EndsStep DEF Insert, RouteType
<1> QED
  BY <1>1, <1>2, <1>3, <1>4, <1>5, <1>6, <1>7, <1>8, <1>9, <1>10, <1>11, <1>12, <1>13, <1>14
     DEF SwapStep

LEMMA MigrateKeeps == RouteIInv /\ Migrate => RouteIInv'
  BY DEF RouteIInv, RouteType, Knows, Lucky, Calm, Named, Migrate

-----------------------------------------------------------------------------
(***************************************************************************)
(* Both parts                                                              *)
(***************************************************************************)
IInv == PreloaderIInv /\ RouteIInv

LEMMA Initial == CachesInit => IInv
  BY PreloaderInitial, RouteInitial DEF CachesInit, IInv

\* What the variables of one part leave alone when they do not change.
LEMMA PreloaderStays == PreloaderIInv /\ UNCHANGED preloaderVars => PreloaderIInv'
  BY DEF PreloaderIInv, PreloaderType, StoppedInOrder, Fresh, AnswerOnItsWay,
         FilledWhileResting, preloaderVars

LEMMA RouteStays == RouteIInv /\ UNCHANGED routeVars => RouteIInv'
  BY DEF RouteIInv, RouteType, Knows, Lucky, Calm, Named, routeVars

LEMMA Keeps == IInv /\ [CachesNext]_cachesVars => IInv'
<1> SUFFICES ASSUME IInv, [CachesNext]_cachesVars PROVE IInv'
  OBVIOUS
<1>1. CASE UNCHANGED routeVars /\ PreloaderIInv'
  BY <1>1, RouteStays DEF IInv
<1>2. CASE Service
  BY <1>1, <1>2, ServiceKeeps DEF IInv, Service, Preloading
<1>3. CASE Time
  BY <1>1, <1>3, TickKeeps DEF IInv, Time, Preloading
<1>4. CASE Read
  BY <1>1, <1>4, GetKeeps DEF IInv, Read, Preloading
<1>5. ASSUME NEW c \in Cache, Update(c) PROVE IInv'
  BY <1>1, <1>5, UpdateKeeps DEF IInv, Update, Preloading
<1>6. CASE Routing
  <2>1. RouteIInv'
    BY <1>6, MigrateKeeps, SwapKeeps DEF IInv, Routing, RouteNext
  <2> QED
    BY <1>6, <2>1, PreloaderStays DEF IInv, Routing
<1>7. CASE UNCHANGED cachesVars
  BY <1>7, PreloaderStays, RouteStays DEF IInv, cachesVars
<1> QED
  BY <1>2, <1>3, <1>4, <1>5, <1>6, <1>7 DEF CachesNext

LEMMA Enough == IInv => CachesInv
<1> SUFFICES ASSUME IInv PROVE CachesInv
  OBVIOUS
<1>1. CachesTypeOK
  BY DEF IInv, PreloaderIInv, PreloaderType, StoppedInOrder, RouteIInv, RouteType,
         CachesTypeOK, LoopAt
<1>2. LaunchedIsLaunched
  BY DEF IInv, RouteIInv, RouteType, Knows, LaunchedIsLaunched
<1>3. RaceAbsorbed
  <2> SUFFICES ASSUME NEW s \in Swap, swap[s].at = "failed", failures = 0,
                      swap[s].route # "unsupported"
               PROVE  \E p, q \in Named : p # q
    BY DEF RaceAbsorbed, IInv, RouteIInv, RouteType
  <2> QED
    BY DEF IInv, RouteIInv, Lucky, Calm
<1> QED
  BY <1>1, <1>2, <1>3 DEF CachesInv, IInv, PreloaderIInv

\* Whatever the interval, the delays and the number of swaps: the values of the
\* preloader are fresh, and missing while their loop rests only by as much as the
\* answer of SET was late; a token is taken for launched only if it is, and a swap
\* fails for want of a pool only with a reason.
THEOREM CachesCorrect == CachesSpec => []CachesInv
<1>1. CachesSpec => []IInv
  BY Initial, Keeps, PTL DEF CachesSpec
<1> QED
  BY <1>1, Enough, PTL

\* Caches are started only before the event, stop() turns to them only after it.
LEMMA StartsNone ==
  ASSUME IInv, [CachesNext]_cachesVars, \E s \in Calls : stops[s] \in {"caches", "returned"}
  PROVE  is_running' \subseteq is_running
<1>1. shutdown
  BY DEF IInv, PreloaderIInv, StoppedInOrder
<1>2. CASE Service
  <2>1. ~StartCaches
    BY <1>1 DEF StartCaches
  <2>2. CASE Check
    BY <1>1, <2>2 DEF Check
  <2>3. CASE CreateMonitor \/ MonitorEnds
    BY <2>3 DEF CreateMonitor, MonitorEnds
  <2>4. ASSUME NEW s \in Calls, CallStop(s) \/ StopCaches(s) \/ StopReturns(s)
        PROVE  is_running' \subseteq is_running
    BY <2>4 DEF CallStop, StopCaches, StopReturns, StopsCaches
  <2> QED
    BY <1>2, <2>1, <2>2, <2>3, <2>4 DEF Service, Preloading, ServiceStep
<1>3. CASE Time \/ Read
  BY <1>3 DEF Time, Read, Preloading, Tick, GetStep, Get, GetSet
<1>4. ASSUME NEW c \in Cache, Update(c) PROVE is_running' \subseteq is_running
  BY <1>4 DEF Update, Preloading, UpdateStep, Generate, Set, Rest, Rests, Again, Cancelled
<1>5. CASE Routing \/ UNCHANGED cachesVars
  BY <1>5 DEF Routing, preloaderVars, cachesVars
<1> QED
  BY <1>2, <1>3, <1>4, <1>5 DEF CachesNext

\* Once stop() has turned to the caches the monitor restarts none of them, for any
\* number of caches and whatever fails.
THEOREM StoppedForGood == CachesSpec => StaysStopped
<1>1. CachesSpec => []IInv
  BY Initial, Keeps, PTL DEF CachesSpec
<1>2. IInv /\ [CachesNext]_cachesVars =>
        [(\E s \in Calls : stops[s] \in {"caches", "returned"}) => is_running' \subseteq is_running]_cachesVars
  BY StartsNone
<1> QED
  BY <1>1, <1>2, PTL DEF CachesSpec, StaysStopped
=============================================================================
