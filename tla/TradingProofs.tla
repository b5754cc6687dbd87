---------------------------- MODULE TradingProofs -----------------------------
(***************************************************************************)
(* The trading service.  First the invariant of TradingPipeline and what   *)
(* its steps never do, for any events, numbers of consumers and tasks,     *)
(* tries, failures and restarts; then that of SwapPath, one swap from its  *)
(* cause to its record, for any amounts, percentages, decimals and number  *)
(* of polls: what is asked for is traded, a share stays the share, and     *)
(* nothing is oversold, whatever is rounded, truncated or divided.         *)
(***************************************************************************)
EXTENDS TradingPipeline, SwapPath, TLAPS

-----------------------------------------------------------------------------
(***************************************************************************)
(* TradingPipeline: the inductive invariant                                *)
(***************************************************************************)
Delivered == {log[i] : i \in 1..last}
Old       == {log[i] : i \in 1..origin}

\* The callback may still be called for e in this life of the process: e is not
\* delivered yet, its task has not begun, or it is pending for this consumer,
\* which has not looked at its pending events, or for one that comes later.
Handable(e) ==
  /\ phase # "down"
  /\ \/ e \notin Delivered \/ task[e] = "waiting" \/ e \in batch
     \/ owner[e] > active
     \/ owner[e] = active /\ phase \in {"create", "pending"}

\* Where an event is, and what that says of the steps behind it.
Located(e) ==
  /\ e \notin Delivered =>
       handovers[e] = 0 /\ owner[e] = 0 /\ task[e] = "none" /\ e \notin acked
  /\ e \in batch => owner[e] = active /\ task[e] = "none" /\ phase = "drain"
  /\ task[e] = "waiting" => owner[e] = active /\ phase \in {"loop", "pause"}
  /\ task[e] # "none" => phase \in {"drain", "loop", "pause"}
  /\ e \in acked => owner[e] = 0

\* What each await of _process_message may assume.
Staged(e) ==
  /\ task[e] = "ack" => handovers[e] > 0 \/ e \in discarded
  /\ task[e] = "dlqAck" => e \in dlq
  /\ faults = 0 /\ (e \in dlq \/ task[e] \in {"dlqAdd", "dlqAck", "dlqDel"}) => e \in Malformed
  /\ e \in Malformed => handovers[e] = 0

\* Once per life, and nothing vanishes.
Counted(e) ==
  /\ handovers[e] <= boots
  /\ Handable(e) => handovers[e] < boots
  /\ e \in Delivered =>
       e \in Old \cup discarded \cup dlq \/ owner[e] # 0 \/ handovers[e] > 0

Global ==
  /\ \A i, j \in DOMAIN log : log[i] = log[j] => i = j
  /\ phase = "down" <=> active = 0
  /\ phase # "down" => boots > 0

ConsumerIInv ==
  /\ ConsumerTypeOK /\ Global
  /\ \A e \in Event : Located(e) /\ Staged(e) /\ Counted(e)

\* What each await of a swap task may assume.
Swapped(e) ==
  /\ phase = "down" \/ Handable(e) => swap[e] = "none" /\ sent[e] = 0
  /\ swap[e] \in {"waiting", "exec"} => sent[e] = 0
  /\ sent[e] <= 1
  /\ swap[e] \in {"settle", "record", "produce"} => e \in everSent
  /\ rows[e] <= handovers[e]
  /\ swap[e] \in {"waiting", "exec", "settle", "record"} => rows[e] < handovers[e]
  /\ swap[e] = "produce" => rows[e] > 0

TradingIInv ==
  /\ ConsumerIInv /\ TradingTypeOK /\ HashMeansRecorded
  /\ \A e \in Event : Swapped(e)

-----------------------------------------------------------------------------
(***************************************************************************)
(* TradingPipeline: the consumer                                           *)
(***************************************************************************)
\* It holds at first.
LEMMA ConsumerInitial == ConsumerInit => ConsumerIInv
<1> SUFFICES ASSUME ConsumerInit PROVE ConsumerIInv
  OBVIOUS
<1>1. ConsumerTypeOK
  <2>1. log \in Seq(Event) /\ Len(log) = 0
    BY DEF ConsumerInit
  <2>2. /\ origin \in 0..Len(log) /\ last \in origin..Len(log)
        /\ boots \in 0..MaxBoots /\ faults \in 0..MaxFaults /\ 0 \in 0..NumConsumers
    BY <2>1, ConsumerAssumption DEF ConsumerInit
  <2> QED
    BY <2>1, <2>2 DEF ConsumerInit, ConsumerTypeOK, Stages
<1>2. Global
  BY DEF ConsumerInit, Global
<1>3. ASSUME NEW e \in Event PROVE Located(e) /\ Staged(e) /\ Counted(e)
  <2>1. Delivered = {}
    BY DEF ConsumerInit, Delivered
  <2> QED
    BY <2>1 DEF ConsumerInit, Located, Staged, Counted, Handable
<1> QED
  BY <1>1, <1>2, <1>3 DEF ConsumerIInv

\* A step of one message's task: the other events are where they were.
LEMMA OneTask ==
  ASSUME ConsumerIInv, NEW e \in Event,
         ConsumerTypeOK', faults' >= faults, batch' \subseteq batch,
         UNCHANGED <<log, origin, last, active, phase, boots>>,
         \A x \in Event \ {e} :
           /\ task'[x] = task[x] /\ owner'[x] = owner[x] /\ handovers'[x] = handovers[x]
           /\ x \in acked' <=> x \in acked
           /\ x \in discarded' <=> x \in discarded
           /\ x \in dlq' <=> x \in dlq,
         Located(e)' /\ Staged(e)' /\ Counted(e)'
  PROVE  /\ ConsumerIInv'
         /\ \A x \in Event : x # e => (Handable(x)' => Handable(x))
<1>1. Delivered' = Delivered /\ Old' = Old
  BY DEF Delivered, Old
<1>2. ASSUME NEW x \in Event, x # e
      PROVE  (Handable(x)' => Handable(x)) /\ Located(x)' /\ Staged(x)' /\ Counted(x)'
  <2>0. Located(x) /\ Staged(x) /\ Counted(x)
    BY DEF ConsumerIInv
  <2>1. faults' = 0 => faults = 0
    BY DEF ConsumerIInv, ConsumerTypeOK
  <2>2. Handable(x)' => Handable(x)
    BY <1>1, <1>2 DEF Handable
  <2>3. Located(x)'
    BY <1>1, <1>2, <2>0 DEF Located
  <2>4. Staged(x)'
    BY <1>2, <2>0, <2>1 DEF Staged
  <2>5. Counted(x)'
    BY <1>1, <1>2, <2>0, <2>2 DEF Counted
  <2> QED
    BY <2>2, <2>3, <2>4, <2>5
<1>3. Global'
  BY DEF ConsumerIInv, Global
<1> QED
  BY <1>2, <1>3 DEF ConsumerIInv

\* If the callback is called for x, then once and not again.
HandedOnce(x) ==
  \/ handovers'[x] = handovers[x]
  \/ Handable(x) /\ ~Handable(x)' /\ handovers'[x] = handovers[x] + 1

\* Dispatch of a message that may still be handed over.
LEMMA DispatchKeeps ==
  ASSUME ConsumerIInv, NEW e \in Event, Dispatch(e),
         (task[e] = "waiting" /\ batch' = batch) \/ (e \in batch /\ batch' = batch \ {e}),
         UNCHANGED <<redis, stale, active, phase, interrupted, begun, dropped, acked,
                     boots, faults>>
  PROVE  /\ ConsumerIInv'
         /\ \A x \in Event : Handable(x)' => Handable(x)
         /\ \A x \in Event : HandedOnce(x)
<1>0. Located(e) /\ Staged(e) /\ Counted(e) /\ ConsumerTypeOK /\ Global
  BY DEF ConsumerIInv
<1>1. Delivered' = Delivered /\ Old' = Old
  BY DEF Delivered, Old, redis
<1>2. Handable(e) /\ owner[e] = active /\ active # 0 /\ e \in Delivered /\ phase \in {"drain", "loop", "pause"}
  BY <1>0 DEF Handable, Located, Global
<1>3. handovers[e] \in Nat /\ boots \in Nat /\ faults \in Nat /\ handovers[e] < boots
      /\ active \in Nat /\ owner[e] \in Nat
  BY <1>0, <1>2 DEF ConsumerTypeOK, Counted
<1>4. e \notin batch' /\ batch' \subseteq batch
  BY <1>0 DEF Located
<1>5. PICK st \in {"ack", "dlqAdd"} :
        /\ task' = [task EXCEPT ![e] = st]
        /\ \/ handovers' = handovers /\ discarded' = discarded \cup {e} /\ st = "ack"
           \/ handovers' = handovers /\ discarded' = discarded /\ e \in Malformed /\ st = "dlqAdd"
           \/ /\ handovers' = [handovers EXCEPT ![e] = handovers[e] + 1] /\ discarded' = discarded
              /\ e \notin Malformed /\ st = "ack"
  BY DEF Dispatch
<1>a0. /\ task \in [Event -> Stages] /\ handovers \in [Event -> Nat]
       /\ st \in Stages /\ handovers[e] + 1 \in Nat
  BY <1>0, <1>3 DEF ConsumerTypeOK, Stages
<1>a1. /\ task'[e] = st /\ task' \in [Event -> Stages]
       /\ \A x \in Event \ {e} : task'[x] = task[x]
  BY <1>5, <1>a0
<1>c. /\ handovers' \in [Event -> Nat]
      /\ \A x \in Event \ {e} : handovers'[x] = handovers[x]
      /\ handovers'[e] = handovers[e] \/ handovers'[e] = handovers[e] + 1
  BY <1>5, <1>a0
<1>a2. ConsumerTypeOK'
  <2>1. discarded' \subseteq Event
    BY <1>0, <1>5 DEF ConsumerTypeOK
  <2>2. UNCHANGED <<log, group, origin, last, owner, dlq>> /\ batch' \subseteq Event
    BY <1>0, <1>4 DEF ConsumerTypeOK, redis
  <2> QED
    BY <1>0, <1>a1, <1>c, <2>1, <2>2 DEF ConsumerTypeOK
<1>a3. ~Handable(e)'
  BY <1>1, <1>2, <1>3, <1>4, <1>a1 DEF Handable, redis
<1>a4. Located(e)'
  BY <1>0, <1>1, <1>2, <1>4, <1>a1 DEF Located, redis
<1>a5. Staged(e)'
  <2>1. st = "ack" => handovers'[e] > 0 \/ e \in discarded'
    BY <1>0, <1>3, <1>5 DEF ConsumerTypeOK
  <2>2. e \in Malformed => handovers'[e] = 0
    BY <1>0, <1>5 DEF Staged
  <2>3. faults = 0 /\ (e \in dlq \/ st = "dlqAdd") => e \in Malformed
    BY <1>0, <1>5 DEF Staged
  <2> QED
    BY <1>a1, <1>c, <2>1, <2>2, <2>3 DEF Staged, redis
<1>a6. Counted(e)'
  BY <1>0, <1>1, <1>2, <1>3, <1>5, <1>c, <1>a3 DEF Counted, redis
<1>a7. \A x \in Event \ {e} : x \in discarded' <=> x \in discarded
  BY <1>5
<1>a8. UNCHANGED <<log, origin, last, active, phase, boots, owner, dlq>> /\ faults' >= faults
  BY <1>3 DEF redis
<1>a9. ConsumerIInv' /\ \A x \in Event : x # e => (Handable(x)' => Handable(x))
  BY <1>4, <1>a1, <1>c, <1>a2, <1>a4, <1>a5, <1>a6, <1>a7, <1>a8, OneTask
<1>b. ASSUME NEW x \in Event
      PROVE  HandedOnce(x)
  <2>1. CASE x = e
    BY <1>2, <1>c, <1>a3, <2>1 DEF HandedOnce
  <2>2. CASE x # e
    BY <1>c, <2>2 DEF HandedOnce
  <2> QED
    BY <2>1, <2>2
<1> QED
  BY <1>a3, <1>a9, <1>b

\* What every step of the consumer owes.
Orderly ==
  /\ ConsumerIInv'
  /\ \A x \in Event : (Handable(x)' => Handable(x)) /\ HandedOnce(x)

LEMMA ReplyFaults ==
  ASSUME ConsumerTypeOK, NEW r \in Replies, Reply(r)
  PROVE  faults' \in 0..MaxFaults /\ faults' >= faults /\ (r # "ok" => faults' # 0)
<1>1. faults \in Nat /\ MaxFaults \in Nat /\ faults <= MaxFaults
  BY ConsumerAssumption DEF ConsumerTypeOK
<1> QED
  BY <1>1 DEF Reply

\* The commands of one message: its task moves, and the event may leave the PEL
\* or enter the dead letters.
LEMMA Commands ==
  ASSUME ConsumerIInv, NEW e \in Event, NEW r \in Replies, Reply(r),
         NEW st \in Stages \ {"waiting"}, task[e] \notin {"none", "waiting"}, To(e, st),
         UNCHANGED <<log, group, origin, last, stale, active, phase, batch,
                     interrupted, begun, dropped, discarded, handovers, boots>>,
         \/ XAck(e, r) /\ dlq' = dlq /\ (handovers[e] > 0 \/ e \in discarded \cup dlq)
         \/ dlq' \in {dlq, dlq \cup {e}} /\ UNCHANGED <<owner, acked>>,
         Staged(e)'
  PROVE  Orderly
<1>0. Located(e) /\ Staged(e) /\ Counted(e) /\ ConsumerTypeOK /\ Global
  BY DEF ConsumerIInv
<1>1. Delivered' = Delivered /\ Old' = Old
  BY DEF Delivered, Old
<1>2. faults' \in 0..MaxFaults /\ faults' >= faults
  BY <1>0, ReplyFaults
<1>3. e \in Delivered
  BY <1>0 DEF Located
<1>4. /\ task' \in [Event -> Stages] /\ task'[e] = st
      /\ \A x \in Event \ {e} : task'[x] = task[x]
  BY <1>0 DEF ConsumerTypeOK, To
<1>5. /\ owner' \in [Event -> 0..NumConsumers] /\ acked' \subseteq Event /\ dlq' \subseteq Event
      /\ \A x \in Event \ {e} : owner'[x] = owner[x] /\ (x \in acked' <=> x \in acked)
                                /\ (x \in dlq' <=> x \in dlq)
      /\ \/ owner'[e] = owner[e] /\ (e \in acked' <=> e \in acked)
         \/ owner'[e] = 0 /\ e \in acked' /\ (handovers[e] > 0 \/ e \in discarded \cup dlq)
      /\ dlq \subseteq dlq'
  <2>1. 0 \in 0..NumConsumers
    BY ConsumerAssumption
  <2> QED
    BY <1>0, <2>1 DEF ConsumerTypeOK, XAck
<1>6. ConsumerTypeOK'
  BY <1>0, <1>2, <1>4, <1>5 DEF ConsumerTypeOK
<1>7. e \notin batch /\ active \in Nat /\ owner[e] \in Nat /\ (phase # "down" => active > 0)
  BY <1>0 DEF Located, Global, ConsumerTypeOK
<1>8. Handable(e)' => Handable(e)
  BY <1>1, <1>3, <1>4, <1>5, <1>7 DEF Handable
<1>9. Located(e)'
  BY <1>0, <1>1, <1>3, <1>4, <1>5, <1>7 DEF Located
<1>10. Counted(e)'
  BY <1>0, <1>1, <1>3, <1>5, <1>8 DEF Counted
<1>11. ConsumerIInv' /\ \A x \in Event : x # e => (Handable(x)' => Handable(x))
  BY <1>2, <1>4, <1>5, <1>6, <1>9, <1>10, OneTask
<1> QED
  BY <1>8, <1>11 DEF Orderly, HandedOnce

LEMMA TaskKeeps ==
  ASSUME ConsumerIInv, NEW e \in Event, ConsumerTask(e)
  PROVE  Orderly
<1>0. Located(e) /\ Staged(e) /\ ConsumerTypeOK
  BY DEF ConsumerIInv
<1>s. {"none", "ack", "dlqAdd", "dlqAck", "dlqDel"} \subseteq Stages \ {"waiting"}
      /\ task \in [Event -> Stages]
  BY <1>0 DEF Stages, ConsumerTypeOK
<1>1. CASE BeginTask(e)
  BY <1>1, DispatchKeeps DEF BeginTask, Orderly
<1>2. ASSUME NEW r \in Replies, Reply(r), XAck(e, r), NEW st \in {"none", "dlqAdd"},
             task[e] = "ack", To(e, st), st = "dlqAdd" => r # "ok",
             UNCHANGED <<log, group, origin, last, dlq, stale, active, phase, batch,
                         interrupted, begun, dropped, discarded, handovers, boots>>
      PROVE  Orderly
  <2>1. task'[e] = st
    BY <1>2, <1>s DEF To
  <2>2. Staged(e)'
    <3>1. (faults' = 0 => faults = 0) /\ (st = "dlqAdd" => faults' # 0)
      BY <1>0, <1>2, ReplyFaults DEF ConsumerTypeOK
    <3> QED
      BY <1>0, <1>2, <2>1, <3>1 DEF Staged
  <2>3. handovers[e] > 0 \/ e \in discarded
    BY <1>0, <1>2 DEF Staged
  <2> QED
    BY <1>2, <1>s, <2>2, <2>3, Commands
<1>3. CASE Acknowledge(e)
  <2>1. PICK r \in Replies :
          Reply(r) /\ XAck(e, r) /\ To(e, IF r = "ok" THEN "none" ELSE "dlqAdd")
    BY <1>3 DEF Acknowledge
  <2> DEFINE st == IF r = "ok" THEN "none" ELSE "dlqAdd"
  <2>2. st \in {"none", "dlqAdd"} /\ To(e, st) /\ (st = "dlqAdd" => r # "ok")
    BY <2>1
  <2> HIDE DEF st
  <2> QED
    BY <1>2, <1>3, <2>1, <2>2 DEF Acknowledge
<1>4. ASSUME NEW r \in Replies, Reply(r), NEW st \in {"none", "dlqAck"},
             task[e] = "dlqAdd", To(e, st), st = "dlqAck" => r = "ok",
             dlq' = IF r = "refused" THEN dlq ELSE dlq \cup {e},
             UNCHANGED <<log, group, origin, last, owner, stale, active, phase, batch,
                         interrupted, begun, ghosts, boots>>
      PROVE  Orderly
  <2>1. task'[e] = st /\ dlq' \in {dlq, dlq \cup {e}} /\ (st = "dlqAck" => e \in dlq')
    BY <1>4, <1>s DEF To
  <2>2. faults' = 0 => faults = 0
    BY <1>0, <1>4, ReplyFaults DEF ConsumerTypeOK
  <2>3. Staged(e)'
    BY <1>0, <1>4, <2>1, <2>2 DEF Staged, ghosts
  <2> QED
    BY <1>4, <1>s, <2>1, <2>3, Commands DEF ghosts
<1>5. CASE DeadLetterAdd(e)
  <2>1. PICK r \in Replies :
          /\ Reply(r) /\ dlq' = (IF r = "refused" THEN dlq ELSE dlq \cup {e})
          /\ To(e, IF r = "ok" THEN "dlqAck" ELSE "none")
    BY <1>5 DEF DeadLetterAdd
  <2> DEFINE st == IF r = "ok" THEN "dlqAck" ELSE "none"
  <2>2. st \in {"none", "dlqAck"} /\ To(e, st) /\ (st = "dlqAck" => r = "ok")
    BY <2>1
  <2> HIDE DEF st
  <2> QED
    BY <1>4, <1>5, <2>1, <2>2 DEF DeadLetterAdd
<1>6. ASSUME NEW r \in Replies, Reply(r), XAck(e, r), NEW st \in {"none", "dlqDel"},
             task[e] = "dlqAck", To(e, st),
             UNCHANGED <<log, group, origin, last, dlq, stale, active, phase, batch,
                         interrupted, begun, dropped, discarded, handovers, boots>>
      PROVE  Orderly
  <2>1. task'[e] = st /\ e \in dlq
    BY <1>0, <1>6, <1>s DEF To, Staged
  <2>2. faults' = 0 => faults = 0
    BY <1>0, <1>6, ReplyFaults DEF ConsumerTypeOK
  <2>3. Staged(e)'
    BY <1>0, <1>6, <2>1, <2>2 DEF Staged
  <2> QED
    BY <1>6, <1>s, <2>1, <2>3, Commands
<1>7. CASE DeadLetterAck(e)
  <2>1. PICK r \in Replies :
          Reply(r) /\ XAck(e, r) /\ To(e, IF r = "ok" THEN "dlqDel" ELSE "none")
    BY <1>7 DEF DeadLetterAck
  <2> DEFINE st == IF r = "ok" THEN "dlqDel" ELSE "none"
  <2>2. st \in {"none", "dlqDel"} /\ To(e, st)
    BY <2>1
  <2> HIDE DEF st
  <2> QED
    BY <1>6, <1>7, <2>1, <2>2 DEF DeadLetterAck
<1>8. CASE DeadLetterDelete(e)
  <2>1. PICK r \in Replies : Reply(r)
    BY <1>8 DEF DeadLetterDelete
  <2>2. task'[e] = "none" /\ dlq' \in {dlq, dlq \cup {e}}
    BY <1>8, <1>s DEF DeadLetterDelete, To, redis
  <2>3. faults' = 0 => faults = 0
    BY <1>0, <2>1, ReplyFaults DEF ConsumerTypeOK
  <2>4. Staged(e)'
    BY <1>0, <1>8, <2>2, <2>3 DEF Staged, ghosts, redis, DeadLetterDelete
  <2> QED
    BY <1>8, <1>s, <2>1, <2>2, <2>4, Commands DEF ghosts, redis, DeadLetterDelete
<1> QED
  BY <1>1, <1>3, <1>5, <1>7, <1>8 DEF ConsumerTask

-----------------------------------------------------------------------------
(***************************************************************************)
(* TradingPipeline: steps that concern more than one event                 *)
(***************************************************************************)
\* The stream and its group: what a new group does not deliver is behind it.
GroupGrows ==
  /\ log' \in Seq(Event) /\ \A i, j \in DOMAIN log' : log'[i] = log'[j] => i = j
  /\ group' \in BOOLEAN
  /\ origin' \in 0..Len(log') /\ last' \in origin'..Len(log')
  /\ Delivered \subseteq Delivered' /\ Old \subseteq Old'
  /\ Delivered' \subseteq Delivered \cup Old'

LEMMA SameGroup ==
  ASSUME ConsumerIInv, UNCHANGED <<log, group, origin, last>>
  PROVE  GroupGrows
BY DEF ConsumerIInv, ConsumerTypeOK, Global, GroupGrows, Delivered, Old

\* Steps that leave the PEL and the tasks alone but for what is forgotten.
LEMMA QuietKeeps ==
  ASSUME ConsumerIInv, ConsumerTypeOK', faults' >= faults, GroupGrows,
         UNCHANGED <<owner, dlq, discarded, acked, handovers, boots>>,
         task' = task \/ TasksLost,
         phase' = "down" <=> active' = 0,
         phase' # "down" => phase # "down",
         \A x \in batch' : owner[x] = active' /\ task'[x] = "none" /\ phase' = "drain",
         \A x \in Event :
           /\ task'[x] = "waiting" => active' = active /\ phase' \in {"loop", "pause"}
           /\ task'[x] # "none" => phase' \in {"drain", "loop", "pause"},
         \A x \in Event : Handable(x)' => Handable(x)
  PROVE  Orderly
<1>0. ConsumerTypeOK /\ Global /\ faults \in Nat
  BY DEF ConsumerIInv, ConsumerTypeOK
<1>1. Delivered \subseteq Delivered' /\ Old \subseteq Old' /\ Delivered' \subseteq Delivered \cup Old'
  BY DEF GroupGrows
<1>2. faults' \in Nat /\ (faults' = 0 => faults = 0)
  BY <1>0 DEF ConsumerTypeOK
<1>3. ASSUME NEW x \in Event PROVE Located(x)' /\ Staged(x)' /\ Counted(x)'
  <2>0. Located(x) /\ Staged(x) /\ Counted(x)
    BY DEF ConsumerIInv
  <2>1. task'[x] \in {"none", task[x]}
    BY DEF TasksLost
  <2>2. Located(x)'
    BY <1>1, <2>0, <2>1 DEF Located
  <2>3. Staged(x)'
    BY <1>2, <2>0, <2>1 DEF Staged
  <2>4. Counted(x)'
    BY <1>1, <2>0 DEF Counted
  <2> QED
    BY <2>2, <2>3, <2>4
<1>4. Global'
  BY <1>0 DEF Global, GroupGrows
<1> QED
  BY <1>3, <1>4 DEF Orderly, ConsumerIInv, HandedOnce

\* Crash, and the end of start() by an error.
LEMMA DownKeeps ==
  ASSUME ConsumerIInv, phase # "down", GoesDown, TasksLost,
         faults' \in 0..MaxFaults, faults' >= faults, GroupGrows,
         UNCHANGED <<owner, dlq, stale, interrupted, begun, ghosts, boots>>
  PROVE  Orderly
<1>1. ConsumerTypeOK'
  <2>1. active' \in 0..NumConsumers
    BY ConsumerAssumption DEF GoesDown
  <2>2. task' \in [Event -> Stages]
    BY DEF TasksLost, Stages
  <2>3. batch' \subseteq Event
    BY DEF TasksLost
  <2> QED
    BY <2>1, <2>2, <2>3 DEF ConsumerIInv, ConsumerTypeOK, GoesDown, GroupGrows, ghosts
<1>2. \A x \in Event : ~Handable(x)'
  BY DEF Handable, GoesDown
<1>3. \A x \in Event : task'[x] = "none"
  BY DEF TasksLost
<1> QED
  BY <1>1, <1>2, <1>3, QuietKeeps DEF GoesDown, TasksLost, ghosts

LEMMA CrashKeeps == ConsumerIInv /\ Crash => Orderly
<1> SUFFICES ASSUME ConsumerIInv, Crash PROVE Orderly
  OBVIOUS
<1>1. faults' \in 0..MaxFaults /\ faults' >= faults
  BY DEF Crash, ConsumerIInv, ConsumerTypeOK
<1> QED
  BY <1>1, SameGroup, DownKeeps DEF Crash, redis

LEMMA InterruptKeeps == ConsumerIInv /\ Interrupt => Orderly
<1> SUFFICES ASSUME ConsumerIInv, Interrupt PROVE Orderly
  OBVIOUS
<1>1. faults' \in 0..MaxFaults /\ faults' >= faults
  BY DEF Interrupt, ConsumerIInv, ConsumerTypeOK
<1>2. CASE GoesDown /\ UNCHANGED interrupted
  BY <1>1, <1>2, SameGroup, DownKeeps DEF Interrupt, redis
<1>3. CASE phase = "loop" /\ active < NumConsumers
           /\ active' = active + 1 /\ phase' = "create" /\ interrupted' = TRUE
  <2>0. active \in Nat /\ NumConsumers \in Nat /\ active' \in 0..NumConsumers /\ active' # 0
    BY <1>3, ConsumerAssumption DEF ConsumerIInv, ConsumerTypeOK
  <2>1. ConsumerTypeOK'
    <3>1. task' \in [Event -> Stages]
      BY DEF Interrupt, TasksLost, Stages
    <3>2. batch' \subseteq Event
      BY DEF Interrupt, TasksLost
    <3> QED
      BY <1>3, <2>0, <3>1, <3>2 DEF ConsumerIInv, ConsumerTypeOK, Interrupt, redis, ghosts
  <2>2. (\A x \in Event : task'[x] = "none" /\ x \notin batch') /\ batch' = {}
    BY DEF Interrupt, TasksLost
  <2>3. Delivered' = Delivered
    BY DEF Delivered, Interrupt, redis
  <2>4. ASSUME NEW x \in Event, Handable(x)' PROVE Handable(x)
    <3>1. owner'[x] = owner[x] /\ owner[x] \in Nat
      BY DEF Interrupt, redis, ConsumerIInv, ConsumerTypeOK
    <3>2. x \notin Delivered \/ owner[x] >= active'
      BY <1>3, <2>0, <2>2, <2>3, <2>4, <3>1 DEF Handable
    <3> QED
      BY <1>3, <2>0, <3>1, <3>2 DEF Handable
  <2> QED
    BY <1>1, <1>3, <2>0, <2>1, <2>2, <2>4, SameGroup, QuietKeeps DEF Interrupt, redis, ghosts
<1> QED
  BY <1>2, <1>3 DEF Interrupt

LEMMA ReadPendingKeeps == ConsumerIInv /\ ReadPending => Orderly
<1> SUFFICES ASSUME ConsumerIInv, ReadPending PROVE Orderly
  OBVIOUS
<1>0. ConsumerTypeOK /\ Global /\ active \in 1..NumConsumers
  BY DEF ConsumerIInv, ConsumerTypeOK, Global, ReadPending
<1>1. PICK r \in {"ok", "refused"} : Reply(r)
  BY DEF ReadPending
<1>2. faults' \in 0..MaxFaults /\ faults' >= faults
  BY <1>0, <1>1, ReplyFaults DEF Replies
<1>3. \/ batch' = batch /\ phase' = "loop" /\ begun' = begun \cup {active}
      \/ batch' \subseteq PendingOf(active) /\ phase' = "drain" /\ begun' = begun
  BY DEF ReadPending
<1>4. batch = {} /\ \A x \in Event : task[x] = "none"
  BY <1>0 DEF ConsumerIInv, Located, ReadPending, ConsumerTypeOK
<1>5. batch' \subseteq Event /\ \A x \in batch' : owner[x] = active /\ phase' = "drain"
  <2>1. Published \subseteq Event
    BY <1>0 DEF Published, ConsumerTypeOK
  <2> QED
    BY <1>3, <1>4, <2>1 DEF PendingOf
<1>6. ConsumerTypeOK'
  BY <1>0, <1>2, <1>3, <1>5 DEF ConsumerTypeOK, ReadPending, redis, ghosts
<1>7. Delivered' = Delivered
  BY DEF Delivered, ReadPending, redis
<1>8. ASSUME NEW x \in Event, Handable(x)' PROVE Handable(x)
  <2>1. owner'[x] = owner[x] /\ active' = active /\ task' = task
    BY DEF ReadPending, redis
  <2>2. x \notin Delivered \/ owner[x] >= active
    BY <1>0, <1>3, <1>4, <1>5, <1>7, <1>8, <2>1 DEF Handable, ConsumerTypeOK
  <2>3. owner[x] \in Nat /\ active \in Nat
    BY <1>0 DEF ConsumerTypeOK
  <2> QED
    BY <2>2, <2>3 DEF Handable, ReadPending
<1> QED
  BY <1>0, <1>2, <1>3, <1>4, <1>5, <1>6, <1>8, SameGroup, QuietKeeps DEF ReadPending, Global, redis, ghosts

LEMMA LoopsKeep == ConsumerIInv /\ (PendingDone \/ EndPause) => Orderly
<1> SUFFICES ASSUME ConsumerIInv, PendingDone \/ EndPause PROVE Orderly
  OBVIOUS
<1>0. ConsumerTypeOK /\ Global /\ active \in 1..NumConsumers /\ batch = {} /\ phase \in {"drain", "pause"}
  <2>1. CASE PendingDone
    BY <2>1 DEF ConsumerIInv, ConsumerTypeOK, Global, PendingDone
  <2>2. CASE EndPause
    <3>1. \A x \in Event : x \notin batch
      BY <2>2 DEF ConsumerIInv, Located, EndPause
    <3> QED
      BY <2>2, <3>1 DEF ConsumerIInv, ConsumerTypeOK, Global, EndPause
  <2> QED
    BY <2>1, <2>2
<1>1. /\ phase' = "loop" /\ begun' \in {begun, begun \cup {active}}
      /\ UNCHANGED <<redis, stale, active, batch, task, interrupted, ghosts, boots, faults>>
  BY DEF PendingDone, EndPause
<1>2. ConsumerTypeOK'
  BY <1>0, <1>1 DEF ConsumerTypeOK, redis, ghosts
<1>3. Delivered' = Delivered
  BY <1>1 DEF Delivered, redis
<1>4. \A x \in Event : Handable(x)' => Handable(x)
  BY <1>0, <1>1, <1>3 DEF Handable, redis
<1>5. faults' >= faults
  BY <1>0, <1>1 DEF ConsumerTypeOK
<1> QED
  BY <1>0, <1>1, <1>2, <1>4, <1>5, SameGroup, QuietKeeps DEF Global, redis, ghosts

LEMMA CreateGroupKeeps == ConsumerIInv /\ CreateGroup => Orderly
<1> SUFFICES ASSUME ConsumerIInv, CreateGroup PROVE Orderly
  OBVIOUS
<1>0. ConsumerTypeOK /\ Global
  BY DEF ConsumerIInv
<1>1. PICK r \in Replies :
        /\ Reply(r)
        /\ IF r = "refused" \/ group THEN UNCHANGED <<group, origin, last>>
           ELSE group' = TRUE /\ origin' = Len(log) /\ last' = Len(log)
        /\ IF r = "ok" THEN phase' = "pending" /\ UNCHANGED <<active, batch, task>>
                       ELSE GoesDown /\ TasksLost
  BY DEF CreateGroup
<1>2. faults' \in 0..MaxFaults /\ faults' >= faults
  BY <1>0, <1>1, ReplyFaults
<1>3. GroupGrows
  <2>1. CASE UNCHANGED <<group, origin, last>>
    BY <2>1, SameGroup DEF CreateGroup
  <2>2. CASE group' = TRUE /\ origin' = Len(log) /\ last' = Len(log)
    <3>1. Len(log) \in Nat /\ origin \in Nat /\ last \in Nat /\ origin <= Len(log) /\ last <= Len(log)
      BY <1>0 DEF ConsumerTypeOK
    <3>2. 1..origin \subseteq 1..Len(log) /\ 1..last \subseteq 1..Len(log)
      BY <3>1
    <3>3. Delivered \subseteq Delivered' /\ Old \subseteq Old' /\ Delivered' = Old'
      BY <2>2, <3>2 DEF Delivered, Old, CreateGroup
    <3> QED
      BY <1>0, <2>2, <3>1, <3>3 DEF GroupGrows, CreateGroup, Global, ConsumerTypeOK
  <2> QED
    BY <1>1, <2>1, <2>2
<1>4. CASE r = "ok"
  <2>1. phase = "create" /\ phase' = "pending" /\ UNCHANGED <<active, batch, task, owner, dlq, ghosts, boots>>
    BY <1>1, <1>4 DEF CreateGroup
  <2>2. ConsumerTypeOK'
    BY <1>0, <1>2, <1>3, <2>1 DEF ConsumerTypeOK, CreateGroup, GroupGrows, ghosts
  <2>3. batch = {} /\ \A x \in Event : task[x] = "none"
    BY <1>0, <2>1 DEF ConsumerIInv, Located, ConsumerTypeOK
  <2>4. \A x \in Event : Handable(x)' => Handable(x)
    BY <1>3, <2>1 DEF Handable, GroupGrows
  <2> QED
    BY <1>0, <1>2, <1>3, <2>1, <2>2, <2>3, <2>4, QuietKeeps DEF Global, ghosts
<1>5. CASE r # "ok"
  BY <1>1, <1>2, <1>3, <1>5, DownKeeps DEF CreateGroup
<1> QED
  BY <1>4, <1>5

LEMMA ProduceKeeps ==
  ASSUME ConsumerIInv, NEW e \in Event, Produce(e) \/ Age(e)
  PROVE  Orderly
<1>0. ConsumerTypeOK /\ Global
  BY DEF ConsumerIInv
<1>f. faults' \in 0..MaxFaults /\ faults' >= faults
  <2>1. CASE Produce(e)
    BY <1>0, <2>1, ReplyFaults DEF Produce, Replies
  <2>2. CASE Age(e)
    BY <1>0, <2>2 DEF Age, ConsumerTypeOK
  <2> QED
    BY <2>1, <2>2
<1>1. /\ UNCHANGED <<group, origin, last, owner, dlq, discarded, acked, handovers, boots>>
      /\ UNCHANGED <<active, phase, batch, task, interrupted, begun>>
      /\ log' = log \/ (log' = Append(log, e) /\ e \notin Published)
      /\ stale' \subseteq Event /\ dropped' \subseteq Event
  BY <1>0 DEF Produce, Age, redis, process, ghosts, ConsumerTypeOK
<1>2. GroupGrows
  <2>1. CASE log' = log
    BY <1>1, <2>1, SameGroup
  <2>2. CASE log' = Append(log, e) /\ e \notin Published
    <3>0. log \in Seq(Event) /\ Len(log) \in Nat /\ origin \in 0..Len(log) /\ last \in origin..Len(log)
      BY <1>0 DEF ConsumerTypeOK
    <3>1. log' \in Seq(Event) /\ Len(log') = Len(log) + 1 /\ DOMAIN log' = 1..(Len(log) + 1)
          /\ DOMAIN log = 1..Len(log)
      BY <2>2, <3>0
    <3>2. \A i \in 1..Len(log) : log'[i] = log[i]
      BY <2>2, <3>0
    <3>3. log'[Len(log) + 1] = e
      BY <2>2, <3>0
    <3>4. \A i \in 1..Len(log) : log[i] # e
      BY <2>2, <3>1 DEF Published
    <3>5. ASSUME NEW i \in DOMAIN log', NEW j \in DOMAIN log', log'[i] = log'[j] PROVE i = j
      <4>1. i \in 1..Len(log) \/ i = Len(log) + 1
        BY <3>0, <3>1
      <4>2. j \in 1..Len(log) \/ j = Len(log) + 1
        BY <3>0, <3>1
      <4> QED
        BY <1>0, <3>1, <3>2, <3>3, <3>4, <3>5, <4>1, <4>2 DEF Global
    <3>6. 1..origin \subseteq 1..Len(log) /\ 1..last \subseteq 1..Len(log)
      BY <3>0
    <3>7. Delivered' = Delivered /\ Old' = Old
      BY <1>1, <3>2, <3>6 DEF Delivered, Old
    <3>8. origin' \in 0..Len(log') /\ last' \in origin'..Len(log') /\ group' \in BOOLEAN
      BY <1>0, <1>1, <3>0, <3>1 DEF ConsumerTypeOK
    <3> QED
      BY <3>1, <3>5, <3>7, <3>8 DEF GroupGrows
  <2> QED
    BY <1>1, <2>1, <2>2
<1>3. ConsumerTypeOK'
  BY <1>0, <1>f, <1>1, <1>2 DEF ConsumerTypeOK, GroupGrows
<1>4. \A x \in Event : Handable(x)' => Handable(x)
  BY <1>1, <1>2 DEF Handable, GroupGrows
<1>5. \A x \in Event : Located(x)
  BY DEF ConsumerIInv
<1>6. \A x \in batch : x \in Event
  BY <1>0 DEF ConsumerTypeOK
<1> QED
  BY <1>0, <1>f, <1>1, <1>2, <1>3, <1>4, <1>5, <1>6, QuietKeeps DEF Global, Located

\* The entries a read delivers are delivered for the first time.
LEMMA ReadNewKeeps == ConsumerIInv /\ ReadNew => Orderly
<1> SUFFICES ASSUME ConsumerIInv, ReadNew PROVE Orderly
  OBVIOUS
<1>0. /\ ConsumerTypeOK /\ Global
      /\ log \in Seq(Event) /\ Len(log) \in Nat /\ last \in Nat /\ origin \in Nat
      /\ last <= Len(log) /\ origin <= last /\ BatchSize \in Nat
      /\ active \in 1..NumConsumers /\ boots > 0 /\ boots \in Nat
  <2>1. ConsumerTypeOK /\ Global /\ phase = "loop"
    BY DEF ConsumerIInv, ReadNew
  <2>2. log \in Seq(Event) /\ Len(log) \in Nat
    BY <2>1 DEF ConsumerTypeOK
  <2>3. origin \in 0..Len(log) /\ last \in origin..Len(log)
    BY <2>1 DEF ConsumerTypeOK
  <2>4. active \in 0..NumConsumers /\ active # 0 /\ boots > 0 /\ boots \in 0..MaxBoots
    BY <2>1 DEF ConsumerTypeOK, Global
  <2> QED
    BY <2>1, <2>2, <2>3, <2>4, ConsumerAssumption
<1>1. PICK r \in {"ok", "lost"} :
        /\ Reply(r)
        /\ \E upto \in {last + BatchSize, Len(log)} :
             /\ upto <= last + BatchSize /\ upto <= Len(log)
             /\ last' = upto
             /\ LET read == {log[i] : i \in (last + 1)..upto} IN
                /\ owner' = [e \in Event |-> IF e \in read THEN active ELSE owner[e]]
                /\ task' = [e \in Event |->
                              IF e \in read /\ r = "ok" THEN "waiting" ELSE task[e]]
        /\ phase' = IF r = "ok" THEN "loop" ELSE "pause"
  BY DEF ReadNew
<1>2. faults' \in 0..MaxFaults /\ faults' >= faults /\ faults' \in Nat /\ faults \in Nat
  <2>1. r \in Replies
    BY DEF Replies
  <2>2. faults' \in 0..MaxFaults /\ faults' >= faults
    BY <1>0, <1>1, <2>1, ReplyFaults
  <2>3. faults \in 0..MaxFaults
    BY <1>0 DEF ConsumerTypeOK
  <2> QED
    BY <2>2, <2>3
<1>3. PICK upto \in {last + BatchSize, Len(log)} :
        /\ upto <= last + BatchSize /\ upto <= Len(log)
        /\ last' = upto
        /\ owner' = [e \in Event |-> IF e \in {log[i] : i \in (last + 1)..upto}
                                    THEN active ELSE owner[e]]
        /\ task' = [e \in Event |-> IF e \in {log[i] : i \in (last + 1)..upto} /\ r = "ok"
                                   THEN "waiting" ELSE task[e]]
  BY <1>1
<1> DEFINE read == {log[i] : i \in (last + 1)..upto}
<1>4. upto \in Nat /\ last <= upto /\ upto <= Len(log)
  BY <1>0, <1>3
<1>5. Delivered' = Delivered \cup read /\ Old' = Old
  <2>1. 1..upto = (1..last) \cup ((last + 1)..upto)
    BY <1>0, <1>4
  <2> QED
    BY <1>3, <2>1 DEF Delivered, Old, ReadNew
<1>6. \A x \in read : x \in Event /\ x \notin Delivered
  <2> SUFFICES ASSUME NEW i \in (last + 1)..upto
               PROVE  log[i] \in Event /\ log[i] \notin Delivered
    OBVIOUS
  <2>1. i \in 1..Len(log) /\ i > last /\ DOMAIN log = 1..Len(log)
    BY <1>0, <1>4
  <2>n. last \in Nat /\ Len(log) \in Nat /\ last <= Len(log)
    BY <1>0
  <2>2. ASSUME NEW j \in 1..last PROVE log[j] # log[i]
    <3>1. i \in Int /\ i > last
      BY <1>4, <2>n
    <3>2. j \in Int /\ 1 <= j /\ j <= last
      BY <2>n
    <3>3. j # i
      BY <2>n, <3>1, <3>2
    <3>4. j \in 1..Len(log)
      BY <2>n, <3>2
    <3> QED
      BY <1>0, <2>1, <3>3, <3>4 DEF Global
  <2>3. log[i] \in Event
    <3>1. log \in Seq(Event) /\ i \in 1..Len(log)
      BY <1>0, <2>1
    <3> QED
      BY <3>1
  <2> QED
    BY <2>2, <2>3 DEF Delivered
<1>7. \A x \in Event :
        /\ owner'[x] = IF x \in read THEN active ELSE owner[x]
        /\ task'[x] = IF x \in read /\ r = "ok" THEN "waiting" ELSE task[x]
  BY <1>3
<1>8. phase = "loop" /\ phase' = (IF r = "ok" THEN "loop" ELSE "pause") /\ active' = active
      /\ UNCHANGED <<log, group, origin, dlq, stale, batch, interrupted, begun, ghosts, boots>>
  BY <1>1 DEF ReadNew
<1>9. ConsumerTypeOK'
  <2>1. owner' \in [Event -> 0..NumConsumers]
    <3>1. owner \in [Event -> 0..NumConsumers] /\ active \in 0..NumConsumers
      BY <1>0 DEF ConsumerTypeOK
    <3> HIDE DEF read
    <3> QED
      BY <1>3, <3>1
  <2>2. task' \in [Event -> Stages]
    <3>1. task \in [Event -> Stages] /\ "waiting" \in Stages
      BY <1>0 DEF ConsumerTypeOK, Stages
    <3> HIDE DEF read
    <3> QED
      BY <1>3, <3>1
  <2>3. origin' \in 0..Len(log') /\ last' \in origin'..Len(log')
    BY <1>0, <1>3, <1>4, <1>8
  <2> HIDE DEF read
  <2> QED
    BY <1>0, <1>2, <1>8, <2>1, <2>2, <2>3 DEF ConsumerTypeOK, ghosts
<1> HIDE DEF read
<1>10. ASSUME NEW x \in Event
       PROVE  /\ Handable(x)' => Handable(x)
              /\ Located(x)' /\ Staged(x)' /\ Counted(x)'
  <2>0. Located(x) /\ Staged(x) /\ Counted(x) /\ owner[x] \in Nat /\ active \in Nat
    BY <1>0 DEF ConsumerIInv, ConsumerTypeOK
  <2>1. x \notin batch
    BY <1>8, <2>0 DEF Located
  <2>2. CASE x \in read
    <3>1. /\ x \notin Delivered /\ x \in Delivered' /\ owner'[x] = active /\ task'[x] \in {"none", "waiting"}
          /\ handovers[x] = 0 /\ x \notin acked /\ task[x] = "none"
      BY <1>5, <1>6, <1>7, <2>0, <2>2 DEF Located
    <3>2. Handable(x)
      BY <1>8, <3>1 DEF Handable
    <3>3. Located(x)'
      BY <1>8, <2>1, <3>1 DEF Located, ghosts
    <3>4. Staged(x)'
      BY <1>2, <1>8, <2>0, <3>1 DEF Staged, ghosts
    <3>5. Counted(x)'
      BY <1>0, <1>8, <3>1 DEF Counted, ghosts
    <3> QED
      BY <3>2, <3>3, <3>4, <3>5
  <2>3. CASE x \notin read
    <3>1. /\ x \in Delivered' <=> x \in Delivered
          /\ owner'[x] = owner[x] /\ task'[x] = task[x]
      BY <1>5, <1>7, <2>3
    <3>2. Handable(x)' => Handable(x)
      BY <1>8, <3>1 DEF Handable
    <3>3. Located(x)'
      BY <1>8, <2>0, <2>1, <3>1 DEF Located, ghosts
    <3>4. Staged(x)'
      BY <1>2, <1>8, <2>0, <3>1 DEF Staged, ghosts
    <3>5. Counted(x)'
      BY <1>5, <1>8, <2>0, <3>1, <3>2 DEF Counted, ghosts
    <3> QED
      BY <3>2, <3>3, <3>4, <3>5
  <2> QED
    BY <2>2, <2>3
<1>11. Global'
  BY <1>0, <1>8 DEF Global
<1> QED
  BY <1>8, <1>9, <1>10, <1>11 DEF Orderly, ConsumerIInv, HandedOnce, ghosts

LEMMA ConsumerStepKeeps == ConsumerIInv /\ ConsumerStep => Orderly
<1> SUFFICES ASSUME ConsumerIInv, ConsumerStep PROVE Orderly
  OBVIOUS
<1>1. CASE NextPending
  <2>1. PICK e \in batch : Dispatch(e) /\ batch' = batch \ {e}
    BY <1>1 DEF NextPending
  <2>2. e \in Event
    BY DEF ConsumerIInv, ConsumerTypeOK
  <2> QED
    BY <1>1, <2>1, <2>2, DispatchKeeps DEF NextPending, Orderly
<1> QED
  BY <1>1, CreateGroupKeeps, ReadPendingKeeps, LoopsKeep, ReadNewKeeps, TaskKeeps DEF ConsumerStep

\* A new life: whatever is not acknowledged may be handed over once more.
LEMMA BootKeeps ==
  ASSUME ConsumerIInv, Boot
  PROVE  ConsumerIInv' /\ handovers' = handovers /\ phase' # "down"
<1>0. ConsumerTypeOK /\ Global /\ boots \in Nat /\ phase = "down"
  BY DEF ConsumerIInv, ConsumerTypeOK, Boot
<1>1. ConsumerTypeOK'
  <2>1. boots' \in 0..MaxBoots /\ active' \in 0..NumConsumers
    BY <1>0, ConsumerAssumption DEF Boot
  <2> QED
    BY <1>0, <2>1 DEF ConsumerTypeOK, Boot, redis, ghosts
<1>2. Global'
  BY <1>0 DEF Global, Boot, redis
<1>3. Delivered' = Delivered /\ Old' = Old
  BY DEF Delivered, Old, Boot, redis
<1>4. ASSUME NEW x \in Event PROVE Located(x)' /\ Staged(x)' /\ Counted(x)'
  <2>0. Located(x) /\ Staged(x) /\ Counted(x) /\ handovers[x] \in Nat
    BY <1>0 DEF ConsumerIInv, ConsumerTypeOK
  <2>1. Located(x)' /\ Staged(x)'
    BY <1>0, <1>3, <2>0 DEF Located, Staged, Boot, redis, ghosts
  <2>2. Counted(x)'
    BY <1>0, <1>3, <2>0 DEF Counted, Boot, redis, ghosts
  <2> QED
    BY <2>1, <2>2
<1> QED
  BY <1>1, <1>2, <1>4 DEF ConsumerIInv, Boot, ghosts

-----------------------------------------------------------------------------
(***************************************************************************)
(* TradingPipeline: the swaps                                              *)
(***************************************************************************)
LEMMA TradingInitial == TradingInit => TradingIInv
<1> SUFFICES ASSUME TradingInit PROVE TradingIInv
  OBVIOUS
<1>1. ConsumerIInv /\ phase = "down" /\ handovers = [e \in Event |-> 0]
  BY ConsumerInitial DEF TradingInit, ConsumerInit
<1>2. TradingTypeOK /\ HashMeansRecorded
  BY DEF TradingInit, TradingTypeOK, SwapStages, HashMeansRecorded
<1>3. \A e \in Event : Swapped(e)
  BY <1>1 DEF TradingInit, Swapped
<1> QED
  BY <1>1, <1>2, <1>3 DEF TradingIInv

\* Steps of the consumer: who is handed over had no swap and nothing submitted.
LEMMA HandOverKeeps ==
  ASSUME TradingIInv, Orderly, HandOver, phase' # "down"
  PROVE  TradingIInv'
<1>1. TradingTypeOK'
  BY DEF TradingIInv, TradingTypeOK, HandOver, SwapStages
<1>2. HashMeansRecorded'
  BY DEF TradingIInv, HashMeansRecorded, HandOver
<1>3. ASSUME NEW x \in Event PROVE Swapped(x)'
  <2>0. Swapped(x) /\ (Handable(x)' => Handable(x)) /\ HandedOnce(x)
    BY DEF TradingIInv, Orderly
  <2>1. handovers[x] \in Nat /\ rows[x] \in Nat /\ sent[x] \in Nat
    BY DEF TradingIInv, ConsumerIInv, ConsumerTypeOK, TradingTypeOK
  <2>2. rows'[x] = rows[x] /\ sent'[x] = sent[x] /\ everSent' = everSent
        /\ swap'[x] = IF handovers'[x] > handovers[x] THEN "waiting" ELSE swap[x]
    BY DEF HandOver
  <2>3. CASE handovers'[x] = handovers[x]
    BY <2>0, <2>1, <2>2, <2>3 DEF Swapped
  <2>4. CASE Handable(x) /\ ~Handable(x)' /\ handovers'[x] = handovers[x] + 1
    BY <2>0, <2>1, <2>2, <2>4 DEF Swapped
  <2> QED
    BY <2>0, <2>3, <2>4 DEF HandedOnce
<1> QED
  BY <1>1, <1>2, <1>3 DEF TradingIInv, Orderly

LEMMA SwapsLostKeeps ==
  ASSUME TradingIInv, Orderly, SwapsLost
  PROVE  TradingIInv'
<1>1. TradingTypeOK'
  BY DEF TradingIInv, TradingTypeOK, SwapsLost, SwapStages
<1>2. HashMeansRecorded'
  BY DEF TradingIInv, HashMeansRecorded, SwapsLost
<1>3. ASSUME NEW x \in Event PROVE Swapped(x)'
  <2>0. Swapped(x) /\ (Handable(x)' => Handable(x)) /\ HandedOnce(x)
    BY DEF TradingIInv, Orderly
  <2>1. handovers[x] \in Nat /\ rows[x] \in Nat /\ sent[x] \in Nat
    BY DEF TradingIInv, ConsumerIInv, ConsumerTypeOK, TradingTypeOK
  <2>2. rows'[x] = rows[x] /\ swap'[x] = "none"
        /\ sent'[x] = IF phase' = "down" THEN 0 ELSE sent[x]
    BY DEF SwapsLost
  <2>3. rows[x] <= handovers'[x]
    BY <2>0, <2>1 DEF Swapped, HandedOnce
  <2> QED
    BY <2>0, <2>1, <2>2, <2>3 DEF Swapped
<1> QED
  BY <1>1, <1>2, <1>3 DEF TradingIInv, Orderly

LEMMA OutsideKeeps ==
  ASSUME TradingIInv, NEW e \in Event, Produce(e) \/ Age(e), UNCHANGED swapVars
  PROVE  TradingIInv'
<1>1. Orderly
  BY ProduceKeeps DEF TradingIInv
<1>2. phase' = phase /\ handovers' = handovers
  BY DEF Produce, Age, process, ghosts
<1>3. TradingTypeOK' /\ HashMeansRecorded'
  BY DEF TradingIInv, TradingTypeOK, HashMeansRecorded, swapVars
<1>4. ASSUME NEW x \in Event PROVE Swapped(x)'
  BY <1>1, <1>2 DEF TradingIInv, Swapped, swapVars, Orderly
<1> QED
  BY <1>1, <1>3, <1>4 DEF TradingIInv, Orderly

LEMMA NewLifeKeeps ==
  ASSUME TradingIInv, Boot, UNCHANGED swapVars
  PROVE  TradingIInv'
<1>1. ConsumerIInv' /\ handovers' = handovers /\ phase = "down"
  BY BootKeeps DEF TradingIInv, Boot
<1>2. TradingTypeOK' /\ HashMeansRecorded'
  BY DEF TradingIInv, TradingTypeOK, HashMeansRecorded, swapVars
<1>3. ASSUME NEW x \in Event PROVE Swapped(x)'
  BY <1>1 DEF TradingIInv, Swapped, swapVars
<1> QED
  BY <1>1, <1>2, <1>3 DEF TradingIInv

\* A step of the swap of one event: the consumer and the other swaps stay.
LEMMA OneSwap ==
  ASSUME TradingIInv, NEW e \in Event, swap[e] # "none",
         UNCHANGED <<redis, stale, process, ghosts, boots>>,
         faults' \in 0..MaxFaults, faults' >= faults,
         NEW st \in SwapStages, NEW n \in Nat, Goes(e, st, n),
         st = "exec" => n \in 1..ExecTries,
         st \in {"settle", "record", "produce"} => n \in 1..RecordTries,
         sent' \in [Event -> Nat], rows' \in [Event -> Nat],
         everSent' \subseteq Event, everSent \subseteq everSent', muted' \subseteq Event,
         results' \subseteq [event : Event, hash : BOOLEAN],
         \A x \in Event : rows'[x] >= rows[x],
         \A x \in Event \ {e} : sent'[x] = sent[x] /\ rows'[x] = rows[x],
         HashMeansRecorded',
         st \in {"waiting", "exec"} => sent'[e] = 0, sent'[e] <= 1,
         st \in {"settle", "record", "produce"} => e \in everSent',
         rows'[e] <= handovers[e],
         st \in {"waiting", "exec", "settle", "record"} => rows'[e] < handovers[e],
         st = "produce" => rows'[e] > 0
  PROVE  TradingIInv'
<1>1. Orderly
  <2>1. ConsumerTypeOK'
    BY DEF TradingIInv, ConsumerIInv, ConsumerTypeOK, redis, process, ghosts
  <2>2. \A x \in Event : Handable(x)' => Handable(x)
    BY DEF Handable, Delivered, redis, process
  <2>3. GroupGrows
    BY SameGroup DEF TradingIInv, redis
  <2>4. batch \subseteq Event /\ Global /\ \A x \in Event : Located(x)
    BY DEF TradingIInv, ConsumerIInv, ConsumerTypeOK
  <2> QED
    BY <2>1, <2>2, <2>3, <2>4, QuietKeeps
       DEF TradingIInv, redis, process, ghosts, Global, Located
<1>2. phase' = phase /\ handovers' = handovers /\ \A x \in Event : Handable(x)' <=> Handable(x)
  BY DEF Handable, Delivered, redis, process, ghosts
<1>3. /\ swap' \in [Event -> SwapStages] /\ tries' \in [Event -> Nat]
      /\ swap'[e] = st /\ tries'[e] = n
      /\ \A x \in Event \ {e} : swap'[x] = swap[x] /\ tries'[x] = tries[x]
  BY DEF TradingIInv, TradingTypeOK, Goes
<1>4. TradingTypeOK'
  BY <1>3 DEF TradingIInv, TradingTypeOK
<1>5. ASSUME NEW x \in Event PROVE Swapped(x)'
  <2>0. Swapped(x)
    BY DEF TradingIInv
  <2>1. CASE x = e
    <3>1. phase # "down" /\ ~Handable(e)
      BY <2>0, <2>1 DEF Swapped
    <3> QED
      BY <1>2, <1>3, <2>1, <3>1 DEF Swapped
  <2>2. CASE x # e
    BY <1>2, <1>3, <2>0, <2>2 DEF Swapped
  <2> QED
    BY <2>1, <2>2
<1> QED
  BY <1>1, <1>4, <1>5 DEF TradingIInv, Orderly

\* A failing step goes to the failed result; a retry only counts.
LEMMA RetryGoes ==
  ASSUME TradingTypeOK, NEW e \in Event, NEW limit \in Nat, RetryOrFail(e, limit)
  PROVE  \/ Goes(e, "fail", 0)
         \/ Goes(e, swap[e], tries[e] + 1) /\ tries[e] + 1 <= limit
<1>1. tries[e] \in Nat
  BY DEF TradingTypeOK
<1> QED
  BY <1>1 DEF RetryOrFail

LEMMA SwapTaskKeeps ==
  ASSUME TradingIInv, NEW e \in Event, SwapTask(e)
  PROVE  TradingIInv'
<1>0. /\ TradingTypeOK /\ HashMeansRecorded /\ Swapped(e) /\ ConsumerTypeOK
      /\ tries[e] \in Nat /\ sent[e] \in Nat /\ rows[e] \in Nat /\ handovers[e] \in Nat
      /\ ExecTries \in Nat \ {0} /\ RecordTries \in Nat \ {0}
      /\ faults \in 0..MaxFaults /\ faults >= faults
  <2>1. TradingTypeOK /\ HashMeansRecorded /\ Swapped(e) /\ ConsumerTypeOK
    BY DEF TradingIInv, ConsumerIInv
  <2>2. tries[e] \in Nat /\ sent[e] \in Nat /\ rows[e] \in Nat
    BY <2>1 DEF TradingTypeOK
  <2>3. handovers[e] \in Nat
    BY <2>1 DEF ConsumerTypeOK
  <2>4. faults \in 0..MaxFaults
    BY <2>1 DEF ConsumerTypeOK
  <2>5. faults >= faults
    BY <2>4
  <2> QED
    BY <2>1, <2>2, <2>3, <2>4, <2>5, TradingAssumption
<1>s. {"none", "waiting", "exec", "settle", "record", "produce", "fail"} \subseteq SwapStages
  BY DEF SwapStages
<1>t. /\ sent \in [Event -> Nat] /\ rows \in [Event -> Nat] /\ everSent \subseteq Event
      /\ muted \subseteq Event /\ results \subseteq [event : Event, hash : BOOLEAN]
      /\ \A x \in Event : rows[x] >= rows[x]
  BY <1>0 DEF TradingTypeOK
\* steps that submit, record and publish nothing
<1>q. ASSUME swap[e] # "none", NEW st \in SwapStages, NEW n \in Nat, Goes(e, st, n),
             UNCHANGED <<consumerVars, sent, everSent, rows, results, muted>>,
             st = "exec" => n \in 1..ExecTries /\ sent[e] = 0,
             st \in {"settle", "record"} => n \in 1..RecordTries /\ e \in everSent,
             st \in {"exec", "settle", "record"} => rows[e] < handovers[e],
             st \notin {"waiting", "produce"}
      PROVE  TradingIInv'
  <2>1. HashMeansRecorded'
    BY <1>0, <1>q DEF HashMeansRecorded
  <2>2. rows[e] <= handovers[e] /\ sent[e] <= 1
    BY <1>0 DEF Swapped
  <2> QED
    BY <1>0, <1>t, <1>q, <2>1, <2>2, OneSwap DEF consumerVars
<1>1. CASE BeginSwap(e)
  <2>1. sent[e] = 0 /\ rows[e] < handovers[e]
    BY <1>0, <1>1 DEF BeginSwap, Swapped
  <2>2. 1 \in 1..ExecTries
    BY <1>0
  <2> QED
    BY <1>1, <1>s, <1>q, <2>1, <2>2 DEF BeginSwap
<1>2. CASE Execute(e)
  <2>0. sent[e] = 0 /\ rows[e] < handovers[e] /\ swap[e] = "exec"
    BY <1>0, <1>2 DEF Execute, Swapped
  <2>1. ASSUME Submits(e), NEW st \in {"settle", "fail"}, NEW n \in Nat, Goes(e, st, n),
               st = "settle" => n = 1
        PROVE  TradingIInv'
    <3>1. /\ sent' \in [Event -> Nat] /\ sent'[e] = 1
          /\ \A x \in Event \ {e} : sent'[x] = sent[x]
          /\ everSent' = everSent \cup {e}
      BY <1>0, <1>t, <2>0, <2>1 DEF Submits
    <3>2. HashMeansRecorded'
      BY <1>0, <1>2, <3>1 DEF HashMeansRecorded, Execute
    <3>3. 1 \in 1..RecordTries /\ st \in SwapStages
      BY <1>0, <1>s
    <3> QED
      BY <1>0, <1>2, <1>t, <2>0, <2>1, <3>1, <3>2, <3>3, OneSwap DEF Execute, consumerVars
  <2>2. CASE RetryOrFail(e, ExecTries) /\ UNCHANGED <<sent, everSent>>
    <3>1. CASE Goes(e, "fail", 0)
      BY <1>2, <1>s, <1>q, <2>0, <2>2, <3>1 DEF Execute
    <3>2. CASE Goes(e, swap[e], tries[e] + 1) /\ tries[e] + 1 <= ExecTries
      <4>1. tries[e] + 1 \in Nat /\ tries[e] + 1 \in 1..ExecTries
        BY <1>0, <3>2
      <4> QED
        BY <1>2, <1>s, <1>q, <2>0, <2>2, <3>2, <4>1 DEF Execute
    <3> QED
      BY <1>0, <2>2, <3>1, <3>2, RetryGoes
  <2> QED
    BY <1>2, <2>1, <2>2 DEF Execute
<1>3. CASE Settle(e)
  <2>0. e \in everSent /\ rows[e] < handovers[e] /\ swap[e] = "settle" /\ tries[e] \in 1..RecordTries
    BY <1>0, <1>3 DEF Settle, Swapped, TradingTypeOK
  <2>1. CASE Goes(e, "record", tries[e])
    BY <1>0, <1>3, <1>s, <1>q, <2>0, <2>1 DEF Settle
  <2>2. CASE RetryOrFail(e, RecordTries)
    <3>1. CASE Goes(e, "fail", 0)
      BY <1>3, <1>s, <1>q, <2>0, <3>1 DEF Settle
    <3>2. CASE Goes(e, swap[e], tries[e] + 1) /\ tries[e] + 1 <= RecordTries
      <4>1. tries[e] + 1 \in Nat /\ tries[e] + 1 \in 1..RecordTries
        BY <1>0, <3>2
      <4> QED
        BY <1>3, <1>s, <1>q, <2>0, <3>2, <4>1 DEF Settle
    <3> QED
      BY <1>0, <2>2, <3>1, <3>2, RetryGoes
  <2> QED
    BY <1>3, <2>1, <2>2 DEF Settle
<1>4. CASE Record(e)
  <2>0. e \in everSent /\ rows[e] < handovers[e] /\ swap[e] = "record"
        /\ tries[e] \in 1..RecordTries /\ sent[e] <= 1
    BY <1>0, <1>4 DEF Record, Swapped, TradingTypeOK
  <2>1. ASSUME rows' = [rows EXCEPT ![e] = @ + 1], NEW st \in {"produce", "fail"}, NEW n \in Nat,
               Goes(e, st, n), st = "produce" => n \in 1..RecordTries
        PROVE  TradingIInv'
    <3>1. /\ rows' \in [Event -> Nat] /\ rows'[e] = rows[e] + 1
          /\ \A x \in Event \ {e} : rows'[x] = rows[x]
          /\ \A x \in Event : rows'[x] >= rows[x]
      <4>1. \A x \in Event : rows[x] \in Nat
        BY <1>t
      <4> QED
        BY <1>t, <2>1, <4>1
    <3>2. HashMeansRecorded'
      BY <1>0, <1>4, <1>t, <3>1 DEF HashMeansRecorded, Record
    <3>3. rows'[e] <= handovers[e] /\ rows'[e] > 0
      BY <1>0, <2>0, <3>1
    <3>4. st \in SwapStages
      BY <1>s
    <3> QED
      BY <1>0, <1>4, <1>t, <2>0, <2>1, <3>1, <3>2, <3>3, <3>4, OneSwap DEF Record, consumerVars
  <2>2. CASE Goes(e, "fail", 0) /\ UNCHANGED rows
    BY <1>4, <1>s, <1>q, <2>0, <2>2 DEF Record
  <2> QED
    BY <1>0, <1>4, <2>0, <2>1, <2>2 DEF Record
\* steps that publish and go to "none" or "fail"
<1>p. ASSUME swap[e] # "none", NEW r \in Replies, Reply(r), NEW hash \in BOOLEAN, Publishes(e, r, hash),
             hash => swap[e] = "produce",
             NEW st \in {"none", "fail"}, Goes(e, st, 0), muted' \subseteq Event,
             UNCHANGED <<redis, stale, process, ghosts, boots, sent, everSent, rows>>
      PROVE  TradingIInv'
  <2>1. faults' \in 0..MaxFaults /\ faults' >= faults
    BY <1>0, <1>p, ReplyFaults
  <2>2. /\ results' \subseteq [event : Event, hash : BOOLEAN]
        /\ results' \subseteq results \cup {[event |-> e, hash |-> hash]}
    BY <1>t, <1>p DEF Publishes
  <2>3. HashMeansRecorded'
    <3>1. hash => e \in everSent /\ rows[e] > 0
      BY <1>0, <1>p DEF Swapped
    <3> QED
      BY <1>0, <1>p, <2>2, <3>1 DEF HashMeansRecorded
  <2>4. rows[e] <= handovers[e] /\ sent[e] <= 1 /\ st \in SwapStages
    BY <1>0, <1>s DEF Swapped
  <2> QED
    BY <1>t, <1>p, <2>1, <2>2, <2>3, <2>4, OneSwap
<1>5. CASE ProduceResult(e)
  <2>1. PICK r \in Replies :
          Reply(r) /\ Publishes(e, r, TRUE) /\ Goes(e, IF r = "ok" THEN "none" ELSE "fail", 0)
    BY <1>5 DEF ProduceResult
  <2>2. \E st \in {"none", "fail"} : Goes(e, st, 0)
    BY <2>1
  <2>3. muted' \subseteq Event /\ TRUE \in BOOLEAN /\ swap[e] = "produce"
        /\ UNCHANGED <<redis, stale, process, ghosts, boots, sent, everSent, rows>>
    BY <1>5, <1>t DEF ProduceResult
  <2> QED
    BY <1>p, <2>1, <2>2, <2>3
<1>6. CASE ProduceFailure(e)
  <2>1. PICK r \in Replies :
          /\ Reply(r) /\ Publishes(e, r, FALSE)
          /\ muted' = IF r = "refused" THEN muted \cup {e} ELSE muted
    BY <1>6 DEF ProduceFailure
  <2>2. muted' \subseteq Event /\ FALSE \in BOOLEAN /\ swap[e] = "fail" /\ Goes(e, "none", 0)
        /\ UNCHANGED <<redis, stale, process, ghosts, boots, sent, everSent, rows>>
    BY <1>6, <1>t, <2>1 DEF ProduceFailure
  <2> QED
    BY <1>p, <2>1, <2>2
<1> QED
  BY <1>1, <1>2, <1>3, <1>4, <1>5, <1>6 DEF SwapTask

-----------------------------------------------------------------------------
(***************************************************************************)
(* TradingPipeline: the theorems                                           *)
(***************************************************************************)
LEMMA TradingKeeps == TradingIInv /\ [TradingNext]_vars => TradingIInv'
<1> SUFFICES ASSUME TradingIInv, [TradingNext]_vars PROVE TradingIInv'
  OBVIOUS
<1>0. ConsumerIInv
  BY DEF TradingIInv
<1>1. CASE Crash /\ SwapsLost
  BY <1>0, <1>1, CrashKeeps, SwapsLostKeeps
<1>2. CASE TradingInterrupt
  BY <1>0, <1>2, InterruptKeeps, SwapsLostKeeps DEF TradingInterrupt
<1>3. CASE ConsumerStep /\ (IF phase' = "down" THEN SwapsLost ELSE HandOver)
  BY <1>0, <1>3, ConsumerStepKeeps, SwapsLostKeeps, HandOverKeeps
<1>4. CASE UNCHANGED vars
  <2>1. ConsumerIInv'
    BY <1>0, <1>4 DEF vars, consumerVars, redis, process, ghosts, ConsumerIInv, ConsumerTypeOK,
                      Global, Located, Staged, Counted, Handable, Delivered, Old
  <2>2. TradingTypeOK' /\ HashMeansRecorded'
    BY <1>4 DEF TradingIInv, TradingTypeOK, HashMeansRecorded, vars, swapVars
  <2>3. ASSUME NEW x \in Event PROVE Swapped(x)'
    BY <1>4 DEF TradingIInv, Swapped, Handable, Delivered,
                vars, swapVars, consumerVars, redis, process, ghosts
  <2> QED
    BY <2>1, <2>2, <2>3 DEF TradingIInv
<1> QED
  BY <1>1, <1>2, <1>3, <1>4, OutsideKeeps, NewLifeKeeps, SwapTaskKeeps DEF TradingNext

LEMMA TradingEnough == TradingIInv => TradingInv
<1> SUFFICES ASSUME TradingIInv PROVE TradingInv
  OBVIOUS
<1>0. /\ ConsumerTypeOK /\ Global /\ TradingTypeOK /\ HashMeansRecorded
      /\ \A e \in Event : Located(e) /\ Staged(e) /\ Counted(e) /\ Swapped(e)
  BY DEF TradingIInv, ConsumerIInv
<1>1. ConsumerInv
  <2>1. \A e \in dlq : e \in Event
    BY <1>0 DEF ConsumerTypeOK
  <2> QED
    BY <1>0, <2>1 DEF ConsumerInv, DeadLettersMalformed, Staged
<1>2. NoEventLost
  <2> SUFFICES ASSUME NEW i \in DOMAIN log, ~(last < i), ~(i <= origin)
               PROVE  \/ owner[log[i]] # 0
                      \/ handovers[log[i]] > 0 \/ log[i] \in discarded \cup dlq
    BY DEF NoEventLost
  <2>1. log \in Seq(Event) /\ Len(log) \in Nat /\ origin \in 0..Len(log) /\ last \in origin..Len(log)
    BY <1>0 DEF ConsumerTypeOK
  <2>2. i \in 1..Len(log) /\ DOMAIN log = 1..Len(log) /\ log[i] \in Event
    BY <2>1
  <2>3. i \in 1..last /\ 1..origin \subseteq 1..Len(log) /\ i \notin 1..origin
    BY <2>1, <2>2
  <2>4. log[i] \in Delivered
    BY <2>3 DEF Delivered
  <2>5. log[i] \notin Old
    BY <1>0, <2>2, <2>3 DEF Old, Global
  <2> QED
    BY <1>0, <2>2, <2>4, <2>5 DEF Counted
<1>3. OneHandoverPerLife
  BY <1>0 DEF OneHandoverPerLife, Counted
<1>4. SubmittedOnce /\ RecordedOnce
  BY <1>0 DEF SubmittedOnce, RecordedOnce, Swapped
<1> QED
  BY <1>0, <1>1, <1>2, <1>3, <1>4 DEF TradingInv

\* For any number of consumers, tries, failures and restarts: no event vanishes
\* from the stream, none is handed over or submitted twice in one life, and a
\* result with a hash follows its record.
THEOREM TradingCorrect == TradingSpec => []TradingInv
<1>1. TradingSpec => []TradingIInv
  BY TradingInitial, TradingKeeps, PTL DEF TradingSpec
<1> QED
  BY <1>1, TradingEnough, PTL

\* What is acknowledged cannot be handed over.
LEMMA AckedSettled ==
  ASSUME ConsumerIInv, NEW e \in acked
  PROVE  ~Handable(e)
<1>1. e \in Event
  BY DEF ConsumerIInv, ConsumerTypeOK
<1>2. Located(e) /\ Global /\ active \in Nat
  BY <1>1 DEF ConsumerIInv, ConsumerTypeOK
<1> QED
  BY <1>2 DEF Located, Handable, Global

\* An event whose XACK took effect is never handed to the callback again.
THEOREM AckedFinal == TradingSpec => AckedIsFinal
<1>1. TradingIInv /\ [TradingNext]_vars =>
        [\A e \in Event : handovers'[e] > handovers[e] => e \notin acked]_consumerVars
  <2> SUFFICES ASSUME TradingIInv, [TradingNext]_vars, NEW e \in Event,
                      handovers'[e] > handovers[e]
               PROVE  e \notin acked
    OBVIOUS
  <2>0. ConsumerIInv /\ handovers[e] \in Nat /\ ~(handovers[e] > handovers[e])
    BY DEF TradingIInv, ConsumerIInv, ConsumerTypeOK
  <2>1. CASE Orderly
    BY <2>0, <2>1, AckedSettled DEF Orderly, HandedOnce
  <2>2. CASE handovers' = handovers
    BY <2>0, <2>2
  <2>3. CASE \E x \in Event : SwapTask(x)
    BY <2>2, <2>3 DEF SwapTask, BeginSwap, Execute, Settle, Record, ProduceResult, ProduceFailure,
                      consumerVars, ghosts
  <2>4. CASE Boot \/ UNCHANGED vars
    BY <2>2, <2>4 DEF Boot, vars, consumerVars, ghosts
  <2> QED
    BY <2>0, <2>1, <2>3, <2>4, ProduceKeeps, CrashKeeps, InterruptKeeps, ConsumerStepKeeps
       DEF TradingNext, TradingInterrupt
<1>2. TradingSpec => []TradingIInv
  BY TradingInitial, TradingKeeps, PTL DEF TradingSpec
<1> QED
  BY <1>1, <1>2, PTL DEF TradingSpec, AckedIsFinal

\* A swap task ends answered, unless the process or a SIGINT ended it.
THEOREM EndsAnswered == TradingSpec => TaskEndsAnswered
<1>1. TradingIInv /\ [TradingNext]_vars =>
        [\A e \in Event :
           (swap[e] # "none" /\ swap'[e] = "none" /\ phase' # "down" /\ active' = active) =>
             \/ e \in muted' \/ \E r \in results' : r.event = e]_vars
  <2> SUFFICES ASSUME TradingIInv, [TradingNext]_vars, NEW e \in Event,
                      swap[e] # "none", swap'[e] = "none", phase' # "down", active' = active
               PROVE  e \in muted' \/ \E r \in results' : r.event = e
    OBVIOUS
  <2>0. swap \in [Event -> SwapStages] /\ tries \in [Event -> Nat] /\ active \in Nat
    BY DEF TradingIInv, TradingTypeOK, ConsumerIInv, ConsumerTypeOK
  <2>1. ASSUME NEW x \in Event, SwapTask(x)
        PROVE  e \in muted' \/ \E r \in results' : r.event = e
    <3>1. ASSUME NEW st, NEW n, Goes(x, st, n) PROVE x = e /\ st = "none"
      <4>1. swap' = [swap EXCEPT ![x] = st]
        BY <3>1 DEF Goes
      <4> QED
        BY <2>0, <4>1
    <3>2. CASE ProduceResult(x)
      <4>1. PICK r \in Replies :
              Publishes(x, r, TRUE) /\ Goes(x, IF r = "ok" THEN "none" ELSE "fail", 0)
        BY <3>2 DEF ProduceResult
      <4>2. x = e /\ r = "ok"
        BY <3>1, <4>1
      <4>3. [event |-> e, hash |-> TRUE] \in results'
        BY <4>1, <4>2 DEF Publishes
      <4> QED
        BY <4>3
    <3>3. CASE ProduceFailure(x)
      <4>1. PICK r \in Replies :
              /\ Publishes(x, r, FALSE)
              /\ muted' = IF r = "refused" THEN muted \cup {x} ELSE muted
        BY <3>3 DEF ProduceFailure
      <4>2. x = e
        BY <3>1, <3>3 DEF ProduceFailure
      <4>3. r # "refused" => [event |-> e, hash |-> FALSE] \in results'
        BY <4>1, <4>2 DEF Publishes
      <4> QED
        BY <4>1, <4>2, <4>3
    <3>4. CASE BeginSwap(x)
      BY <3>1, <3>4 DEF BeginSwap
    <3>5. CASE Execute(x)
      BY <3>1, <3>5 DEF Execute, RetryOrFail
    <3>6. CASE Settle(x)
      BY <3>1, <3>6 DEF Settle, RetryOrFail
    <3>7. CASE Record(x)
      BY <3>1, <3>7 DEF Record
    <3> QED
      BY <2>1, <3>2, <3>3, <3>4, <3>5, <3>6, <3>7 DEF SwapTask
  <2>2. CASE Crash /\ SwapsLost
    BY <2>2 DEF Crash, GoesDown
  <2>3. CASE TradingInterrupt
    BY <2>0, <2>3 DEF TradingInterrupt, Interrupt, GoesDown
  <2>4. CASE ConsumerStep /\ (IF phase' = "down" THEN SwapsLost ELSE HandOver)
    BY <2>4 DEF HandOver
  <2>5. CASE UNCHANGED swapVars \/ UNCHANGED vars
    BY <2>5 DEF vars, swapVars
  <2> QED
    BY <2>1, <2>2, <2>3, <2>4, <2>5 DEF TradingNext
<1>2. TradingSpec => []TradingIInv
  BY TradingInitial, TradingKeeps, PTL DEF TradingSpec
<1> QED
  BY <1>1, <1>2, PTL DEF TradingSpec, TaskEndsAnswered

-----------------------------------------------------------------------------
(***************************************************************************)
(* SwapPath: division of natural numbers                                   *)
(***************************************************************************)
LEMMA DivBounds ==
  ASSUME NEW a \in Nat, NEW b \in Nat \ {0}
  PROVE  a \div b \in Nat /\ b * (a \div b) <= a /\ a < b * (a \div b) + b
OBVIOUS

LEMMA DivAtMost ==
  ASSUME NEW a \in Nat, NEW b \in Nat \ {0}, NEW c \in Nat, a <= b * c
  PROVE  a \div b \in Nat /\ a \div b <= c
<1> DEFINE q == a \div b
<1>1. q \in Nat /\ b * q <= b * c
  BY DivBounds
<1> HIDE DEF q
<1>2. q <= c
  BY <1>1
<1> QED
  BY <1>1, <1>2 DEF q

LEMMA DivExact ==
  ASSUME NEW a \in Nat, NEW b \in Nat \ {0}
  PROVE  (a * b) \div b = a
OBVIOUS

LEMMA TimesMono ==
  ASSUME NEW a \in Nat, NEW b \in Nat, NEW c \in Nat, a <= b
  PROVE  a * c <= b * c /\ c * a <= c * b /\ a * c \in Nat /\ c * a = a * c
OBVIOUS

\* What is truncated is the quotient, or one less.
LEMMA TruncatedIs ==
  ASSUME NEW n \in Nat, NEW d \in Nat \ {0}, NEW x \in Truncated(n, d)
  PROVE  x \in Nat /\ x <= n \div d /\ x \in {n \div d, n \div d - 1}
<1>1. n \div d \in Nat /\ d * (n \div d) <= n /\ n < d * (n \div d) + d
  BY DivBounds
<1>2. CASE x = n \div d
  BY <1>1, <1>2
<1>3. CASE n % d = 0 /\ n > 0 /\ x = n \div d - 1
  <2>1. n = d * (n \div d) + (n % d)
    OBVIOUS
  <2>2. n \div d # 0
    BY <1>3, <2>1
  <2> QED
    BY <1>1, <1>3, <2>2
<1> QED
  BY <1>2, <1>3 DEF Truncated

LEMMA TruncatedBounds ==
  ASSUME NEW n \in Nat, NEW d \in Nat \ {0}, NEW x \in Truncated(n, d)
  PROVE  x \in Nat /\ d * x <= n /\ n <= d * x + d
<1>1. n \div d \in Nat /\ d * (n \div d) <= n /\ n < d * (n \div d) + d
  BY DivBounds
<1>2. CASE x = n \div d
  BY <1>1, <1>2
<1>3. CASE n % d = 0 /\ n > 0 /\ x = n \div d - 1
  <2>1. n = d * (n \div d)
    BY <1>3
  <2>2. x \in Nat /\ d * x = d * (n \div d) - d
    <3>1. x \in Nat
      BY <1>3, TruncatedIs
    <3> QED
      BY <1>1, <1>3, <3>1
  <2> QED
    BY <2>1, <2>2
<1> QED
  BY <1>2, <1>3 DEF Truncated

LEMMA TruncatedAtMost ==
  ASSUME NEW n \in Nat, NEW d \in Nat \ {0}, NEW c \in Nat, n <= d * c, NEW x \in Truncated(n, d)
  PROVE  x \in Nat /\ x <= c
<1>1. n \div d \in Nat /\ n \div d <= c
  BY DivAtMost
<1>2. x \in Nat /\ x <= n \div d
  BY TruncatedIs
<1> QED
  BY <1>1, <1>2

-----------------------------------------------------------------------------
(***************************************************************************)
(* SwapPath: the orders                                                    *)
(***************************************************************************)
OrderType ==
  [by : {"user", "copytrade"}, side : {"buy", "sell"}, inType : {"qty", "pct"},
   num : Nat, den : Nat \ {0}, asked : Nat, holding : Nat]

\* A quantity is a number of tokens, and a share too, though it says it is not: the
\* tokens a share amounts to are not more than those held.
Placed(o) ==
  /\ o.inType = "qty" => o.den = Unit /\ o.num = o.asked
  /\ o.inType = "qty" /\ o.side = "sell" => o.num <= o.holding
  /\ o.inType = "pct" => o.den = Decimals /\ o.side = "sell" /\ o.num * Unit <= o.holding * Decimals

\* s ten-thousandths are the share n of d, at most the whole, rounded to four digits.
Near(s, n, d) ==
  /\ s \in Nat /\ s <= 10000
  /\ 2 * (d * s) <= 20000 * n + d /\ 20000 * n + d < 2 * (d * s) + 2 * d

LEMMA RoundedIs ==
  ASSUME NEW n \in Nat, NEW d \in Nat \ {0}, n <= d
  PROVE  Near(Rounded(n, d), n, d)
<1> DEFINE a == 2 * 10000 * n + d
           b == 2 * d
           q == a \div b
<1>1. a \in Nat /\ b \in Nat \ {0} /\ Rounded(n, d) = q
  BY DEF Rounded
<1>2. q \in Nat /\ b * q <= a /\ a < b * q + b
  <2> HIDE DEF a, b
  <2> QED
    BY <1>1, DivBounds
<1> HIDE DEF q
<1>3. b * q = 2 * (d * q) /\ a = 20000 * n + d
  BY <1>2
<1>4. q <= 10000
  <2>1. d * q \in Nat /\ 2 * (d * q) < 20002 * d
    BY <1>2, <1>3
  <2>2. d * q < d * 10001
    BY <2>1
  <2> QED
    BY <1>2, <2>2
<1> QED
  BY <1>1, <1>2, <1>3, <1>4 DEF Near

\* k of h, and l more, are between them the share n of d, to the rounding of the share.
Between(k, l, h, n, d) ==
  LET rounding == (h * d) \div 20000 + 1
  IN k * d <= h * n + rounding /\ h * n <= (k + l) * d + rounding

\* When they are between them s ten-thousandths of h, and s is near n of d.
LEMMA ShareOf ==
  ASSUME NEW n \in Nat, NEW d \in Nat \ {0}, NEW s, Near(s, n, d), NEW h \in Nat,
         NEW k \in Nat, NEW l \in Nat, 10000 * k <= h * s, h * s <= 10000 * (k + l)
  PROVE  Between(k, l, h, n, d)
<1>0. s \in Nat /\ 2 * (d * s) <= 20000 * n + d /\ 20000 * n + d < 2 * (d * s) + 2 * d
  BY DEF Near
<1> DEFINE error == (h * d) \div 20000
           m == k + l
<1>1. /\ m \in Nat /\ 10000 * k <= h * s /\ h * s <= 10000 * m
      /\ error \in Nat /\ h * d < 20000 * error + 20000
  BY <1>0, DivBounds
<1> HIDE DEF error, m
<1> DEFINE kd == k * d
           md == m * d
           hn == h * n
           hd == h * d
           hsd == h * s * d
<1>2. kd \in Nat /\ md \in Nat /\ hn \in Nat /\ hd \in Nat /\ hsd \in Nat
  BY <1>0, <1>1
<1>3. 10000 * kd <= hsd /\ hsd <= 10000 * md
  <2>1. (10000 * k) * d <= (h * s) * d /\ (h * s) * d <= (10000 * m) * d
    BY <1>0, <1>1, TimesMono
  <2> QED
    BY <1>0, <1>1, <2>1
<1>4. 2 * hsd <= 20000 * hn + hd
  <2>1. h * (2 * (d * s)) <= h * (20000 * n + d)
    BY <1>0, TimesMono
  <2> QED
    BY <1>0, <2>1
<1>5. 20000 * hn + hd <= 2 * hsd + 2 * hd
  <2>1. h * (20000 * n + d) <= h * (2 * (d * s) + 2 * d)
    BY <1>0, TimesMono
  <2> QED
    BY <1>0, <2>1
<1>6. hd < 20000 * error + 20000
  BY <1>1
<1> HIDE DEF kd, md, hn, hd, hsd
<1>7. kd <= hn + (error + 1)
  BY <1>1, <1>2, <1>3, <1>4, <1>6
<1>8. hn <= md + (error + 1)
  BY <1>1, <1>2, <1>3, <1>5, <1>6
<1> QED
  BY <1>7, <1>8 DEF Between, error, m, kd, md, hn

\* s ten-thousandths are what the wallet sold.
ShareIs(s, pre, post) ==
  /\ s \in Nat /\ s <= 10000
  /\ IF post * 1000 < Unit THEN s = 10000
     ELSE pre \in Nat \ {0} /\ pre - post \in Nat /\ Near(s, pre - post, pre)

\* The tokens of a copied sale against s ten-thousandths of the holding: each int()
\* loses one of Decimals parts of a token at most.
PartsOf(o, s) ==
  /\ 10000 * (o.num * Unit) <= (o.holding * s) * Decimals
  /\ (o.holding * s) * Decimals <= 10000 * (o.num * Unit) + 20000 * Unit

Followed(o, pre, post) ==
  (o.by = "copytrade" /\ o.side = "sell") =>
    o.inType = "pct" /\ \E s : ShareIs(s, pre, post) /\ PartsOf(o, s)

\* int() of s ten-thousandths of a number of parts.
LEMMA PartsAre ==
  ASSUME NEW holding \in Nat, NEW s \in Nat, s <= 10000, NEW num \in CopiedParts(holding, s)
  PROVE  /\ num \in Nat /\ num * Unit <= holding * Decimals
         /\ 10000 * (num * Unit) <= (holding * s) * Decimals
         /\ (holding * s) * Decimals <= 10000 * (num * Unit) + 20000 * Unit
<1> USE ConstantsAssumption
<1>1. PICK t \in Truncated(holding * Decimals, Unit) :
        num \in IF s = 10000 THEN {t} ELSE Truncated(t * s, 10000)
  BY DEF CopiedParts
<1>2. holding * Decimals \in Nat
  OBVIOUS
<1>3. t \in Nat /\ Unit * t <= holding * Decimals /\ holding * Decimals <= Unit * t + Unit
  BY <1>2, TruncatedBounds
<1>4. num \in Nat /\ 10000 * num <= t * s /\ t * s <= 10000 * num + 10000
  <2>1. CASE s = 10000
    BY <1>1, <1>3, <2>1
  <2>2. CASE s # 10000
    <3>1. t * s \in Nat
      BY <1>3
    <3> QED
      BY <1>1, <2>2, <3>1, TruncatedBounds
  <2> QED
    BY <2>1, <2>2
<1> DEFINE hd == holding * Decimals
           ut == Unit * t
           un == num * Unit
           uts == (t * s) * Unit
           hds == (holding * s) * Decimals
<1>5. hd \in Nat /\ ut \in Nat /\ un \in Nat /\ uts \in Nat /\ hds \in Nat
  BY <1>3, <1>4
<1>6. uts = ut * s /\ hds = hd * s
  BY <1>3
<1>7. 10000 * un <= uts /\ uts <= 10000 * un + 10000 * Unit
  <2>1. (10000 * num) * Unit <= (t * s) * Unit /\ (t * s) * Unit <= (10000 * num + 10000) * Unit
    BY <1>3, <1>4, TimesMono
  <2> QED
    BY <1>4, <2>1
<1>8. uts <= hds /\ hds <= uts + 10000 * Unit
  <2>1. ut * s <= hd * s /\ hd * s <= (ut + Unit) * s
    BY <1>3, <1>5, TimesMono
  <2>2. (ut + Unit) * s = ut * s + Unit * s /\ Unit * s <= Unit * 10000
    BY <1>5, TimesMono
  <2> QED
    BY <1>5, <1>6, <2>1, <2>2
<1>9. uts <= 10000 * ut
  BY <1>5, <1>6, TimesMono
<1> HIDE DEF hd, ut, un, uts, hds
<1>10. un <= ut /\ ut <= hd
  BY <1>3, <1>5, <1>7, <1>9 DEF ut, hd
<1>11. 10000 * un <= hds /\ hds <= 10000 * un + 20000 * Unit
  BY <1>5, <1>7, <1>8
<1> QED
  BY <1>4, <1>5, <1>10, <1>11 DEF un, hd, hds

LEMMA CopyOrderIs ==
  ASSUME NEW pre \in Nat, NEW post \in Nat, TxType(pre, post) # "unchanged",
         NEW amount \in Nat, NEW holding \in Nat, NEW o \in CopyOrders(pre, post, amount, holding)
  PROVE  o \in OrderType /\ Placed(o) /\ Followed(o, pre, post)
<1> USE ConstantsAssumption
<1>1. CASE TxType(pre, post) \in {"open", "add"}
  <2>1. o = [by |-> "copytrade", side |-> "buy", inType |-> "qty", num |-> amount, den |-> Unit,
             asked |-> amount, holding |-> holding]
    BY <1>1 DEF CopyOrders
  <2>2. o \in OrderType
    BY <2>1 DEF OrderType
  <2>3. Placed(o) /\ Followed(o, pre, post)
    BY <2>1 DEF Placed, Followed
  <2> QED
    BY <2>2, <2>3
<1>2. CASE TxType(pre, post) \notin {"open", "add"}
  <2> DEFINE s == SellShare(pre, post)
  <2>1. TxType(pre, post) \in {"close", "reduce"} /\ post < pre
        /\ (TxType(pre, post) = "close" <=> post * 1000 < Unit)
    BY <1>2 DEF TxType
  <2>2. pre \in Nat \ {0} /\ pre - post \in Nat /\ pre - post <= pre
    BY <2>1
  <2>3. ShareIs(s, pre, post)
    <3>1. s = IF TxType(pre, post) = "close" THEN 10000 ELSE Rounded(pre - post, pre)
      BY DEF SellShare
    <3>2. Near(Rounded(pre - post, pre), pre - post, pre)
      BY <2>2, RoundedIs
    <3> HIDE DEF s
    <3>3. CASE TxType(pre, post) = "close"
      BY <2>1, <3>1, <3>3 DEF ShareIs
    <3>4. CASE TxType(pre, post) = "reduce"
      <4>1. Near(s, pre - post, pre) /\ ~(post * 1000 < Unit)
        BY <2>1, <3>1, <3>2, <3>4
      <4> QED
        BY <2>2, <4>1 DEF ShareIs, Near
    <3> QED
      BY <2>1, <3>3, <3>4
  <2>4. PICK k \in CopiedParts(holding, s) :
          o = [by |-> "copytrade", side |-> "sell", inType |-> "pct", num |-> k, den |-> Decimals,
               asked |-> 0, holding |-> holding]
    BY <1>2 DEF CopyOrders
  <2> HIDE DEF s
  <2>5. /\ k \in Nat /\ k * Unit <= holding * Decimals
        /\ 10000 * (k * Unit) <= (holding * s) * Decimals
        /\ (holding * s) * Decimals <= 10000 * (k * Unit) + 20000 * Unit
    BY <2>3, PartsAre DEF ShareIs
  <2>6. o \in OrderType
    BY <2>4, <2>5 DEF OrderType
  <2>7. Placed(o)
    BY <2>4, <2>5 DEF Placed
  <2>8. Followed(o, pre, post)
    BY <2>3, <2>4, <2>5 DEF Followed, PartsOf
  <2> QED
    BY <2>6, <2>7, <2>8
<1> QED
  BY <1>1, <1>2

\* Decimals parts of a token in raw units: what Jupiter is asked to sell of a copied
\* sale is the share of the holding, and Lost less at most.
LEMMA SoldIs ==
  ASSUME NEW o \in OrderType, Placed(o), o.inType = "pct", NEW s \in Nat, PartsOf(o, s),
         NEW x \in Quantity(o)
  PROVE  /\ x \in Nat /\ Lost \in Nat
         /\ 10000 * x <= o.holding * s /\ o.holding * s <= 10000 * (x + Lost)
<1> USE ConstantsAssumption
<1>0. o.num \in Nat /\ o.holding \in Nat /\ o.den = Decimals /\ Decimals \in Nat \ {0}
  BY DEF OrderType, Placed
<1> DEFINE nu == o.num * Unit
           hs == o.holding * s
           l == (2 * Unit) \div Decimals
<1>1. nu \in Nat /\ hs \in Nat
  BY <1>0
<1>2. x \in Nat /\ Decimals * x <= nu /\ nu <= Decimals * x + Decimals
  BY <1>0, <1>1, TruncatedBounds DEF Quantity
<1>3. l \in Nat /\ 2 * Unit < Decimals * l + Decimals
  BY DivBounds
<1>4. 10000 * nu <= hs * Decimals /\ hs * Decimals <= 10000 * nu + 20000 * Unit
  BY DEF PartsOf
<1>5. Lost = l + 2
  BY DEF Lost
<1> HIDE DEF nu, hs, l
<1>6. (10000 * x) * Decimals <= hs * Decimals
  <2>1. Decimals * x \in Nat /\ (10000 * x) * Decimals = 10000 * (Decimals * x) /\ hs * Decimals \in Nat
    BY <1>1, <1>2
  <2> QED
    BY <1>1, <1>2, <1>4, <2>1
<1>7. hs * Decimals <= (10000 * (x + (l + 2))) * Decimals
  <2>1. /\ Decimals * x \in Nat /\ Decimals * l \in Nat /\ hs * Decimals \in Nat
        /\ (10000 * (x + (l + 2))) * Decimals
             = 10000 * (Decimals * x) + 10000 * (Decimals * l) + 20000 * Decimals
    BY <1>1, <1>2, <1>3
  <2> QED
    BY <1>1, <1>2, <1>3, <1>4, <2>1
<1>8. \A a, b \in Nat : a * Decimals <= b * Decimals => a <= b
  <2>1. SUFFICES ASSUME NEW a \in Nat, NEW b \in Nat, b + 1 <= a PROVE ~(a * Decimals <= b * Decimals)
    OBVIOUS
  <2>2. (b + 1) * Decimals <= a * Decimals
    BY <2>1, TimesMono
  <2>3. (b + 1) * Decimals = b * Decimals + Decimals /\ b * Decimals \in Nat /\ a * Decimals \in Nat
    OBVIOUS
  <2> QED
    BY <2>2, <2>3
<1>9. 10000 * x <= hs
  BY <1>1, <1>2, <1>6, <1>8
<1>10. hs <= 10000 * (x + (l + 2))
  <2>1. 10000 * (x + (l + 2)) \in Nat
    BY <1>2, <1>3
  <2> QED
    BY <1>1, <1>7, <1>8, <2>1
<1> QED
  BY <1>2, <1>3, <1>5, <1>9, <1>10 DEF hs

\* What is sold of a copied sale follows what the wallet sold.
Shared(x, o, pre, post) ==
  IF post * 1000 < Unit THEN x <= o.holding /\ o.holding <= x + Lost
  ELSE Between(x, Lost, o.holding, pre - post, pre)

LEMMA SaleFollows ==
  ASSUME NEW o \in OrderType, Placed(o), NEW pre, NEW post, Followed(o, pre, post),
         o.by = "copytrade", o.side = "sell", NEW x \in Quantity(o)
  PROVE  Shared(x, o, pre, post)
<1>1. PICK s : ShareIs(s, pre, post) /\ PartsOf(o, s)
  BY DEF Followed
<1>2. o.inType = "pct" /\ s \in Nat /\ o.holding \in Nat
  BY <1>1 DEF Followed, ShareIs, OrderType
<1>3. /\ x \in Nat /\ Lost \in Nat
      /\ 10000 * x <= o.holding * s /\ o.holding * s <= 10000 * (x + Lost)
  BY <1>1, <1>2, SoldIs
<1>4. CASE post * 1000 < Unit
  <2>1. s = 10000
    BY <1>1, <1>4 DEF ShareIs
  <2>2. x <= o.holding /\ o.holding <= x + Lost
    BY <1>2, <1>3, <2>1
  <2> QED
    BY <1>4, <2>2 DEF Shared
<1>5. CASE ~(post * 1000 < Unit)
  <2>1. pre \in Nat \ {0} /\ pre - post \in Nat /\ Near(s, pre - post, pre)
    BY <1>1, <1>5 DEF ShareIs
  <2>2. Between(x, Lost, o.holding, pre - post, pre)
    BY <1>2, <1>3, <2>1, ShareOf
  <2> QED
    BY <1>5, <2>2 DEF Shared
<1> QED
  BY <1>4, <1>5

\* The builders: every route names what was asked for, or one less, and of a share
\* not more than is held.
LEMMA AmountsAre ==
  ASSUME NEW o \in OrderType, Placed(o), NEW r, NEW x \in Amounts(r, o)
  PROVE  /\ x \in Nat
         /\ o.inType = "qty" => x \in {o.asked, o.asked - 1}
         /\ o.side = "sell" => x <= o.holding
<1> USE ConstantsAssumption
<1>0. /\ o.num \in Nat /\ o.den \in Nat \ {0} /\ o.asked \in Nat /\ o.holding \in Nat
      /\ o.inType \in {"qty", "pct"} /\ o.side \in {"buy", "sell"}
      /\ o.num * Unit \in Nat /\ o.holding * o.num \in Nat /\ 100 * o.den \in Nat \ {0}
  BY DEF OrderType
<1>1. ASSUME NEW y \in Quantity(o), o.inType = "qty"
      PROVE  /\ y \in Nat /\ y \in {o.asked, o.asked - 1}
             /\ o.side = "sell" => y <= o.holding
  <2>1. (o.num * Unit) \div o.den = o.asked
    BY <1>0, <1>1, DivExact DEF Placed
  <2>2. y \in Nat /\ y <= o.asked /\ y \in {o.asked, o.asked - 1}
    BY <1>0, <1>1, <2>1, TruncatedIs DEF Quantity
  <2> QED
    BY <1>0, <1>1, <2>2 DEF Placed
<1>2. ASSUME NEW y \in Quantity(o), o.inType = "pct"
      PROVE  y \in Nat /\ y <= o.holding
  <2>1. o.num * Unit <= o.den * o.holding
    BY <1>0, <1>2 DEF Placed
  <2> QED
    BY <1>0, <1>2, <2>1, TruncatedAtMost DEF Quantity
<1>3. CASE x \in Quantity(o)
  BY <1>0, <1>1, <1>2, <1>3
<1>4. CASE x \in PumpAmounts(o) /\ x \notin Quantity(o)
  <2>1. o.inType = "pct"
    BY <1>0, <1>4 DEF PumpAmounts
  <2>2. x = o.holding \/ (o.num < o.den /\ x = (o.holding * o.num) \div o.den)
    BY <1>0, <1>4, <2>1 DEF PumpAmounts
  <2>3. o.num < o.den => o.holding * o.num <= o.den * o.holding
    BY <1>0, TimesMono
  <2>4. x \in Nat /\ x <= o.holding
    BY <1>0, <2>2, <2>3, DivAtMost
  <2> QED
    BY <2>1, <2>4
<1>5. CASE x \in RaydiumAmounts(o) /\ x \notin Quantity(o)
  <2>1. o.inType = "pct" /\ o.num <= 100 * o.den /\ x \in Truncated(o.holding * o.num, 100 * o.den)
    BY <1>0, <1>5 DEF RaydiumAmounts
  <2>2. o.holding * o.num <= (100 * o.den) * o.holding
    BY <1>0, <2>1, TimesMono
  <2>3. x \in Nat /\ x <= o.holding
    BY <1>0, <2>1, <2>2, TruncatedAtMost
  <2> QED
    BY <2>1, <2>3
<1> QED
  BY <1>3, <1>4, <1>5 DEF Amounts, DexAmounts

-----------------------------------------------------------------------------
(***************************************************************************)
(* SwapPath: the inductive invariant                                       *)
(***************************************************************************)
Ordering ==
  /\ step = "decide" => TxType(trade.pre, trade.post) # "unchanged"
  /\ Built \/ step \in {"route", "build"} => Placed(order)
  /\ Followed(order, trade.pre, trade.post)

Trading ==
  Built =>
    /\ order.inType = "qty" => sold \in {order.asked, order.asked - 1}
    /\ order.side = "sell" => sold <= order.holding
    /\ (order.by = "copytrade" /\ order.side = "sell" /\ route = "DEX") =>
         Shared(sold, order, trade.pre, trade.post)

\* What the settlement knows is what the chain says, which takes nothing back.
Settling ==
  /\ step \in {"record", "recorded"} => Landed
  /\ step \in {"analyze", "record", "recorded"} =>
       /\ status = "SUCCESS" => chain \in {"confirmed", "finalized"}
       /\ status = "FAILED" => chain \in {"confirmedErr", "finalizedErr"}

SwapIInv == TypeOK /\ Ordering /\ Trading /\ Settling

LEMMA Initial == Init => SwapIInv
BY ConstantsAssumption DEF Init, NoTrade, NoOrder, SwapIInv, TypeOK, Steps, Ends, Chain, Ordering,
   Trading, Settling, Built, Followed

\* A step that leaves the order and what is sold of it alone.
LEMMA SameOrder ==
  ASSUME SwapIInv, UNCHANGED <<trade, order, sold, route>>,
         step' # "decide", Built' => Built, step' \notin {"route", "build"}
  PROVE  Ordering' /\ Trading'
BY DEF SwapIInv, Ordering, Trading, Followed, ShareIs, Near, PartsOf, Shared, Between, Placed, TxType

LEMMA ParseKeeps == SwapIInv /\ Parse => SwapIInv'
<1> SUFFICES ASSUME SwapIInv, Parse PROVE SwapIInv'
  OBVIOUS
<1>1. PICK pre, post \in Amount :
        /\ trade' = [pre |-> pre, post |-> post]
        /\ step' = IF TxType(pre, post) = "unchanged" THEN "dismissed" ELSE "decide"
  BY DEF Parse
<1>2. /\ TypeOK /\ step = "start" /\ order = NoOrder /\ status = "none"
      /\ UNCHANGED <<order, program, route, sold, budget, sender, chain, polls, status>>
  BY DEF SwapIInv, Parse, TypeOK
<1>3. trade' \in [pre : Nat, post : Nat] /\ step' \in {"dismissed", "decide"}
  BY <1>1, ConstantsAssumption
<1>4. TypeOK'
  BY <1>2, <1>3 DEF TypeOK, Steps, Ends
<1>5. Ordering'
  BY <1>1, <1>2, <1>3 DEF Ordering, Followed, NoOrder, Built
<1>6. Trading' /\ Settling'
  BY <1>3 DEF Trading, Settling, Built
<1> QED
  BY <1>4, <1>5, <1>6 DEF SwapIInv

\* A placed order goes on to its route.
LEMMA OrderedKeeps ==
  ASSUME SwapIInv, step \in {"start", "decide"}, NEW o \in OrderType, Placed(o),
         Followed(o, trade.pre, trade.post), order' = o, step' = "route",
         program' \in {"none", "pump", "raydium", "meteora"},
         UNCHANGED <<trade, route, sold, budget, sender, chain, polls, status>>
  PROVE  SwapIInv'
<1>1. TypeOK /\ status = "none"
  BY DEF SwapIInv, TypeOK
<1>2. TypeOK'
  BY <1>1 DEF TypeOK, Steps, OrderType
<1>3. Ordering'
  BY DEF Ordering, Built
<1>4. Trading' /\ Settling'
  BY DEF Trading, Settling, Built
<1> QED
  BY <1>2, <1>3, <1>4 DEF SwapIInv

\* An end before the transaction is built.
LEMMA EndKeeps ==
  ASSUME SwapIInv, step' \in {"skipped", "failed"}, step' = "skipped" => status = "none",
         UNCHANGED <<trade, order, program, route, sold, budget, sender, chain, polls, status>>
  PROVE  SwapIInv'
<1>1. TypeOK'
  BY DEF SwapIInv, TypeOK, Steps, Ends
<1>2. Ordering' /\ Trading'
  BY SameOrder DEF Built
<1>3. Settling'
  BY DEF Settling
<1> QED
  BY <1>1, <1>2, <1>3 DEF SwapIInv

LEMMA OrderKeeps == SwapIInv /\ (Decide \/ UserBuy \/ UserSell) => SwapIInv'
<1> SUFFICES ASSUME SwapIInv, Decide \/ UserBuy \/ UserSell PROVE SwapIInv'
  OBVIOUS
<1> USE ConstantsAssumption
<1>0. TypeOK /\ trade.pre \in Nat /\ trade.post \in Nat
  BY DEF SwapIInv, TypeOK
<1>1. CASE Decide
  <2>1. step = "decide" /\ UNCHANGED <<trade, route, sold, budget, sender, chain, polls, status>>
    BY <1>1 DEF Decide
  <2>2. CASE step' = "skipped" /\ UNCHANGED <<order, program>>
    <3>1. status = "none"
      BY <1>0, <2>1 DEF TypeOK
    <3> QED
      BY <2>1, <2>2, <3>1, EndKeeps
  <2>3. CASE /\ \E amount, holding \in Amount \ {0} :
                  \E o \in CopyOrders(trade.pre, trade.post, amount, holding) : Ordered(o)
             /\ program' \in {"none", "pump", "raydium", "meteora"}
    <3>1. PICK amount \in Amount \ {0}, holding \in Amount \ {0} :
            \E o \in CopyOrders(trade.pre, trade.post, amount, holding) : Ordered(o)
      BY <2>3
    <3>0. PICK o \in CopyOrders(trade.pre, trade.post, amount, holding) : Ordered(o)
      BY <3>1
    <3>2. amount \in Nat /\ holding \in Nat /\ TxType(trade.pre, trade.post) # "unchanged"
      BY <2>1 DEF SwapIInv, Ordering
    <3>3. o \in OrderType /\ Placed(o) /\ Followed(o, trade.pre, trade.post)
      BY <1>0, <3>2, CopyOrderIs
    <3>4. order' = o /\ step' = "route"
      BY <3>0 DEF Ordered
    <3> QED
      BY <2>1, <2>3, <3>3, <3>4, OrderedKeeps
  <2> QED
    BY <1>1, <2>2, <2>3 DEF Decide
<1>2. CASE UserBuy
  <2>1. PICK amount \in Amount \ {0} :
          Ordered([NoOrder EXCEPT !.num = amount, !.den = Unit, !.asked = amount])
    BY <1>2 DEF UserBuy
  <2> DEFINE o == [by |-> "user", side |-> "buy", inType |-> "qty", num |-> amount, den |-> Unit,
                   asked |-> amount, holding |-> 0]
  <2>2. order' = o /\ step' = "route"
    BY <2>1 DEF Ordered, NoOrder
  <2>3. o \in OrderType /\ Placed(o) /\ Followed(o, trade.pre, trade.post)
    BY DEF OrderType, Placed, Followed
  <2>4. /\ step = "start" /\ program' \in {"none", "pump", "raydium", "meteora"}
        /\ UNCHANGED <<trade, route, sold, budget, sender, chain, polls, status>>
    BY <1>0, <1>2 DEF UserBuy, TypeOK
  <2> HIDE DEF o
  <2> QED
    BY <2>2, <2>3, <2>4, OrderedKeeps
<1>3. CASE UserSell
  <2>0. /\ step = "start" /\ program' \in {"none", "pump", "raydium", "meteora"}
        /\ UNCHANGED <<trade, program, route, sold, budget, sender, chain, polls, status>>
    BY <1>0, <1>3 DEF UserSell, TypeOK
  <2>1. PICK holding \in Amount, percent \in Percent :
          LET amount == IF percent = 100 THEN holding ELSE (holding * percent) \div 100
          IN IF amount = 0 THEN step' = "skipped" /\ UNCHANGED order
             ELSE Ordered([NoOrder EXCEPT !.side = "sell", !.num = amount, !.den = Unit,
                                          !.asked = amount, !.holding = holding])
    BY <1>3 DEF UserSell
  <2> DEFINE amount == IF percent = 100 THEN holding ELSE (holding * percent) \div 100
             o == [by |-> "user", side |-> "sell", inType |-> "qty", num |-> amount, den |-> Unit,
                   asked |-> amount, holding |-> holding]
  <2>2. amount \in Nat /\ amount <= holding /\ holding \in Nat
    <3>1. holding \in Nat /\ percent \in Nat /\ percent <= 100 /\ holding * percent \in Nat
      OBVIOUS
    <3>2. holding * percent <= 100 * holding
      BY <3>1, TimesMono
    <3>3. (holding * percent) \div 100 \in Nat /\ (holding * percent) \div 100 <= holding
      BY <3>1, <3>2, DivAtMost
    <3> QED
      BY <3>1, <3>3
  <2>3. \/ step' = "skipped" /\ UNCHANGED order
        \/ order' = o /\ step' = "route"
    <3>1. \/ step' = "skipped" /\ UNCHANGED order
          \/ Ordered([NoOrder EXCEPT !.side = "sell", !.num = amount, !.den = Unit,
                                     !.asked = amount, !.holding = holding])
      BY <2>1
    <3> HIDE DEF amount
    <3> QED
      BY <3>1 DEF Ordered, NoOrder
  <2>4. o \in OrderType /\ Placed(o) /\ Followed(o, trade.pre, trade.post)
    <3> HIDE DEF amount
    <3> QED
      BY <2>2 DEF OrderType, Placed, Followed
  <2>5. status = "none"
    BY <1>0, <2>0 DEF TypeOK
  <2> HIDE DEF o, amount
  <2> QED
    BY <2>0, <2>3, <2>4, <2>5, OrderedKeeps, EndKeeps
<1> QED
  BY <1>1, <1>2, <1>3

LEMMA RouteKeeps == SwapIInv /\ Route => SwapIInv'
<1> SUFFICES ASSUME SwapIInv, Route PROVE SwapIInv'
  OBVIOUS
<1>0. /\ step = "route" /\ TypeOK /\ status = "none"
      /\ UNCHANGED <<trade, order, program, sold, budget, sender, chain, polls, status>>
  BY DEF Route, SwapIInv, TypeOK
<1>1. CASE step' = "failed" /\ UNCHANGED route
  BY <1>0, <1>1, EndKeeps
<1>2. CASE step' = "build" /\ route' \in {"PUMP", "RAYDIUM_V4", "DEX"}
  <2>1. TypeOK'
    BY <1>0, <1>2 DEF TypeOK, Steps
  <2>2. Ordering'
    BY <1>0, <1>2 DEF SwapIInv, Ordering, Built, Placed, Followed, ShareIs, Near, PartsOf
  <2>3. Trading' /\ Settling'
    BY <1>2 DEF Trading, Settling, Built
  <2> QED
    BY <2>1, <2>2, <2>3 DEF SwapIInv
<1> QED
  BY <1>1, <1>2 DEF Route, FindRoute

LEMMA BuildKeeps == SwapIInv /\ Build => SwapIInv'
<1> SUFFICES ASSUME SwapIInv, Build PROVE SwapIInv'
  OBVIOUS
<1>0. /\ step = "build" /\ TypeOK /\ Placed(order) /\ status = "none"
      /\ UNCHANGED <<trade, order, program, route, chain, polls, status>>
  BY DEF Build, SwapIInv, TypeOK, Ordering
<1>1. CASE step' = "failed" /\ UNCHANGED <<sold, budget, sender>>
  BY <1>0, <1>1, EndKeeps
<1>2. CASE /\ sold' \in Amounts(route, order) \ {0}
           /\ budget' \in 1..2 /\ sender' = "default" /\ step' = "send"
  <2>1. order \in OrderType
    BY <1>0 DEF TypeOK, OrderType
  <2>2. /\ sold' \in Nat
        /\ order.inType = "qty" => sold' \in {order.asked, order.asked - 1}
        /\ order.side = "sell" => sold' <= order.holding
    BY <1>0, <1>2, <2>1, AmountsAre
  <2>3. TypeOK'
    BY <1>0, <1>2, <2>2 DEF TypeOK, Steps
  <2>4. Ordering'
    BY <1>0, <1>2 DEF SwapIInv, Ordering, Built, Placed, Followed, ShareIs, Near, PartsOf
  <2>5. Trading'
    <3>1. ASSUME order.by = "copytrade", order.side = "sell", route = "DEX"
          PROVE  Shared(sold', order, trade.pre, trade.post)
      <4>1. sold' \in Quantity(order) /\ Followed(order, trade.pre, trade.post)
        BY <1>2, <3>1 DEF Amounts, DexAmounts, SwapIInv, Ordering
      <4> QED
        BY <1>0, <2>1, <3>1, <4>1, SaleFollows
    <3> QED
      BY <1>0, <2>2, <3>1 DEF Trading, Shared, Between
  <2>6. Settling'
    BY <1>2 DEF Settling
  <2> QED
    BY <2>3, <2>4, <2>5, <2>6 DEF SwapIInv
<1> QED
  BY <1>1, <1>2 DEF Build, BudgetPairs

LEMMA SendKeeps == SwapIInv /\ Send => SwapIInv'
<1> SUFFICES ASSUME SwapIInv, Send PROVE SwapIInv'
  OBVIOUS
<1>0. /\ step = "send" /\ TypeOK /\ status = "none"
      /\ UNCHANGED <<trade, order, program, route, sold, budget, sender, polls, status>>
  BY DEF Send, SwapIInv, TypeOK
<1>1. step' \in {"failed", "poll"} /\ chain' \in Chain
  BY <1>0 DEF Send, TypeOK, Chain
<1>2. TypeOK'
  BY <1>0, <1>1 DEF TypeOK, Steps, Ends
<1>3. Ordering' /\ Trading'
  BY <1>0, <1>1, SameOrder DEF Built
<1>4. Settling'
  BY <1>1 DEF Settling
<1> QED
  BY <1>2, <1>3, <1>4 DEF SwapIInv

\* The chain takes nothing back.
LEMMA ChainKeeps == SwapIInv /\ ChainStep => SwapIInv'
<1> SUFFICES ASSUME SwapIInv, ChainStep PROVE SwapIInv'
  OBVIOUS
<1>0. /\ step \in {"poll", "analyze", "record"} /\ chain' \in Advances(chain)
      /\ UNCHANGED <<step, trade, order, program, route, sold, budget, sender, polls, status>>
  BY DEF ChainStep
<1>1. /\ chain' \in Chain
      /\ chain \in {"confirmed", "finalized"} => chain' \in {"confirmed", "finalized"}
      /\ chain \in {"confirmedErr", "finalizedErr"} => chain' \in {"confirmedErr", "finalizedErr"}
  BY <1>0 DEF Advances, Chain
<1>2. TypeOK'
  BY <1>0, <1>1 DEF SwapIInv, TypeOK
<1>3. Ordering' /\ Trading'
  BY <1>0, SameOrder DEF Built
<1>4. Settling'
  BY <1>0, <1>1 DEF SwapIInv, Settling, Landed
<1> QED
  BY <1>2, <1>3, <1>4 DEF SwapIInv

LEMMA PollKeeps == SwapIInv /\ Poll => SwapIInv'
<1> SUFFICES ASSUME SwapIInv, Poll PROVE SwapIInv'
  OBVIOUS
<1>0. /\ step = "poll" /\ polls < Polls /\ polls' = polls + 1 /\ TypeOK /\ status = "none"
      /\ UNCHANGED <<trade, order, program, route, sold, budget, sender, chain>>
  BY DEF Poll, SwapIInv, TypeOK
<1>1. \/ Answer # "none" /\ status' = Answer /\ step' = "analyze"
      \/ status' = "EXPIRED" /\ step' = "analyze"
      \/ UNCHANGED <<status, step>>
  BY DEF Poll
<1>2. polls' \in 0..Polls
  BY <1>0, ConstantsAssumption DEF TypeOK
<1>3. TypeOK'
  BY <1>0, <1>1, <1>2 DEF TypeOK, Steps, Answer
<1>4. Ordering' /\ Trading'
  BY <1>0, <1>1, SameOrder DEF Built
<1>5. Settling'
  BY <1>0, <1>1 DEF Settling, Answer
<1> QED
  BY <1>3, <1>4, <1>5 DEF SwapIInv

LEMMA RecordKeeps == SwapIInv /\ (Analyze \/ RecordResult) => SwapIInv'
<1> SUFFICES ASSUME SwapIInv, Analyze \/ RecordResult PROVE SwapIInv'
  OBVIOUS
<1>0. /\ TypeOK /\ step \in {"analyze", "record"}
      /\ UNCHANGED <<trade, order, program, route, sold, budget, sender, chain, polls, status>>
      /\ step' \in {"failed", "record", "recorded"}
      /\ step = "record" \/ step' = "failed" \/ Landed
  BY DEF SwapIInv, Analyze, RecordResult
<1>1. TypeOK'
  BY <1>0 DEF TypeOK, Steps, Ends
<1>2. Ordering' /\ Trading'
  BY <1>0, SameOrder DEF Built
<1>3. Settling'
  BY <1>0 DEF SwapIInv, Settling, Landed
<1> QED
  BY <1>1, <1>2, <1>3 DEF SwapIInv

LEMMA Keeps == SwapIInv /\ [Next]_pathVars => SwapIInv'
<1> SUFFICES ASSUME SwapIInv, [Next]_pathVars PROVE SwapIInv'
  OBVIOUS
<1>1. CASE UNCHANGED pathVars
  BY <1>1 DEF pathVars, SwapIInv, TypeOK, Ordering, Trading, Settling, Built, Landed, Placed, Followed,
              ShareIs, Near, PartsOf, Shared, Between, TxType
<1> QED
  BY <1>1, ParseKeeps, OrderKeeps, RouteKeeps, BuildKeeps, SendKeeps, ChainKeeps, PollKeeps, RecordKeeps
     DEF Next, Step

-----------------------------------------------------------------------------
(***************************************************************************)
(* SwapPath: the theorems                                                  *)
(***************************************************************************)
LEMMA Enough == SwapIInv => Inv /\ NeverOversells
BY DEF SwapIInv, Inv, NeverOversells, AskedIsTraded, ShareFollows, RecordHonest, Ordering, Trading,
   Settling, Shared, Between, Built, CopiedSale, Emptied, Exact, Rounding

\* For every amount, decimals and number of polls: an amount that is asked for is
\* traded, or one unit less; what Jupiter is asked to sell of a copied sale follows
\* the share the wallet sold; and a record says what the chain did.
THEOREM SwapCorrect == Spec => []Inv
<1>1. Spec => []SwapIInv
  BY Initial, Keeps, PTL DEF Spec
<1> QED
  BY <1>1, Enough, PTL

\* No route ever asks the chain to sell more than the wallet holds, whatever is
\* rounded, divided by the wrong number, or taken for another unit on the way.
THEOREM NothingOversold == Spec => []NeverOversells
<1>1. Spec => []SwapIInv
  BY Initial, Keeps, PTL DEF Spec
<1> QED
  BY <1>1, Enough, PTL
=============================================================================
