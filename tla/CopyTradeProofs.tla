---------------------------- MODULE CopyTradeProofs ----------------------------
(***************************************************************************)
(* The invariant of CopyTrade, and that no acknowledged event is copied,   *)
(* for any events, copy trades, batch size, failures, edits and restarts.  *)
(***************************************************************************)
EXTENDS CopyTrade, FiniteSetTheorems, TLAPS

-----------------------------------------------------------------------------
(***************************************************************************)
(* The inductive invariant                                                 *)
(***************************************************************************)
Delivered == {stream[i] : i \in 1..lastRead}

Types ==
  /\ stream \in Seq(Event) /\ group \in BOOLEAN /\ lastRead \in 0..Len(stream)
  /\ pel \subseteq Event /\ batch \subseteq Event
  /\ rows \in [Follower -> {"on", "off", "gone"}]
  /\ main \in {"down", "setup", "pending", "replay", "loop", "dead"}
  /\ task \in [Event -> {"none", "query", "copy"}]
  /\ copy \in [Event -> [Follower -> {"prepare", "swap", "notify", "done"}]]
  /\ queued \in [Event -> [Follower -> Nat]]
  /\ unserved \in [Event -> SUBSET Follower]
  /\ acked \subseteq Event /\ missed \subseteq Event /\ excused \subseteq Event
  /\ edits \in 0..MaxEdits /\ boots \in 0..MaxBoots /\ faults \in 0..MaxFaults

Global ==
  /\ \A i, j \in DOMAIN stream : stream[i] = stream[j] => i = j
  /\ ~group => lastRead = 0
  /\ main \in {"pending", "replay", "loop"} => group
  /\ main # "down" => boots > 0
  /\ main = "replay" => \A a, b \in Working : a = b

\* Where an event is: delivered once, then pending until it is acknowledged, and
\* looked at, or excused, in every life that reads the pending events.
Kept(e) ==
  /\ e \notin Delivered => e \notin pel \cup acked
  /\ e \in Delivered => e \in pel \cup acked \cup missed
  /\ e \in pel => e \notin acked
  /\ e \in batch => e \in pel /\ task[e] = "none" /\ main = "replay"
  /\ task[e] # "none" => e \in pel /\ main \in {"replay", "loop"}
  /\ e \in pel /\ main = "replay" => e \in excused \cup batch \/ task[e] # "none"
  /\ e \in pel /\ main = "loop" => e \in excused \/ task[e] # "none"

\* The copies under way are those of the followers that are not served.
Served(e) ==
  /\ task[e] # "copy" => copy[e] = NoCopy
  /\ task[e] = "copy" => \A f \in unserved[e] : copy[e][f] # "done"
  /\ e \in acked => unserved[e] = {}

\* The event may still reach its callback in this life of the service.
Fresh(e) ==
  /\ main \notin {"down", "dead"}
  /\ \/ e \notin Delivered \/ e \in batch \/ task[e] = "query"
     \/ e \in pel /\ main \in {"setup", "pending"}

Copied(e) ==
  \A f \in Follower :
    /\ queued[e][f] <= boots
    /\ e \notin Delivered => queued[e][f] = 0
    /\ Fresh(e) \/ copy[e][f] \in {"prepare", "swap"} => queued[e][f] < boots

CopyIInv ==
  /\ Types /\ Global
  /\ \A e \in Event : Kept(e) /\ Served(e) /\ Copied(e)

-----------------------------------------------------------------------------
LEMMA Initial == Init => CopyIInv
<1> SUFFICES ASSUME Init PROVE CopyIInv
  OBVIOUS
<1> USE ConstantsAssumption
<1>1. Types
  <2>1. queued \in [Event -> [Follower -> Nat]]
    BY DEF Init
  <2>u. unserved \in [Event -> SUBSET Follower]
    BY DEF Init
  <2>2. copy \in [Event -> [Follower -> {"prepare", "swap", "notify", "done"}]]
    BY DEF Init, NoCopy
  <2>3. stream \in Seq(Event) /\ lastRead \in 0..Len(stream)
    BY DEF Init
  <2>4. edits \in 0..MaxEdits /\ boots \in 0..MaxBoots /\ faults \in 0..MaxFaults
    BY DEF Init
  <2>5. /\ rows \in [Follower -> {"on", "off", "gone"}]
        /\ task \in [Event -> {"none", "query", "copy"}]
    BY DEF Init
  <2>6. /\ group \in BOOLEAN /\ main \in {"down", "setup", "pending", "replay", "loop", "dead"}
        /\ pel \subseteq Event /\ batch \subseteq Event
        /\ acked \subseteq Event /\ missed \subseteq Event /\ excused \subseteq Event
    BY DEF Init
  <2> QED
    BY <2>1, <2>u, <2>2, <2>3, <2>4, <2>5, <2>6 DEF Types
<1>2. Delivered = {} /\ Working = {}
  BY DEF Init, Delivered, Working
<1>3. Global
  BY <1>2 DEF Global, Init
<1>4. ASSUME NEW e \in Event PROVE Kept(e) /\ Served(e) /\ Copied(e)
  <2>1. Kept(e) /\ Served(e)
    BY <1>2 DEF Kept, Served, Init
  <2>2. ASSUME NEW f \in Follower
        PROVE  queued[e][f] = 0 /\ copy[e][f] = "done" /\ boots = 0 /\ ~Fresh(e)
    BY DEF Init, NoCopy, Fresh
  <2>3. Copied(e)
    BY <2>2 DEF Copied
  <2> QED
    BY <2>1, <2>3
<1> QED
  BY <1>1, <1>3, <1>4 DEF CopyIInv

LEMMA ReplyFaults ==
  ASSUME NEW r, Reply(r), faults \in 0..MaxFaults
  PROVE  faults' \in 0..MaxFaults
BY ConstantsAssumption DEF Reply

\* A step of the task of e leaves the other events where they are.
LEMMA OneTask ==
  ASSUME CopyIInv, NEW e \in Event, task[e] # "none", Types',
         UNCHANGED <<stream, group, lastRead, main, batch, boots, missed>>,
         excused \subseteq excused',
         \A x \in Event \ {e} :
           /\ task'[x] = task[x] /\ copy'[x] = copy[x]
           /\ queued'[x] = queued[x] /\ unserved'[x] = unserved[x]
           /\ x \in pel' <=> x \in pel
           /\ x \in acked' <=> x \in acked,
         Kept(e)' /\ Served(e)' /\ Copied(e)'
  PROVE  CopyIInv'
<1>1. Delivered' = Delivered
  BY DEF Delivered
<1>2. ASSUME NEW x \in Event, x # e PROVE Kept(x)' /\ Served(x)' /\ Copied(x)'
  <2>0. Kept(x) /\ Served(x) /\ Copied(x)
    BY DEF CopyIInv
  <2>1. Kept(x)'
    BY <1>1, <1>2, <2>0 DEF Kept
  <2>2. Served(x)'
    BY <1>2, <2>0 DEF Served, NoCopy
  <2>3. Copied(x)'
    BY <1>1, <1>2, <2>0 DEF Copied, Fresh
  <2> QED
    BY <2>1, <2>2, <2>3
<1>3. Global'
  <2>1. Working' \subseteq Working
    BY DEF Working
  <2> QED
    BY <2>1 DEF CopyIInv, Global
<1> QED
  BY <1>2, <1>3 DEF CopyIInv

\* What the invariant says of the event a task works on.
LEMMA AtWork ==
  ASSUME CopyIInv, NEW e \in Event, task[e] # "none"
  PROVE  /\ Types /\ e \in pel /\ e \notin acked /\ e \notin batch /\ e \in Delivered
         /\ main \in {"replay", "loop"}
         /\ Kept(e) /\ Served(e) /\ Copied(e)
         /\ boots \in Nat /\ queued[e] \in [Follower -> Nat]
BY DEF CopyIInv, Types, Kept

LEMMA EndTaskIs ==
  ASSUME Types, NEW e \in Event, EndTask(e)
  PROVE  /\ task' \in [Event -> {"none", "query", "copy"}]
         /\ copy' \in [Event -> [Follower -> {"prepare", "swap", "notify", "done"}]]
         /\ task'[e] = "none" /\ copy'[e] = NoCopy
         /\ \A x \in Event \ {e} : task'[x] = task[x] /\ copy'[x] = copy[x]
<1>1. NoCopy \in [Follower -> {"prepare", "swap", "notify", "done"}]
  BY DEF NoCopy
<1>2. task' \in [Event -> {"none", "query", "copy"}] /\ task'[e] = "none"
  BY DEF Types, EndTask
<1>3. copy' \in [Event -> [Follower -> {"prepare", "swap", "notify", "done"}]] /\ copy'[e] = NoCopy
  BY <1>1 DEF Types, EndTask
<1> QED
  BY <1>2, <1>3 DEF Types, EndTask

LEMMA QueryKeeps ==
  ASSUME CopyIInv, NEW e \in Event, Query(e)
  PROVE  CopyIInv'
<1>0. task[e] = "query"
  BY DEF Query
<1>1. /\ Types /\ e \in pel /\ e \notin acked /\ e \notin batch /\ e \in Delivered
      /\ main \in {"replay", "loop"}
      /\ Kept(e) /\ Served(e) /\ Copied(e)
  BY <1>0, AtWork
<1>2. UNCHANGED <<stream, group, lastRead, pel, rows, main, batch, queued, acked, missed, edits, boots>>
      /\ Delivered' = Delivered
  BY DEF Query, redis, Delivered
<1>3. \A f \in Follower : queued[e][f] < boots /\ queued[e][f] <= boots
  BY <1>0, <1>1 DEF Copied, Fresh
<1>4. CASE Reply("refused") /\ EndTask(e) /\ excused' = excused \cup {e} /\ UNCHANGED unserved
  <2>1. /\ task' \in [Event -> {"none", "query", "copy"}]
        /\ copy' \in [Event -> [Follower -> {"prepare", "swap", "notify", "done"}]]
        /\ task'[e] = "none" /\ copy'[e] = NoCopy
        /\ \A x \in Event \ {e} : task'[x] = task[x] /\ copy'[x] = copy[x]
    BY <1>1, <1>4, EndTaskIs
  <2>2. faults' \in 0..MaxFaults
    BY <1>1, <1>4, ReplyFaults DEF Types
  <2>3. Types'
    BY <1>1, <1>2, <1>4, <2>1, <2>2 DEF Types
  <2>4. Kept(e)' /\ Served(e)'
    BY <1>1, <1>2, <1>4, <2>1 DEF Kept, Served, NoCopy
  <2>5. Copied(e)'
    BY <1>1, <1>2, <1>3, <2>1 DEF Copied
  <2> QED
    BY <1>0, <1>2, <1>4, <2>1, <2>3, <2>4, <2>5, OneTask
<1>5. CASE /\ Reply("ok") /\ task' = [task EXCEPT ![e] = "copy"]
           /\ LET found == {f \in Follower : rows[f] # "gone"} IN
              /\ copy' = [copy EXCEPT ![e] =
                            [f \in Follower |-> IF f \in found THEN "prepare" ELSE "done"]]
              /\ unserved' = [unserved EXCEPT ![e] = found]
           /\ UNCHANGED excused
  <2> DEFINE found == {f \in Follower : rows[f] # "gone"}
             started == [f \in Follower |-> IF f \in found THEN "prepare" ELSE "done"]
  <2>1. started \in [Follower -> {"prepare", "swap", "notify", "done"}] /\ found \subseteq Follower
        /\ \A f \in Follower : started[f] = IF f \in found THEN "prepare" ELSE "done"
    OBVIOUS
  <2>2. /\ copy' = [copy EXCEPT ![e] = started] /\ unserved' = [unserved EXCEPT ![e] = found]
        /\ task' = [task EXCEPT ![e] = "copy"]
    BY <1>5
  <2> HIDE DEF found, started
  <2>3. /\ task' \in [Event -> {"none", "query", "copy"}] /\ task'[e] = "copy"
        /\ \A x \in Event \ {e} : task'[x] = task[x]
    BY <1>1, <2>2 DEF Types
  <2>4. /\ copy' \in [Event -> [Follower -> {"prepare", "swap", "notify", "done"}]]
        /\ copy'[e] = started
        /\ \A x \in Event \ {e} : copy'[x] = copy[x]
    BY <1>1, <2>1, <2>2 DEF Types
  <2>5. /\ unserved' \in [Event -> SUBSET Follower] /\ unserved'[e] = found
        /\ \A x \in Event \ {e} : unserved'[x] = unserved[x]
    BY <1>1, <2>1, <2>2 DEF Types
  <2>6. faults' \in 0..MaxFaults
    BY <1>1, <1>5, ReplyFaults DEF Types
  <2>7. Types'
    BY <1>1, <1>2, <1>5, <2>3, <2>4, <2>5, <2>6 DEF Types
  <2>8. Kept(e)'
    BY <1>1, <1>2, <1>5, <2>3 DEF Kept
  <2>9. Served(e)'
    BY <1>1, <1>2, <2>1, <2>3, <2>4, <2>5 DEF Served
  <2>10. Copied(e)'
    BY <1>1, <1>2, <1>3 DEF Copied
  <2> QED
    BY <1>0, <1>2, <1>5, <2>3, <2>4, <2>5, <2>7, <2>8, <2>9, <2>10, OneTask
<1> QED
  BY <1>4, <1>5 DEF Query

LEMMA AckKeeps ==
  ASSUME CopyIInv, NEW e \in Event, Ack(e)
  PROVE  CopyIInv'
<1>0. task[e] = "copy" /\ copy[e] = NoCopy
  BY DEF Ack
<1>1. /\ Types /\ e \in pel /\ e \notin acked /\ e \notin batch /\ e \in Delivered
      /\ main \in {"replay", "loop"}
      /\ Kept(e) /\ Served(e) /\ Copied(e)
  BY <1>0, AtWork
<1>2. /\ UNCHANGED <<stream, group, lastRead, rows, main, batch, queued, unserved, missed, edits, boots>>
      /\ Delivered' = Delivered /\ EndTask(e)
  BY DEF Ack, Delivered
<1>3. PICK r \in Replies :
        /\ Reply(r)
        /\ IF r = "refused" THEN excused' = excused \cup {e} /\ UNCHANGED <<pel, acked>>
           ELSE pel' = pel \ {e} /\ acked' = acked \cup {e} /\ UNCHANGED excused
  BY DEF Ack
<1>4. /\ task' \in [Event -> {"none", "query", "copy"}]
      /\ copy' \in [Event -> [Follower -> {"prepare", "swap", "notify", "done"}]]
      /\ task'[e] = "none" /\ copy'[e] = NoCopy
      /\ \A x \in Event \ {e} : task'[x] = task[x] /\ copy'[x] = copy[x]
  BY <1>1, <1>2, EndTaskIs
<1>5. faults' \in 0..MaxFaults
  BY <1>1, <1>3, ReplyFaults DEF Types
<1>6. unserved[e] = {}
  <2>1. \A f \in Follower : copy[e][f] = "done"
    BY <1>0 DEF NoCopy
  <2>2. unserved[e] \subseteq Follower
    BY <1>1 DEF Types
  <2> QED
    BY <1>0, <1>1, <2>1, <2>2 DEF Served
<1>7. Types'
  BY <1>1, <1>2, <1>3, <1>4, <1>5 DEF Types
<1>8. Served(e)'
  BY <1>2, <1>4, <1>6 DEF Served, NoCopy
<1>9. Kept(e)'
  BY <1>1, <1>2, <1>3, <1>4 DEF Kept
<1>10. Copied(e)'
  <2>1. \A f \in Follower : copy'[e][f] = "done"
    BY <1>4 DEF NoCopy
  <2>2. ~Fresh(e)'
    BY <1>1, <1>2, <1>4 DEF Fresh
  <2> QED
    BY <1>1, <1>2, <2>1, <2>2 DEF Copied
<1>11. \A x \in Event \ {e} : (x \in pel' <=> x \in pel) /\ (x \in acked' <=> x \in acked)
  BY <1>3
<1> QED
  BY <1>0, <1>2, <1>3, <1>4, <1>7, <1>8, <1>9, <1>10, <1>11, OneTask

LEMMA GoesIs ==
  ASSUME Types, NEW e \in Event, NEW f \in Follower,
         NEW stage \in {"prepare", "swap", "notify", "done"}, Goes(e, f, stage)
  PROVE  /\ copy' \in [Event -> [Follower -> {"prepare", "swap", "notify", "done"}]]
         /\ copy'[e][f] = stage
         /\ \A g \in Follower \ {f} : copy'[e][g] = copy[e][g]
         /\ \A x \in Event \ {e} : copy'[x] = copy[x]
BY DEF Types, Goes

\* A copy under way belongs to a task that waits for its copies.
LEMMA Copying ==
  ASSUME CopyIInv, NEW e \in Event, NEW f \in Follower, copy[e][f] # "done"
  PROVE  task[e] = "copy"
BY DEF CopyIInv, Served, NoCopy

\* One copy of the event e goes to its next stage.
LEMMA OneCopy ==
  ASSUME CopyIInv, NEW e \in Event, NEW f \in Follower, copy[e][f] # "done",
         NEW stage \in {"swap", "notify", "done"}, Goes(e, f, stage),
         UNCHANGED <<redis, rows, main, batch, task, acked, missed, excused, edits, boots>>,
         faults' \in 0..MaxFaults,
         queued' \in [Event -> [Follower -> Nat]],
         \A x \in Event \ {e} : queued'[x] = queued[x],
         \A g \in Follower \ {f} : queued'[e][g] = queued[e][g],
         queued'[e][f] <= boots, stage = "swap" => queued'[e][f] < boots,
         unserved' = IF stage = "done" THEN [unserved EXCEPT ![e] = @ \ {f}] ELSE unserved
  PROVE  CopyIInv'
<1>0. task[e] = "copy"
  BY Copying
<1>1. /\ Types /\ e \in pel /\ e \notin acked /\ e \notin batch /\ e \in Delivered
      /\ main \in {"replay", "loop"}
      /\ Kept(e) /\ Served(e) /\ Copied(e)
  BY <1>0, AtWork
<1>2. /\ copy' \in [Event -> [Follower -> {"prepare", "swap", "notify", "done"}]]
      /\ copy'[e][f] = stage
      /\ \A g \in Follower \ {f} : copy'[e][g] = copy[e][g]
      /\ \A x \in Event \ {e} : copy'[x] = copy[x]
  BY <1>1, GoesIs
<1>3. /\ unserved' \in [Event -> SUBSET Follower]
      /\ \A x \in Event \ {e} : unserved'[x] = unserved[x]
      /\ unserved'[e] = IF stage = "done" THEN unserved[e] \ {f} ELSE unserved[e]
  BY <1>1 DEF Types
<1>4. Types'
  BY <1>1, <1>2, <1>3 DEF Types, redis
<1>5. Delivered' = Delivered
  BY DEF Delivered, redis
<1>6. Kept(e)'
  BY <1>1, <1>5 DEF Kept, redis
<1>7. Served(e)'
  <2>1. ASSUME NEW g \in unserved'[e] PROVE copy'[e][g] # "done"
    <3>1. g \in Follower /\ g \in unserved[e] /\ copy[e][g] # "done"
      BY <1>0, <1>1, <1>3, <2>1 DEF Types, Served
    <3>2. CASE g = f
      BY <1>2, <1>3, <2>1, <3>2
    <3>3. CASE g # f
      BY <1>2, <3>1, <3>3
    <3> QED
      BY <3>2, <3>3
  <2> QED
    BY <1>0, <1>1, <2>1 DEF Served
<1>8. Copied(e)'
  <2>0. ~Fresh(e)'
    BY <1>0, <1>1, <1>5 DEF Fresh, redis
  <2>1. ASSUME NEW g \in Follower
        PROVE  /\ queued'[e][g] <= boots
               /\ copy'[e][g] \in {"prepare", "swap"} => queued'[e][g] < boots
    <3>1. CASE g = f
      BY <1>2, <3>1
    <3>2. CASE g # f
      BY <1>1, <1>2, <3>2 DEF Copied
    <3> QED
      BY <3>1, <3>2
  <2> QED
    BY <1>1, <1>5, <2>0, <2>1 DEF Copied
<1> QED
  BY <1>0, <1>2, <1>3, <1>4, <1>6, <1>7, <1>8, OneTask DEF redis

LEMMA CopyKeeps ==
  ASSUME CopyIInv, NEW e \in Event, NEW f \in Follower,
         Prepare(e, f) \/ QueueSwap(e, f) \/ Notify(e, f)
  PROVE  CopyIInv'
<1>0. /\ Types /\ Copied(e) /\ faults \in 0..MaxFaults /\ boots \in Nat
      /\ queued \in [Event -> [Follower -> Nat]] /\ queued[e][f] \in Nat
  BY DEF CopyIInv, Types
<1>1. CASE Prepare(e, f)
  <2>1. /\ copy[e][f] = "prepare"
        /\ \/ Goes(e, f, "swap") /\ unserved' = unserved
           \/ Goes(e, f, "done") /\ unserved' = [unserved EXCEPT ![e] = @ \ {f}]
        /\ UNCHANGED <<redis, rows, main, batch, task, queued, acked, missed, excused, edits, boots, faults>>
    BY <1>1 DEF Prepare, Serves, bounds
  <2>2. queued[e][f] < boots /\ queued[e][f] <= boots
    BY <1>0, <2>1 DEF Copied
  <2> QED
    BY <1>0, <2>1, <2>2, OneCopy
<1>2. CASE QueueSwap(e, f)
  <2>1. PICK r \in Replies :
          /\ Reply(r)
          /\ queued' = [queued EXCEPT ![e][f] = IF r = "refused" THEN @ ELSE @ + 1]
    BY <1>2 DEF QueueSwap
  <2>2. /\ copy[e][f] = "swap" /\ Goes(e, f, "notify")
        /\ UNCHANGED <<redis, rows, main, batch, task, unserved, acked, missed, excused, edits, boots>>
    BY <1>2 DEF QueueSwap
  <2>3. queued[e][f] < boots
    BY <1>0, <2>2 DEF Copied
  <2>4. /\ queued' \in [Event -> [Follower -> Nat]]
        /\ queued'[e][f] = IF r = "refused" THEN queued[e][f] ELSE queued[e][f] + 1
        /\ \A x \in Event \ {e} : queued'[x] = queued[x]
        /\ \A g \in Follower \ {f} : queued'[e][g] = queued[e][g]
    BY <1>0, <2>1
  <2>5. queued'[e][f] <= boots
    BY <1>0, <2>3, <2>4
  <2>6. faults' \in 0..MaxFaults
    BY <1>0, <2>1, ReplyFaults
  <2> QED
    BY <2>2, <2>4, <2>5, <2>6, OneCopy
<1>3. CASE Notify(e, f)
  <2>1. PICK r \in {"ok", "refused"} : Reply(r)
    BY <1>3 DEF Notify
  <2>2. /\ copy[e][f] = "notify" /\ Goes(e, f, "done")
        /\ unserved' = [unserved EXCEPT ![e] = @ \ {f}]
        /\ UNCHANGED <<redis, rows, main, batch, task, queued, acked, missed, excused, edits, boots>>
    BY <1>3 DEF Notify, Serves
  <2>3. queued[e][f] <= boots
    BY <1>0 DEF Copied
  <2>4. faults' \in 0..MaxFaults
    BY <1>0, <2>1, ReplyFaults
  <2> QED
    BY <1>0, <2>2, <2>3, <2>4, OneCopy
<1> QED
  BY <1>1, <1>2, <1>3

-----------------------------------------------------------------------------
\* A published event is new to the stream and delivered by no group yet.
LEMMA PublishKeeps ==
  ASSUME CopyIInv, NEW e \in Event, Publish(e)
  PROVE  CopyIInv'
<1>0. Types /\ Global
  BY DEF CopyIInv
<1>1. stream \in Seq(Event) /\ Len(stream) \in Nat /\ lastRead \in 0..Len(stream)
  BY <1>0 DEF Types
<1>2. /\ stream' = Append(stream, e) /\ e \notin Published
      /\ UNCHANGED <<group, lastRead, pel, rows, main, batch, task, copy>>
      /\ UNCHANGED <<queued, unserved, acked, missed, excused, edits, boots, faults>>
  BY DEF Publish, history, bounds
<1>3. stream' \in Seq(Event) /\ Len(stream') = Len(stream) + 1 /\ DOMAIN stream' = 1..(Len(stream) + 1)
      /\ DOMAIN stream = 1..Len(stream)
  BY <1>1, <1>2
<1>4. \A i \in 1..Len(stream) : stream'[i] = stream[i]
  BY <1>1, <1>2
<1>5. stream'[Len(stream) + 1] = e
  BY <1>1, <1>2
<1>6. \A i \in 1..Len(stream) : stream[i] # e
  BY <1>2, <1>3 DEF Published
<1>7. ASSUME NEW i \in DOMAIN stream', NEW j \in DOMAIN stream', stream'[i] = stream'[j]
      PROVE  i = j
  <2>1. i \in 1..Len(stream) \/ i = Len(stream) + 1
    BY <1>1, <1>3
  <2>2. j \in 1..Len(stream) \/ j = Len(stream) + 1
    BY <1>1, <1>3
  <2> QED
    BY <1>0, <1>3, <1>4, <1>5, <1>6, <1>7, <2>1, <2>2 DEF Global
<1>8. 1..lastRead \subseteq 1..Len(stream) /\ lastRead \in 0..Len(stream')
  BY <1>1, <1>3
<1>9. Delivered' = Delivered
  BY <1>2, <1>4, <1>8 DEF Delivered
<1>10. Types'
  BY <1>0, <1>2, <1>3, <1>8 DEF Types
<1>11. Global'
  BY <1>0, <1>2, <1>7 DEF Global, Working
<1>12. ASSUME NEW x \in Event PROVE Kept(x)' /\ Served(x)' /\ Copied(x)'
  BY <1>2, <1>9 DEF CopyIInv, Kept, Served, NoCopy, Copied, Fresh
<1> QED
  BY <1>10, <1>11, <1>12 DEF CopyIInv

LEMMA EditKeeps ==
  ASSUME CopyIInv, NEW f \in Follower, NEW s \in {"on", "off", "gone"}, EditRow(f, s)
  PROVE  CopyIInv'
<1>0. Types /\ Global
  BY DEF CopyIInv
<1>1. /\ UNCHANGED <<stream, group, lastRead, pel, main, batch, task, copy>>
      /\ UNCHANGED <<queued, unserved, acked, missed, excused, boots, faults>>
      /\ rows' = [rows EXCEPT ![f] = s] /\ edits < MaxEdits /\ edits' = edits + 1
  BY DEF EditRow, redis, history
<1>2. Delivered' = Delivered /\ Working' = Working
  BY <1>1 DEF Delivered, Working
<1>3. edits' \in 0..MaxEdits
  BY <1>0, <1>1, ConstantsAssumption DEF Types
<1>4. rows' \in [Follower -> {"on", "off", "gone"}]
  BY <1>0, <1>1 DEF Types
<1>5. Types'
  BY <1>0, <1>1, <1>3, <1>4 DEF Types
<1>6. Global'
  BY <1>0, <1>1, <1>2 DEF Global
<1>7. ASSUME NEW x \in Event PROVE Kept(x)' /\ Served(x)' /\ Copied(x)'
  BY <1>1, <1>2 DEF CopyIInv, Kept, Served, NoCopy, Copied, Fresh
<1> QED
  BY <1>5, <1>6, <1>7 DEF CopyIInv

\* A new life of the service may hand every pending event over once more.
LEMMA BootKeeps ==
  ASSUME CopyIInv, Boot
  PROVE  CopyIInv'
<1>0. Types /\ Global /\ boots \in Nat
  BY DEF CopyIInv, Types
<1>1. /\ UNCHANGED <<stream, group, lastRead, pel, rows, batch, task, copy>>
      /\ UNCHANGED <<queued, unserved, acked, missed, excused, edits, faults>>
      /\ main = "down" /\ main' = "setup" /\ boots < MaxBoots /\ boots' = boots + 1
  BY DEF Boot, redis, history
<1>2. Delivered' = Delivered /\ Working' = Working
  BY <1>1 DEF Delivered, Working
<1>3. boots' \in 0..MaxBoots /\ boots' > 0
  BY <1>0, <1>1, ConstantsAssumption DEF Types
<1>4. Types'
  BY <1>0, <1>1, <1>3 DEF Types
<1>5. Global'
  BY <1>0, <1>1, <1>2, <1>3 DEF Global
<1>6. ASSUME NEW x \in Event PROVE Kept(x)' /\ Served(x)' /\ Copied(x)'
  <2>0. Kept(x) /\ Served(x) /\ Copied(x)
    BY DEF CopyIInv
  <2>1. Kept(x)' /\ Served(x)'
    BY <1>1, <1>2, <2>0 DEF Kept, Served, NoCopy
  <2>2. ASSUME NEW f \in Follower
        PROVE  /\ queued'[x][f] < boots' /\ queued'[x][f] <= boots'
               /\ x \notin Delivered' => queued'[x][f] = 0
    <3>1. queued[x][f] \in Nat /\ queued[x][f] <= boots
      BY <1>0, <2>0 DEF Types, Copied
    <3>2. queued[x][f] < boots + 1 /\ queued[x][f] <= boots + 1
      BY <1>0, <3>1
    <3> QED
      BY <1>1, <1>2, <2>0, <3>2 DEF Copied
  <2>3. Copied(x)'
    BY <2>2 DEF Copied
  <2> QED
    BY <2>1, <2>3
<1> QED
  BY <1>4, <1>5, <1>6 DEF CopyIInv

LEMMA StopKeeps ==
  ASSUME CopyIInv, NEW next \in {"down", "dead"}, Stop(next)
  PROVE  CopyIInv'
<1>0. Types /\ Global
  BY DEF CopyIInv
<1>1. /\ UNCHANGED <<stream, group, lastRead, pel, rows>>
      /\ UNCHANGED <<queued, unserved, acked, missed, excused, edits, boots, faults>>
      /\ main # "down" /\ main' = next /\ batch' = {}
      /\ task' = [e \in Event |-> "none"] /\ copy' = [e \in Event |-> NoCopy]
  BY DEF Stop, redis, history, bounds
<1>2. Delivered' = Delivered
  BY <1>1 DEF Delivered
<1>3. \A x \in Event : task'[x] = "none" /\ copy'[x] = NoCopy
  BY <1>1
<1>4. Types'
  <2>1. NoCopy \in [Follower -> {"prepare", "swap", "notify", "done"}]
    BY DEF NoCopy
  <2>2. task' \in [Event -> {"none", "query", "copy"}]
    BY <1>1
  <2>3. copy' \in [Event -> [Follower -> {"prepare", "swap", "notify", "done"}]]
    BY <1>1, <2>1
  <2> QED
    BY <1>0, <1>1, <2>2, <2>3 DEF Types
<1>5. Global'
  BY <1>0, <1>1 DEF Global
<1>6. ASSUME NEW x \in Event PROVE Kept(x)' /\ Served(x)' /\ Copied(x)'
  <2>0. Kept(x) /\ Served(x) /\ Copied(x)
    BY DEF CopyIInv
  <2>1. Kept(x)'
    BY <1>1, <1>2, <1>3, <2>0 DEF Kept
  <2>2. Served(x)'
    BY <1>1, <1>3, <2>0 DEF Served, NoCopy
  <2>3. \A f \in Follower : copy'[x][f] = "done"
    BY <1>3 DEF NoCopy
  <2>4. Copied(x)'
    BY <1>1, <1>2, <2>0, <2>3 DEF Copied, Fresh
  <2> QED
    BY <2>1, <2>2, <2>4
<1> QED
  BY <1>4, <1>5, <1>6 DEF CopyIInv

\* A new group has delivered nothing: what is in the stream is missed.
LEMMA SetupKeeps ==
  ASSUME CopyIInv, Setup
  PROVE  CopyIInv'
<1>0. Types /\ Global /\ main = "setup"
  BY DEF CopyIInv, Setup
<1>1. PICK r \in Replies :
        /\ Reply(r)
        /\ main' = IF r = "ok" THEN "pending" ELSE "dead"
        /\ IF group \/ r = "refused" THEN UNCHANGED <<group, lastRead, missed>>
           ELSE group' = TRUE /\ lastRead' = Len(stream) /\ missed' = Published
  BY DEF Setup
<1>2. /\ UNCHANGED <<stream, pel, rows, batch, task, copy>>
      /\ UNCHANGED <<queued, unserved, acked, excused, edits, boots>>
  BY DEF Setup
<1>3. faults' \in 0..MaxFaults
  BY <1>0, <1>1, ReplyFaults DEF Types
<1>4. Working' = Working
  BY <1>2 DEF Working
<1>5. Global'
  BY <1>0, <1>1, <1>2, <1>4 DEF Global
<1>6. CASE group \/ r = "refused"
  <2>1. UNCHANGED <<group, lastRead, missed>> /\ Delivered' = Delivered
    BY <1>1, <1>2, <1>6 DEF Delivered
  <2>2. Types'
    BY <1>0, <1>1, <1>2, <1>3, <2>1 DEF Types
  <2>3. ASSUME NEW x \in Event PROVE Kept(x)' /\ Served(x)' /\ Copied(x)'
    <3>1. Kept(x) /\ Served(x) /\ Copied(x)
      BY DEF CopyIInv
    <3>2. Kept(x)' /\ Served(x)'
      BY <1>0, <1>1, <1>2, <2>1, <3>1 DEF Kept, Served, NoCopy
    <3>3. Copied(x)'
      BY <1>0, <1>1, <1>2, <2>1, <3>1 DEF Copied, Fresh
    <3> QED
      BY <3>2, <3>3
  <2> QED
    BY <1>5, <2>2, <2>3 DEF CopyIInv
<1>7. CASE ~(group \/ r = "refused")
  <2>0. stream \in Seq(Event) /\ Len(stream) \in Nat /\ DOMAIN stream = 1..Len(stream)
    BY <1>0 DEF Types
  <2>1. group' = TRUE /\ lastRead' = Len(stream) /\ missed' = Published
    BY <1>1, <1>7
  <2>2. Delivered = {}
    BY <1>0, <1>7 DEF Global, Delivered
  <2>3. Delivered' = Published /\ Published \subseteq Event
    BY <1>2, <2>0, <2>1 DEF Delivered, Published
  <2>4. lastRead' \in 0..Len(stream')
    BY <1>2, <2>0, <2>1
  <2>5. Types'
    BY <1>0, <1>1, <1>2, <1>3, <2>1, <2>3, <2>4 DEF Types
  <2>6. ASSUME NEW x \in Event PROVE Kept(x)' /\ Served(x)' /\ Copied(x)'
    <3>1. Kept(x) /\ Served(x) /\ Copied(x)
      BY DEF CopyIInv
    <3>2. x \notin pel /\ x \notin acked /\ task[x] = "none" /\ x \notin batch
      BY <1>0, <2>2, <3>1 DEF Kept, Types
    <3>3. Kept(x)' /\ Served(x)'
      BY <1>0, <1>1, <1>2, <2>1, <2>3, <3>1, <3>2 DEF Kept, Served, NoCopy
    <3>4. ~Fresh(x)' \/ x \notin Delivered'
      BY <1>2, <3>2 DEF Fresh
    <3>5. boots > 0 /\ boots \in Nat
      BY <1>0 DEF Global, Types
    <3>6. ASSUME NEW f \in Follower PROVE queued[x][f] = 0 /\ copy[x][f] = "done"
      BY <2>2, <3>1, <3>2 DEF Copied, Served, NoCopy
    <3>7. Copied(x)'
      BY <1>2, <3>5, <3>6 DEF Copied
    <3> QED
      BY <3>3, <3>7
  <2> QED
    BY <1>5, <2>5, <2>6 DEF CopyIInv
<1> QED
  BY <1>6, <1>7

\* Before the pending events are read no task runs, and each of them is either
\* taken up now or left with a reason.
LEMMA ReadPendingKeeps ==
  ASSUME CopyIInv, ReadPending
  PROVE  CopyIInv'
<1>0. Types /\ Global /\ main = "pending"
  BY DEF CopyIInv, ReadPending
<1>1. /\ UNCHANGED <<stream, group, lastRead, pel, rows, task, copy>>
      /\ UNCHANGED <<queued, unserved, acked, missed, edits, boots>>
  BY DEF ReadPending, redis
<1>2. PICK r \in Replies \ {"lost"} :
        /\ Reply(r)
        /\ IF r = "ok"
           THEN /\ batch' = {e \in pel :
                      Cardinality({o \in pel : IdOf(o) <= IdOf(e)}) <= BatchSize}
                /\ excused' = pel \ batch' /\ main' = "replay"
           ELSE UNCHANGED batch /\ excused' = pel /\ main' = "loop"
  BY DEF ReadPending
<1>3. \A x \in Event : x \notin batch /\ task[x] = "none"
  BY <1>0 DEF CopyIInv, Kept, Types
<1>4. batch = {}
  BY <1>0, <1>3 DEF Types
<1>5. faults' \in 0..MaxFaults
  BY <1>0, <1>2, ReplyFaults DEF Types
<1>6. /\ batch' \subseteq pel /\ excused' = pel \ batch'
      /\ main' \in {"replay", "loop"} /\ (main' = "loop" => batch' = {})
  BY <1>2, <1>4
<1>7. Delivered' = Delivered /\ Working' = {}
  BY <1>1, <1>3 DEF Delivered, Working
<1>8. Types'
  BY <1>0, <1>1, <1>5, <1>6 DEF Types
<1>9. Global'
  BY <1>0, <1>1, <1>6, <1>7 DEF Global
<1>10. ASSUME NEW x \in Event PROVE Kept(x)' /\ Served(x)' /\ Copied(x)'
  <2>0. Kept(x) /\ Served(x) /\ Copied(x)
    BY DEF CopyIInv
  <2>1. Kept(x)'
    BY <1>0, <1>1, <1>3, <1>6, <1>7, <2>0 DEF Kept
  <2>2. Served(x)'
    BY <1>1, <2>0 DEF Served, NoCopy
  <2>3. Fresh(x)' => Fresh(x)
    BY <1>0, <1>1, <1>3, <1>6, <1>7 DEF Fresh
  <2>4. Copied(x)'
    BY <1>1, <1>7, <2>0, <2>3 DEF Copied
  <2> QED
    BY <2>1, <2>2, <2>4
<1> QED
  BY <1>8, <1>9, <1>10 DEF CopyIInv

\* process_pending takes up the next event, when no other is worked on.
LEMMA ReplayKeeps ==
  ASSUME CopyIInv, Replay
  PROVE  CopyIInv'
<1>0. Types /\ Global /\ main = "replay" /\ Working = {}
  BY DEF CopyIInv, Replay
<1>1. /\ UNCHANGED <<stream, group, lastRead, pel, rows, copy>>
      /\ UNCHANGED <<queued, unserved, acked, missed, excused, edits, boots, faults>>
      /\ Delivered' = Delivered
  BY DEF Replay, redis, history, bounds, Delivered
<1>2. \A x \in Event : task[x] = "none"
  BY <1>0 DEF Working
<1>3. CASE batch = {} /\ main' = "loop" /\ UNCHANGED <<batch, task>>
  <2>1. Types'
    BY <1>0, <1>1, <1>3 DEF Types
  <2>2. Global'
    BY <1>0, <1>1, <1>3 DEF Global
  <2>3. ASSUME NEW x \in Event PROVE Kept(x)' /\ Served(x)' /\ Copied(x)'
    <3>0. Kept(x) /\ Served(x) /\ Copied(x)
      BY DEF CopyIInv
    <3>1. Kept(x)' /\ Served(x)'
      BY <1>0, <1>1, <1>2, <1>3, <3>0 DEF Kept, Served, NoCopy
    <3>2. Copied(x)'
      BY <1>0, <1>1, <1>3, <3>0 DEF Copied, Fresh
    <3> QED
      BY <3>1, <3>2
  <2> QED
    BY <2>1, <2>2, <2>3 DEF CopyIInv
<1>4. CASE \E e \in batch :
             /\ task' = [task EXCEPT ![e] = "query"]
             /\ batch' = batch \ {e} /\ UNCHANGED main
  <2>1. PICK e \in batch :
          /\ task' = [task EXCEPT ![e] = "query"]
          /\ batch' = batch \ {e} /\ UNCHANGED main
    BY <1>4
  <2>2. e \in Event
    BY <1>0 DEF Types
  <2>3. /\ task' \in [Event -> {"none", "query", "copy"}] /\ task'[e] = "query"
        /\ \A x \in Event \ {e} : task'[x] = task[x]
    BY <1>0, <2>1, <2>2 DEF Types
  <2>4. Types'
    BY <1>0, <1>1, <2>1, <2>3 DEF Types
  <2>5. Working' \subseteq {e}
    BY <1>2, <2>3 DEF Working
  <2>6. Global'
    BY <1>0, <1>1, <2>1, <2>5 DEF Global
  <2>7. ASSUME NEW x \in Event PROVE Kept(x)' /\ Served(x)' /\ Copied(x)'
    <3>0. Kept(x) /\ Served(x) /\ Copied(x)
      BY DEF CopyIInv
    <3>1. CASE x = e
      <4>1. Kept(x)' /\ Served(x)'
        BY <1>0, <1>1, <1>2, <2>1, <2>3, <3>0, <3>1 DEF Kept, Served, NoCopy
      <4>2. Fresh(x)
        BY <1>0, <2>1, <3>1 DEF Fresh
      <4>3. Copied(x)'
        BY <1>1, <3>0, <4>2 DEF Copied
      <4> QED
        BY <4>1, <4>3
    <3>2. CASE x # e
      <4>1. task'[x] = "none" /\ (x \in batch' <=> x \in batch) /\ main' = "replay"
        BY <1>0, <1>2, <2>1, <2>3, <3>2
      <4>2. Kept(x)' /\ Served(x)'
        BY <1>0, <1>1, <1>2, <3>0, <4>1 DEF Kept, Served, NoCopy
      <4>3. Copied(x)'
        BY <1>0, <1>1, <1>2, <3>0, <4>1 DEF Copied, Fresh
      <4> QED
        BY <4>2, <4>3
    <3> QED
      BY <3>1, <3>2
  <2> QED
    BY <2>4, <2>6, <2>7 DEF CopyIInv
<1> QED
  BY <1>3, <1>4 DEF Replay

\* The entries a read delivers are delivered for the first time.
LEMMA DeliverKeeps ==
  ASSUME CopyIInv, Deliver
  PROVE  CopyIInv'
<1>0. Types /\ Global /\ main = "loop" /\ lastRead < Len(stream)
  BY DEF CopyIInv, Deliver
<1>1. /\ stream \in Seq(Event) /\ Len(stream) \in Nat /\ DOMAIN stream = 1..Len(stream)
      /\ lastRead \in Nat /\ lastRead <= Len(stream)
  BY <1>0 DEF Types
<1>2. /\ UNCHANGED <<stream, group, rows, main, batch, copy>>
      /\ UNCHANGED <<queued, unserved, acked, missed, edits, boots>>
  BY DEF Deliver
<1>3. lastRead' \in Nat /\ lastRead <= lastRead' /\ lastRead' <= Len(stream)
  <2>1. lastRead' = IF lastRead + BatchSize < Len(stream) THEN lastRead + BatchSize ELSE Len(stream)
    BY DEF Deliver
  <2> QED
    BY <1>1, <2>1, ConstantsAssumption
<1> DEFINE new == {stream[i] : i \in (lastRead + 1)..lastRead'}
<1>4. /\ pel' = pel \cup new
      /\ \/ /\ Reply("ok") /\ UNCHANGED excused
            /\ task' = [e \in Event |-> IF e \in new THEN "query" ELSE task[e]]
         \/ Reply("lost") /\ excused' = excused \cup new /\ UNCHANGED task
  BY DEF Deliver
<1>5. Delivered' = Delivered \cup new
  <2>1. 1..lastRead' = (1..lastRead) \cup ((lastRead + 1)..lastRead')
    BY <1>1, <1>3
  <2> QED
    BY <1>2, <2>1 DEF Delivered
<1>6. \A x \in new : x \in Event /\ x \notin Delivered
  <2> SUFFICES ASSUME NEW i \in (lastRead + 1)..lastRead'
               PROVE  stream[i] \in Event /\ stream[i] \notin Delivered
    OBVIOUS
  <2>1. i \in 1..Len(stream) /\ i \in Int /\ i > lastRead
    BY <1>1, <1>3
  <2>2. ASSUME NEW j \in 1..lastRead PROVE stream[j] # stream[i]
    <3>1. j \in 1..Len(stream) /\ j # i
      BY <1>1, <2>1
    <3> QED
      BY <1>0, <1>1, <2>1, <3>1 DEF Global
  <2>3. stream[i] \in Event
    BY <1>1, <2>1
  <2> QED
    BY <2>2, <2>3 DEF Delivered
<1> HIDE DEF new
<1>7. faults' \in 0..MaxFaults
  BY <1>0, <1>4, ReplyFaults DEF Types
<1>8. task' \in [Event -> {"none", "query", "copy"}]
      /\ \A x \in Event \ new : task'[x] = task[x]
  BY <1>0, <1>4 DEF Types
<1>9. Types'
  <2>1. lastRead' \in 0..Len(stream')
    BY <1>1, <1>2, <1>3
  <2>2. pel' \subseteq Event /\ excused' \subseteq Event
    BY <1>0, <1>4, <1>6 DEF Types
  <2> QED
    BY <1>0, <1>2, <1>7, <1>8, <2>1, <2>2 DEF Types
<1>10. Global'
  BY <1>0, <1>1, <1>2 DEF Global
<1>11. ASSUME NEW x \in Event PROVE Kept(x)' /\ Served(x)' /\ Copied(x)'
  <2>0. Kept(x) /\ Served(x) /\ Copied(x) /\ x \notin batch
    BY <1>0 DEF CopyIInv, Kept
  <2>1. CASE x \in new
    <3>1. x \notin Delivered /\ x \in Delivered' /\ x \in pel' /\ x \notin acked /\ task[x] = "none"
      BY <1>0, <1>4, <1>5, <1>6, <2>0, <2>1 DEF Kept, Types
    <3>2. task'[x] = "query" \/ (task'[x] = "none" /\ x \in excused')
      BY <1>4, <2>1, <3>1
    <3>3. Kept(x)' /\ Served(x)'
      BY <1>0, <1>2, <2>0, <3>1, <3>2 DEF Kept, Served, NoCopy
    <3>4. Copied(x)'
      <4>1. boots > 0 /\ boots \in Nat
        BY <1>0 DEF Global, Types
      <4> QED
        BY <1>2, <2>0, <3>1, <4>1 DEF Copied
    <3> QED
      BY <3>3, <3>4
  <2>2. CASE x \notin new
    <3>1. /\ x \in Delivered' <=> x \in Delivered
          /\ x \in pel' <=> x \in pel
          /\ x \in excused' <=> x \in excused
          /\ task'[x] = task[x]
      BY <1>4, <1>5, <1>8, <2>2
    <3>2. Kept(x)' /\ Served(x)'
      BY <1>2, <2>0, <3>1 DEF Kept, Served, NoCopy
    <3>3. Copied(x)'
      BY <1>2, <2>0, <3>1 DEF Copied, Fresh
    <3> QED
      BY <3>2, <3>3
  <2> QED
    BY <2>1, <2>2
<1> QED
  BY <1>9, <1>10, <1>11 DEF CopyIInv

LEMMA Keeps == CopyIInv /\ [Next]_vars => CopyIInv'
<1> SUFFICES ASSUME CopyIInv, [Next]_vars PROVE CopyIInv'
  OBVIOUS
<1>1. CASE UNCHANGED vars
  BY <1>1 DEF vars, redis, history, bounds, CopyIInv, Types, Global, Kept, Served, NoCopy, Copied,
              Fresh, Delivered, Working
<1>2. ASSUME NEW e \in Event, TaskStep(e) PROVE CopyIInv'
  BY <1>2, QueryKeeps, AckKeeps, CopyKeeps DEF TaskStep
<1>3. CASE MainStep
  BY <1>3, SetupKeeps, ReadPendingKeeps, ReplayKeeps, DeliverKeeps DEF MainStep
<1> QED
  BY <1>1, <1>2, <1>3, PublishKeeps, EditKeeps, BootKeeps, StopKeeps DEF Next

-----------------------------------------------------------------------------
(***************************************************************************)
(* The theorems                                                            *)
(***************************************************************************)
LEMMA OneAtMost ==
  ASSUME NEW S, \A a, b \in S : a = b
  PROVE  Cardinality(S) <= 1
<1>1. CASE S = {}
  BY <1>1, FS_EmptySet
<1>2. CASE S # {}
  <2>1. PICK x : x \in S
    BY <1>2
  <2>2. S = {x}
    BY <2>1
  <2> QED
    BY <2>2, FS_Singleton
<1> QED
  BY <1>1, <1>2

LEMMA Enough == CopyIInv => Inv
<1> SUFFICES ASSUME CopyIInv PROVE Inv
  OBVIOUS
<1>0. Types /\ Global /\ \A e \in Event : Kept(e) /\ Served(e) /\ Copied(e)
  BY DEF CopyIInv
<1>1. TypeOK
  <2>1. pel \subseteq {stream[i] : i \in 1..lastRead}
    BY <1>0 DEF Types, Kept, Delivered
  <2>2. batch \subseteq pel /\ Working \subseteq pel
    BY <1>0 DEF Types, Kept, Working
  <2>3. main = "replay" => Cardinality(Working) <= 1
    BY <1>0, OneAtMost DEF Global
  <2>4. main \notin {"replay", "loop"} => Working = {}
    BY <1>0 DEF Kept, Working
  <2>5. \A e \in Event : task[e] # "copy" => copy[e] = NoCopy
    BY <1>0 DEF Served
  <2> QED
    BY <1>0, <2>1, <2>2, <2>3, <2>4, <2>5 DEF TypeOK, Types
<1>2. FollowersServed
  BY <1>0 DEF FollowersServed, Served, Types
<1>3. CopiedOncePerLife
  BY <1>0 DEF CopiedOncePerLife, Copied
<1>4. PendingHasReason
  <2> SUFFICES ASSUME main = "loop", NEW i \in 1..lastRead
               PROVE  stream[i] \in acked \cup missed \cup excused \cup Working
    BY DEF PendingHasReason
  <2>1. stream[i] \in Event
    BY <1>0 DEF Types
  <2>2. stream[i] \in Delivered
    BY DEF Delivered
  <2> QED
    BY <1>0, <2>1, <2>2 DEF Kept, Working
<1> QED
  BY <1>1, <1>2, <1>3, <1>4 DEF Inv

\* Whatever fails and however often the service is restarted: an event is only
\* acknowledged when its followers are served, is copied once in a life, and none
\* stays pending without a reason.
THEOREM CopyTradeCorrect == Spec => []Inv
<1>1. Spec => []CopyIInv
  BY Initial, Keeps, PTL DEF Spec
<1> QED
  BY <1>1, Enough, PTL

\* An event whose XACK took effect is copied for no follower again.
THEOREM AckedStays == Spec => AckedIsFinal
<1>1. CopyIInv /\ [Next]_vars =>
        [\A e \in acked, f \in Follower : queued'[e][f] = queued[e][f]]_vars
  <2> SUFFICES ASSUME CopyIInv, Next, NEW e \in acked, NEW f \in Follower
               PROVE  queued'[e][f] = queued[e][f]
    BY DEF vars
  <2>0. /\ Types /\ e \in Event /\ Kept(e)
        /\ queued \in [Event -> [Follower -> Nat]]
    BY DEF CopyIInv, Types
  <2>1. ASSUME NEW x \in Event, NEW g \in Follower, QueueSwap(x, g)
        PROVE  queued'[e][f] = queued[e][f]
    <3>1. copy[x][g] # "done" /\ \E n : queued' = [queued EXCEPT ![x][g] = n]
      BY <2>1 DEF QueueSwap
    <3>2. x \notin acked
      BY <3>1, Copying, AtWork
    <3> QED
      BY <2>0, <3>1, <3>2
  <2>2. CASE UNCHANGED queued
    BY <2>2
  <2>3. ASSUME NEW x \in Event, TaskStep(x)
        PROVE  queued'[e][f] = queued[e][f]
    <3>1. ASSUME NEW g \in Follower, Prepare(x, g) \/ Notify(x, g) PROVE UNCHANGED queued
      BY <3>1 DEF Prepare, Notify
    <3>2. CASE Query(x) \/ Ack(x)
      BY <2>2, <3>2 DEF Query, Ack
    <3> QED
      BY <2>1, <2>2, <2>3, <3>1, <3>2 DEF TaskStep
  <2>4. CASE MainStep
    BY <2>2, <2>4 DEF MainStep, Setup, ReadPending, Replay, Deliver, history
  <2>5. ASSUME NEW x \in Event, Publish(x) PROVE UNCHANGED queued
    BY <2>5 DEF Publish, history
  <2>6. ASSUME NEW g \in Follower, NEW s, EditRow(g, s) PROVE UNCHANGED queued
    BY <2>6 DEF EditRow, history
  <2>7. ASSUME NEW next, Stop(next) PROVE UNCHANGED queued
    BY <2>7 DEF Stop, history
  <2>8. CASE Boot
    BY <2>2, <2>8 DEF Boot, history
  <2> QED
    BY <2>2, <2>3, <2>4, <2>5, <2>6, <2>7, <2>8 DEF Next
<1>2. Spec => []CopyIInv
  BY Initial, Keeps, PTL DEF Spec
<1> QED
  BY <1>1, <1>2, PTL DEF Spec, AckedIsFinal
=============================================================================
