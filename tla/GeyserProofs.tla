----------------------------- MODULE GeyserProofs -----------------------------
(***************************************************************************)
(* The invariant of GeyserSubscriber, for any wallets, queue size, number  *)
(* of workers, attempts, transactions, failures and calls.                 *)
(***************************************************************************)
EXTENDS GeyserSubscriber, FiniteSetTheorems, TLAPS

-----------------------------------------------------------------------------
(***************************************************************************)
(* The inductive invariant                                                 *)
(***************************************************************************)
\* What the life of the subscriber excludes: before start() there is nothing, and
\* stop() has not begun while it runs; the attempts are counted only until one
\* succeeds; the first request is made before anything can be subscribed.
Life ==
  /\ monitor = "off" => received = 0 /\ \A w \in Worker : job[w] = Gone
  /\ running \/ monitor = "off" => stopper = "no"
  /\ monitor \in {"off", "boot"} => subscribed = InitWallets
  /\ monitor \in {"boot", "connect"} => retry < MaxRetries
  /\ monitor \notin {"boot", "connect", "raised", "dead"} => retry = 0

Queued(t) == \E i \in DOMAIN queue : queue[i] = t

Kept(t) ==
  \/ t = hand \/ Queued(t)
  \/ \E w \in Worker : job[w] = t
  \/ t \in stored \cup failed

GeyserIInv == Inv /\ Life

LEMMA NothingDroppedIs == NothingDropped <=> (running => \A t \in 1..received : Kept(t))
BY DEF NothingDropped, Kept, Queued

LEMMA Numbers ==
  /\ MaxTx \in Nat /\ MaxFaults \in Nat /\ MaxCalls \in Nat /\ MaxRetries \in Nat /\ MaxRetries > 0
  /\ QueueSize \in Nat /\ QueueSize > 0 /\ NumWorkers \in Nat
  /\ Idle \notin Tx /\ Gone \notin Tx /\ 0 \notin Tx /\ Idle # Gone
BY GeyserAssumption DEF Tx, Idle, Gone

LEMMA ProcessingFinite ==
  /\ IsFiniteSet(Processing) /\ Cardinality(Processing) \in Nat
  /\ Processing = {} <=> Cardinality(Processing) = 0
<1>1. IsFiniteSet(Worker)
  BY Numbers, FS_Interval DEF Worker
<1>2. Processing \subseteq Worker
  BY DEF Processing
<1>3. IsFiniteSet(Processing)
  BY <1>1, <1>2, FS_Subset
<1> QED
  BY <1>3, FS_CardinalityType, FS_EmptySet

LEMMA Initial == Init => GeyserIInv
<1> SUFFICES ASSUME Init PROVE GeyserIInv
  OBVIOUS
<1> USE Numbers, GeyserAssumption
<1>1. queue \in Seq(Tx) /\ Len(queue) = 0 /\ requests \in Seq(SUBSET Wallet)
  BY DEF Init
<1>2. TypeOK
  <2>1. job \in [Worker -> Tx \cup {Idle, Gone}]
    BY DEF Init
  <2>2. /\ subscribed \subseteq Wallet /\ server \subseteq Wallet /\ stored \subseteq Tx /\ failed \subseteq Tx
        /\ hand = 0 /\ monitor = "off" /\ running = FALSE /\ stopper = "no"
    BY DEF Init
  <2>3. /\ retry \in 0..MaxRetries /\ Len(queue) <= QueueSize /\ unfinished \in Nat
        /\ received \in 0..MaxTx /\ faults \in 0..MaxFaults /\ calls \in 0..MaxCalls
    BY <1>1 DEF Init
  <2> QED
    BY <1>1, <2>1, <2>2, <2>3 DEF TypeOK
<1>3. Processing = {}
  BY DEF Init, Processing
<1>4. CountExact
  BY <1>1, <1>3, ProcessingFinite DEF Init, CountExact
<1>5. InSync /\ NothingDropped /\ Life
  BY DEF Init, InSync, NothingDropped, Life
<1> QED
  BY <1>2, <1>4, <1>5 DEF GeyserIInv, Inv

\* A step that leaves the responses and the workers alone.
LEMMA SamePipeline ==
  ASSUME GeyserIInv, UNCHANGED <<pipeline, stored, failed, received>>, running' => running
  PROVE  CountExact' /\ NothingDropped'
BY DEF GeyserIInv, Inv, CountExact, NothingDropped, Processing, pipeline

\* A step that leaves the stream and its requests alone.
LEMMA SameStream ==
  ASSUME GeyserIInv, UNCHANGED <<subscribed, requests, server>>,
         monitor' \in {"read", "put"} => monitor \in {"read", "put"}
  PROVE  InSync'
BY DEF GeyserIInv, Inv, InSync

LEMMA FaultIs ==
  ASSUME Fault, faults \in 0..MaxFaults
  PROVE  faults' \in 0..MaxFaults
BY Numbers DEF Fault

-----------------------------------------------------------------------------
(***************************************************************************)
(* The stream                                                              *)
(***************************************************************************)
LEMMA StartKeeps == GeyserIInv /\ Start => GeyserIInv'
<1> SUFFICES ASSUME GeyserIInv, Start PROVE GeyserIInv'
  OBVIOUS
<1> USE Numbers
<1>0. /\ monitor = "off" /\ running' = TRUE /\ monitor' = "boot"
      /\ job' = [w \in Worker |-> Idle] /\ TypeOK /\ Life /\ CountExact
      /\ UNCHANGED <<subscribed, requests, server, retry, hand, queue, unfinished, stopper>>
      /\ UNCHANGED <<received, stored, failed, calls, faults>>
  BY DEF Start, GeyserIInv, Inv, stream, ghosts
<1>1. received = 0 /\ retry = 0 /\ subscribed = InitWallets /\ stopper = "no"
  BY <1>0 DEF Life
<1>2. TypeOK'
  BY <1>0 DEF TypeOK
<1>3. Processing = {} /\ Processing' = {}
  BY <1>0 DEF Life, Processing
<1>4. CountExact'
  BY <1>0, <1>3 DEF CountExact
<1>5. InSync' /\ Life'
  BY <1>0, <1>1 DEF InSync, Life
<1>6. NothingDropped'
  <2>1. 1..received' = {}
    BY <1>0, <1>1
  <2> QED
    BY <2>1 DEF NothingDropped
<1> QED
  BY <1>2, <1>4, <1>5, <1>6 DEF GeyserIInv, Inv

\* A step of the monitor task, stop() or the stream itself, with no response.
LEMMA StreamKeeps ==
  ASSUME GeyserIInv,
         UNCHANGED <<pipeline, subscribed, received, stored, failed, calls, stopper, running>>,
         monitor # "put", monitor # "off",
         monitor' \in {"boot", "raised", "read", "pause", "connect", "spin", "dead", "done"},
         monitor' = "boot" => monitor = "boot",
         faults' \in 0..MaxFaults, retry' \in 0..MaxRetries,
         monitor' \in {"boot", "connect"} => retry' < MaxRetries,
         monitor' \notin {"boot", "connect", "raised", "dead"} => retry' = 0,
         \/ UNCHANGED <<requests, server>> /\ (monitor' = "read" => monitor = "read")
         \/ requests' = <<subscribed>> /\ server' = {}
  PROVE  GeyserIInv'
<1>0. TypeOK /\ Life
  BY DEF GeyserIInv, Inv
<1>1. requests' \in Seq(SUBSET Wallet) /\ server' \subseteq Wallet
  <2>1. subscribed \in SUBSET Wallet /\ requests \in Seq(SUBSET Wallet) /\ server \subseteq Wallet
    BY <1>0 DEF TypeOK
  <2>2. <<subscribed>> \in Seq(SUBSET Wallet)
    BY <2>1
  <2> QED
    BY <2>1, <2>2
<1>2. TypeOK'
  BY <1>0, <1>1 DEF TypeOK, pipeline
<1>3. CountExact' /\ NothingDropped'
  BY SamePipeline
<1>4. InSync'
  <2>1. CASE UNCHANGED <<requests, server>> /\ (monitor' = "read" => monitor = "read")
    BY <2>1, SameStream
  <2>2. CASE requests' = <<subscribed>> /\ server' = {}
    <3>1. requests' # <<>> /\ Len(requests') = 1 /\ requests'[1] = subscribed
      BY <2>2
    <3> QED
      BY <3>1 DEF InSync
  <2> QED
    BY <2>1, <2>2
<1>5. Life'
  BY <1>0 DEF Life
<1> QED
  BY <1>2, <1>3, <1>4, <1>5 DEF GeyserIInv, Inv

LEMMA ConnectionKeeps ==
  GeyserIInv /\ (FirstConnect \/ StreamBreaks \/ EndPause \/ Reconnect \/ StreamEnds) => GeyserIInv'
<1> SUFFICES ASSUME GeyserIInv, FirstConnect \/ StreamBreaks \/ EndPause \/ Reconnect \/ StreamEnds
             PROVE  GeyserIInv'
  OBVIOUS
<1> USE Numbers
<1>0. TypeOK /\ Life /\ retry \in 0..MaxRetries /\ faults \in 0..MaxFaults /\ Inv
  BY DEF GeyserIInv, Inv, TypeOK
<1>1. CASE FirstConnect
  <2>0. /\ monitor = "boot" /\ UNCHANGED <<pipeline, subscribed, received, stored, failed, calls, stopper, running>>
        /\ retry < MaxRetries /\ subscribed = InitWallets
    BY <1>0, <1>1 DEF FirstConnect, ghosts, Life
  <2>1. CASE Opens({}) /\ Goes("read") /\ UNCHANGED faults
    <3>1. CASE InitWallets = {}
      BY <1>0, <2>0, <2>1, <3>1, StreamKeeps DEF Opens, Goes
    <3>2. CASE InitWallets # {}
      <4>1. requests' = <<{}>> /\ server' = {} /\ retry' = 0 /\ monitor' \in {"read", "done"}
        BY <2>1 DEF Opens, Goes
      <4>2. requests' \in Seq(SUBSET Wallet)
        <5>1. {} \in SUBSET Wallet
          OBVIOUS
        <5> QED
          BY <4>1, <5>1
      <4>3. TypeOK'
        BY <1>0, <2>0, <2>1, <4>1, <4>2 DEF TypeOK, pipeline
      <4>4. CountExact' /\ NothingDropped'
        BY <2>0, SamePipeline
      <4>5. InSync' /\ Life'
        BY <1>0, <2>0, <3>2, <4>1 DEF InSync, Life
      <4> QED
        BY <4>3, <4>4, <4>5 DEF GeyserIInv, Inv
    <3> QED
      BY <3>1, <3>2
  <2>2. CASE ConnectFails /\ monitor' = IF retry + 1 < MaxRetries THEN "boot" ELSE "raised"
    <3>1. faults' \in 0..MaxFaults /\ retry' = retry + 1 /\ UNCHANGED <<requests, server>>
      BY <1>0, <2>2, FaultIs DEF ConnectFails
    <3>2. retry' \in 0..MaxRetries /\ (monitor' = "boot" => retry' < MaxRetries)
      BY <1>0, <2>0, <2>2, <3>1
    <3> QED
      BY <2>0, <2>2, <3>1, <3>2, StreamKeeps
  <2> QED
    BY <1>1, <2>1, <2>2 DEF FirstConnect
<1>2. CASE StreamBreaks \/ StreamEnds
  <2>1. /\ monitor = "read" /\ Fault /\ monitor' \in {"pause", "spin", "done"}
        /\ UNCHANGED <<stream, running, pipeline, stopper, ghosts>>
    BY <1>2 DEF StreamBreaks, StreamEnds, Goes
  <2>2. faults' \in 0..MaxFaults /\ retry' = 0
    BY <1>0, <2>1, FaultIs DEF Life, stream
  <2> QED
    BY <1>0, <2>1, <2>2, StreamKeeps DEF stream, ghosts
<1>3. CASE EndPause
  <2>1. /\ monitor = "pause" /\ monitor' = "connect" /\ retry = 0
        /\ UNCHANGED <<stream, running, pipeline, stopper, ghosts, faults>>
    BY <1>0, <1>3 DEF EndPause, Life
  <2> QED
    BY <1>0, <2>1, StreamKeeps DEF stream, ghosts
<1>4. CASE Reconnect
  <2>0. /\ monitor = "connect" /\ UNCHANGED <<pipeline, subscribed, received, stored, failed, calls, stopper, running>>
        /\ retry < MaxRetries
    BY <1>0, <1>4 DEF Reconnect, ghosts, Life
  <2>1. CASE Opens(subscribed) /\ Goes("read") /\ UNCHANGED faults
    BY <1>0, <2>0, <2>1, StreamKeeps DEF Opens, Goes
  <2>2. CASE ConnectFails /\ monitor' = IF retry + 1 < MaxRetries THEN "connect" ELSE "dead"
    <3>1. faults' \in 0..MaxFaults /\ retry' = retry + 1 /\ UNCHANGED <<requests, server>>
      BY <1>0, <2>2, FaultIs DEF ConnectFails
    <3>2. retry' \in 0..MaxRetries /\ (monitor' = "connect" => retry' < MaxRetries)
      BY <1>0, <2>0, <2>2, <3>1
    <3> QED
      BY <2>0, <2>2, <3>1, <3>2, StreamKeeps
  <2> QED
    BY <1>4, <2>1, <2>2 DEF Reconnect
<1> QED
  BY <1>1, <1>2, <1>3, <1>4

\* A call of (un)subscribe appends the request that names the wallets.
LEMMA RequestKeeps ==
  ASSUME GeyserIInv, NEW wallets \in SUBSET Wallet, Callable, Request(wallets)
  PROVE  GeyserIInv'
<1> USE Numbers
<1>0. /\ TypeOK /\ Life /\ calls \in 0..MaxCalls /\ calls < MaxCalls
      /\ monitor \in {"read", "put", "pause", "connect", "dead"} /\ requests \in Seq(SUBSET Wallet)
  BY DEF GeyserIInv, Inv, TypeOK, Callable
<1>1. /\ subscribed' = wallets /\ requests' = Append(requests, wallets) /\ calls' = calls + 1
      /\ UNCHANGED <<server, retry, running, monitor, pipeline, stopper, received, stored, failed, faults>>
  BY DEF Request
<1>2. /\ requests' \in Seq(SUBSET Wallet) /\ requests' # <<>>
      /\ requests'[Len(requests')] = wallets
  BY <1>0, <1>1
<1>3. calls' \in 0..MaxCalls
  BY <1>0, <1>1
<1>4. TypeOK'
  BY <1>0, <1>1, <1>2, <1>3 DEF TypeOK, pipeline
<1>5. CountExact' /\ NothingDropped'
  BY <1>1, SamePipeline
<1>6. InSync' /\ Life'
  BY <1>0, <1>1, <1>2 DEF InSync, Life
<1> QED
  BY <1>4, <1>5, <1>6 DEF GeyserIInv, Inv

LEMMA ServerKeeps == GeyserIInv /\ ServerReads => GeyserIInv'
<1> SUFFICES ASSUME GeyserIInv, ServerReads PROVE GeyserIInv'
  OBVIOUS
<1>0. /\ TypeOK /\ Life /\ InSync /\ requests \in Seq(SUBSET Wallet) /\ requests # <<>>
      /\ monitor \in {"read", "put"}
      /\ server' = Head(requests) /\ requests' = Tail(requests)
      /\ UNCHANGED <<subscribed, retry, running, monitor, pipeline, stopper, ghosts, faults>>
  BY DEF ServerReads, GeyserIInv, Inv, TypeOK
<1>1. /\ Head(requests) \in SUBSET Wallet /\ Tail(requests) \in Seq(SUBSET Wallet)
      /\ Len(requests) \in Nat /\ Len(requests) > 0
      /\ Len(Tail(requests)) = Len(requests) - 1 /\ Head(requests) = requests[1]
  BY <1>0
<1>2. TypeOK'
  BY <1>0, <1>1 DEF TypeOK, pipeline, ghosts
<1>3. CountExact' /\ NothingDropped'
  BY <1>0, SamePipeline DEF ghosts
<1>4. InSync'
  <2>1. CASE Len(requests) = 1
    <3>1. requests' = <<>> /\ server' = requests[Len(requests)]
      BY <1>0, <1>1, <2>1
    <3> QED
      BY <1>0, <3>1 DEF InSync
  <2>2. CASE Len(requests) > 1
    <3>0. Len(requests') = Len(requests) - 1 /\ Len(requests') > 0
      <4>1. Len(requests') = Len(requests) - 1
        BY <1>0, <1>1
      <4> QED
        BY <1>1, <2>2, <4>1
    <3>1. requests' # <<>>
      <4>1. Len(<<>>) = 0
        OBVIOUS
      <4> QED
        BY <3>0, <4>1
    <3>2. requests'[Len(requests')] = requests[Len(requests)]
      <4>1. Len(requests') = Len(requests) - 1 /\ Len(requests') \in 1..Len(requests')
        BY <1>1, <3>0
      <4>2. \A i \in 1..Len(requests') : requests'[i] = requests[i + 1]
        BY <1>0, <1>1
      <4>3. requests'[Len(requests')] = requests[Len(requests') + 1]
        BY <4>1, <4>2
      <4>4. Len(requests') + 1 = Len(requests)
        BY <1>1, <4>1
      <4> QED
        BY <4>3, <4>4
    <3> QED
      BY <1>0, <3>1, <3>2 DEF InSync
  <2> QED
    BY <1>1, <2>1, <2>2
<1>5. Life'
  BY <1>0 DEF Life, ghosts
<1> QED
  BY <1>2, <1>3, <1>4, <1>5 DEF GeyserIInv, Inv

-----------------------------------------------------------------------------
(***************************************************************************)
(* The responses                                                           *)
(***************************************************************************)
LEMMA AppendQueue ==
  ASSUME TypeOK, NEW t \in Tx, queue' = Append(queue, t), Len(queue) < QueueSize
  PROVE  /\ queue' \in Seq(Tx) /\ Len(queue') <= QueueSize /\ Len(queue') = Len(queue) + 1
         /\ Len(queue) \in Nat
         /\ \A x : Queued(x) \/ x = t => Queued(x)'
<1>1. queue \in Seq(Tx) /\ Len(queue) \in Nat /\ DOMAIN queue = 1..Len(queue)
  BY DEF TypeOK
<1>2. queue' \in Seq(Tx) /\ Len(queue') = Len(queue) + 1 /\ DOMAIN queue' = 1..(Len(queue) + 1)
  BY <1>1
<1>3. queue'[Len(queue) + 1] = t /\ \A i \in 1..Len(queue) : queue'[i] = queue[i]
  BY <1>1
<1>4. ASSUME NEW x, x = t PROVE Queued(x)'
  BY <1>1, <1>2, <1>3, <1>4 DEF Queued
<1>5. ASSUME NEW x, Queued(x) PROVE Queued(x)'
  <2>1. PICK i \in 1..Len(queue) : queue[i] = x
    BY <1>1, <1>5 DEF Queued
  <2>2. i \in DOMAIN queue' /\ queue'[i] = x
    BY <1>1, <1>2, <1>3, <2>1
  <2> QED
    BY <2>2 DEF Queued
<1>6. Len(queue') <= QueueSize
  BY <1>1, <1>2, Numbers
<1> QED
  BY <1>1, <1>2, <1>4, <1>5, <1>6

LEMMA TailQueue ==
  ASSUME TypeOK, queue # <<>>, queue' = Tail(queue)
  PROVE  /\ Head(queue) \in Tx /\ queue' \in Seq(Tx) /\ Len(queue') <= QueueSize
         /\ Len(queue) = Len(queue') + 1 /\ Len(queue') \in Nat
         /\ \A x : Queued(x) => Queued(x)' \/ x = Head(queue)
<1>1. queue \in Seq(Tx) /\ Len(queue) \in Nat /\ Len(queue) > 0 /\ DOMAIN queue = 1..Len(queue)
      /\ Len(queue) <= QueueSize
  BY DEF TypeOK
<1>2. /\ queue' \in Seq(Tx) /\ Len(queue') = Len(queue) - 1 /\ DOMAIN queue' = 1..Len(queue')
      /\ Head(queue) = queue[1] /\ Head(queue) \in Tx
  BY <1>1
<1>3. \A i \in 1..Len(queue') : queue'[i] = queue[i + 1]
  BY <1>1
<1>4. ASSUME NEW x, Queued(x), x # Head(queue) PROVE Queued(x)'
  <2>1. PICK i \in 1..Len(queue) : queue[i] = x
    BY <1>1, <1>4 DEF Queued
  <2>2. i # 1
    BY <1>2, <1>4, <2>1
  <2>3. i - 1 \in 1..Len(queue') /\ (i - 1) + 1 = i
    BY <1>1, <1>2, <2>2
  <2>4. queue'[i - 1] = x
    BY <1>3, <2>1, <2>3
  <2> QED
    BY <1>2, <2>3, <2>4 DEF Queued
<1>5. Len(queue') <= QueueSize /\ Len(queue) = Len(queue') + 1 /\ Len(queue') \in Nat
  BY <1>1, <1>2, Numbers
<1> QED
  BY <1>2, <1>4, <1>5

\* The monitor task takes a response from the stream, or puts the one it holds.
LEMMA ReceiveKeeps == GeyserIInv /\ Receive => GeyserIInv'
<1> SUFFICES ASSUME GeyserIInv, Receive PROVE GeyserIInv'
  OBVIOUS
<1> USE Numbers
<1>0. /\ TypeOK /\ Life /\ CountExact /\ InSync /\ NothingDropped
      /\ monitor = "read" /\ hand = 0 /\ received \in 0..MaxTx /\ received < MaxTx
      /\ received' = received + 1 /\ unfinished \in Nat /\ Len(queue) \in Nat
      /\ UNCHANGED <<subscribed, requests, server, retry, running, job, stopper, stored, failed, calls, faults>>
  BY DEF Receive, GeyserIInv, Inv, TypeOK, stream
<1>1. received' \in 0..MaxTx /\ received' \in Tx /\ 1..received' = (1..received) \cup {received'}
  BY <1>0 DEF Tx
<1>2. Processing' = Processing
  BY <1>0 DEF Processing
<1>3. CASE /\ running /\ Len(queue) < QueueSize
           /\ queue' = Append(queue, received') /\ unfinished' = unfinished + 1
           /\ UNCHANGED <<monitor, hand>>
  <2>1. /\ queue' \in Seq(Tx) /\ Len(queue') <= QueueSize /\ Len(queue') = Len(queue) + 1
        /\ \A x : Queued(x) \/ x = received + 1 => Queued(x)'
    BY <1>0, <1>1, <1>3, AppendQueue
  <2>2. unfinished' \in Nat
    BY <1>0, <1>3
  <2>3. TypeOK'
    BY <1>0, <1>1, <1>3, <2>1, <2>2 DEF TypeOK
  <2>4. CountExact'
    BY <1>0, <1>2, <1>3, <2>1, ProcessingFinite DEF CountExact
  <2>5. \A t \in 1..received' : Kept(t)'
    BY <1>0, <1>1, <1>3, <2>1, NothingDroppedIs DEF Kept
  <2>6. NothingDropped'
    BY <2>5, NothingDroppedIs DEF NothingDropped, Kept, Queued
  <2>7. InSync' /\ Life'
    BY <1>0, <1>3 DEF InSync, Life
  <2> QED
    BY <2>3, <2>4, <2>6, <2>7 DEF GeyserIInv, Inv
<1>4. CASE /\ running /\ Len(queue) = QueueSize
           /\ monitor' = "put" /\ hand' = received'
           /\ UNCHANGED <<queue, unfinished>>
  <2>1. TypeOK'
    BY <1>0, <1>1, <1>4 DEF TypeOK
  <2>2. CountExact'
    BY <1>0, <1>2, <1>4 DEF CountExact
  <2>3. \A t \in 1..received : t # 0
    BY <1>0
  <2>4. \A t \in 1..received' : Kept(t)'
    BY <1>0, <1>1, <1>4, <2>3, NothingDroppedIs DEF Kept, Queued
  <2>5. NothingDropped'
    BY <2>4 DEF NothingDropped, Kept, Queued
  <2>6. InSync' /\ Life'
    BY <1>0, <1>4 DEF InSync, Life
  <2> QED
    BY <2>1, <2>2, <2>5, <2>6 DEF GeyserIInv, Inv
<1>5. CASE ~running /\ monitor' = "done" /\ UNCHANGED <<hand, queue, unfinished>>
  <2>1. TypeOK'
    BY <1>0, <1>1, <1>5 DEF TypeOK
  <2>2. CountExact' /\ NothingDropped'
    BY <1>0, <1>2, <1>5 DEF CountExact, NothingDropped
  <2>3. InSync' /\ Life'
    BY <1>0, <1>5 DEF InSync, Life
  <2> QED
    BY <2>1, <2>2, <2>3 DEF GeyserIInv, Inv
<1> QED
  BY <1>3, <1>4, <1>5 DEF Receive

LEMMA PutKeeps == GeyserIInv /\ PutResumes => GeyserIInv'
<1> SUFFICES ASSUME GeyserIInv, PutResumes PROVE GeyserIInv'
  OBVIOUS
<1> USE Numbers
<1>0. /\ TypeOK /\ Life /\ CountExact /\ InSync /\ NothingDropped
      /\ monitor = "put" /\ hand \in Tx /\ Len(queue) < QueueSize /\ unfinished \in Nat
      /\ Len(queue) \in Nat /\ received \in Nat
      /\ queue' = Append(queue, hand) /\ unfinished' = unfinished + 1
      /\ hand' = 0 /\ monitor' \in {"read", "done"}
      /\ UNCHANGED <<subscribed, requests, server, retry, running, job, stopper>>
      /\ UNCHANGED <<received, stored, failed, calls, faults>>
  BY DEF PutResumes, GeyserIInv, Inv, TypeOK, stream, ghosts, Goes
<1>1. /\ queue' \in Seq(Tx) /\ Len(queue') <= QueueSize /\ Len(queue') = Len(queue) + 1
      /\ \A x : Queued(x) \/ x = hand => Queued(x)'
  BY <1>0, AppendQueue
<1>2. Processing' = Processing
  BY <1>0 DEF Processing
<1>3. TypeOK'
  BY <1>0, <1>1 DEF TypeOK
<1>4. CountExact'
  BY <1>0, <1>1, <1>2, ProcessingFinite DEF CountExact
<1>5. ASSUME running PROVE \A t \in 1..received : Kept(t)'
  BY <1>0, <1>1, <1>5, NothingDroppedIs DEF Kept
<1>6. NothingDropped'
  BY <1>0, <1>5 DEF NothingDropped, Kept, Queued
<1>7. InSync' /\ Life'
  BY <1>0 DEF InSync, Life
<1> QED
  BY <1>3, <1>4, <1>6, <1>7 DEF GeyserIInv, Inv

-----------------------------------------------------------------------------
(***************************************************************************)
(* The workers                                                             *)
(***************************************************************************)
LEMMA GetKeeps ==
  ASSUME GeyserIInv, NEW w \in Worker, Get(w)
  PROVE  GeyserIInv'
<1> USE Numbers
<1>0. /\ TypeOK /\ Life /\ CountExact /\ InSync /\ NothingDropped
      /\ job[w] = Idle /\ queue # <<>> /\ unfinished \in Nat /\ received \in Nat
      /\ job' = [job EXCEPT ![w] = Head(queue)] /\ queue' = Tail(queue)
      /\ UNCHANGED <<subscribed, requests, server, retry, running, monitor, hand, unfinished, stopper>>
      /\ UNCHANGED <<received, stored, failed, calls, faults>>
  BY DEF Get, GeyserIInv, Inv, TypeOK, stream, ghosts
<1>1. /\ Head(queue) \in Tx /\ queue' \in Seq(Tx) /\ Len(queue') <= QueueSize
      /\ Len(queue) = Len(queue') + 1 /\ Len(queue') \in Nat
      /\ \A x : Queued(x) => Queued(x)' \/ x = Head(queue)
  BY <1>0, TailQueue
<1>2. /\ job' \in [Worker -> Tx \cup {Idle, Gone}] /\ job'[w] = Head(queue)
      /\ \A v \in Worker \ {w} : job'[v] = job[v]
  BY <1>0, <1>1 DEF TypeOK
<1>3. Processing' = Processing \cup {w} /\ w \notin Processing
  BY <1>0, <1>1, <1>2 DEF Processing
<1>4. Cardinality(Processing') = Cardinality(Processing) + 1
  BY <1>3, ProcessingFinite, FS_AddElement
<1>5. TypeOK'
  BY <1>0, <1>1, <1>2 DEF TypeOK
<1>6. CountExact'
  BY <1>0, <1>1, <1>4, ProcessingFinite DEF CountExact
<1>7. ASSUME running, NEW t \in 1..received PROVE Kept(t)'
  <2>1. t \in Nat /\ t # 0 /\ Kept(t)
    BY <1>0, <1>7, NothingDroppedIs
  <2>2. t # Idle
    BY <2>1 DEF Idle
  <2>3. (\E v \in Worker : job[v] = t) => \E v \in Worker : job'[v] = t
    BY <1>0, <1>2, <2>2
  <2> QED
    BY <1>0, <1>1, <1>2, <2>1, <2>3 DEF Kept
<1>8. NothingDropped'
  BY <1>0, <1>7 DEF NothingDropped, Kept, Queued
<1>9. InSync' /\ Life'
  <2>1. monitor # "off"
    BY <1>0 DEF Life
  <2> QED
    BY <1>0, <2>1 DEF InSync, Life
<1> QED
  BY <1>5, <1>6, <1>8, <1>9 DEF GeyserIInv, Inv

LEMMA FinishKeeps ==
  ASSUME GeyserIInv, NEW w \in Worker, Finish(w)
  PROVE  GeyserIInv'
<1> USE Numbers
<1>0. /\ TypeOK /\ Life /\ CountExact /\ InSync /\ NothingDropped
      /\ job[w] \in Tx /\ unfinished \in Nat /\ received \in Nat /\ faults \in 0..MaxFaults
      /\ unfinished' = unfinished - 1 /\ Len(queue) \in Nat
      /\ job' = [job EXCEPT ![w] = IF running THEN Idle ELSE Gone]
      /\ UNCHANGED <<subscribed, requests, server, retry, running, monitor, hand, queue, stopper, received, calls>>
  BY DEF Finish, GeyserIInv, Inv, TypeOK, stream
<1>1. /\ stored' \subseteq Tx /\ failed' \subseteq Tx /\ faults' \in 0..MaxFaults
      /\ stored \subseteq stored' /\ failed \subseteq failed' /\ job[w] \in stored' \cup failed'
  <2>1. \/ stored' = stored \cup {job[w]} /\ UNCHANGED <<failed, faults>>
        \/ failed' = failed \cup {job[w]} /\ Fault /\ UNCHANGED stored
    BY DEF Finish
  <2> QED
    BY <1>0, <2>1, FaultIs DEF TypeOK
<1>2. /\ job' \in [Worker -> Tx \cup {Idle, Gone}] /\ job'[w] \notin Tx
      /\ \A v \in Worker \ {w} : job'[v] = job[v]
  BY <1>0 DEF TypeOK
<1>3. Processing' = Processing \ {w} /\ w \in Processing
  BY <1>0, <1>2 DEF Processing
<1>4. Cardinality(Processing') = Cardinality(Processing) - 1
  BY <1>3, ProcessingFinite, FS_RemoveElement
<1>5. unfinished' \in Nat /\ CountExact'
  <2>1. Cardinality(Processing) # 0
    BY <1>3, ProcessingFinite
  <2> QED
    BY <1>0, <1>4, <2>1, ProcessingFinite DEF CountExact
<1>6. TypeOK'
  BY <1>0, <1>1, <1>2, <1>5 DEF TypeOK
<1>7. ASSUME running, NEW t \in 1..received PROVE Kept(t)'
  <2>1. Kept(t)
    BY <1>0, <1>7, NothingDroppedIs
  <2>2. (\E v \in Worker : job[v] = t) => (\E v \in Worker : job'[v] = t) \/ t \in stored' \cup failed'
    BY <1>1, <1>2
  <2> QED
    BY <1>0, <1>1, <2>1, <2>2 DEF Kept, Queued
<1>8. NothingDropped'
  BY <1>0, <1>7 DEF NothingDropped, Kept, Queued
<1>9. InSync' /\ Life'
  <2>1. monitor # "off"
    BY <1>0 DEF Life
  <2> QED
    BY <1>0, <2>1 DEF InSync, Life
<1> QED
  BY <1>5, <1>6, <1>8, <1>9 DEF GeyserIInv, Inv

-----------------------------------------------------------------------------
(***************************************************************************)
(* stop(), and the theorem                                                 *)
(***************************************************************************)
LEMMA StopKeeps == GeyserIInv /\ (Stop \/ StopStep) => GeyserIInv'
<1> SUFFICES ASSUME GeyserIInv, Stop \/ StopStep PROVE GeyserIInv'
  OBVIOUS
<1> USE Numbers
<1>0. /\ TypeOK /\ Life /\ CountExact /\ InSync /\ NothingDropped
      /\ unfinished \in Nat /\ Len(queue) \in Nat
      /\ UNCHANGED <<subscribed, requests, server, retry, hand, queue>>
      /\ UNCHANGED <<received, stored, failed, calls, faults>>
  BY DEF Stop, StopStep, Joined, CancelWorkers, GeyserIInv, Inv, TypeOK, stream, ghosts, pipeline
<1>1. CASE Stop \/ Joined
  <2>1. /\ UNCHANGED <<job, unfinished, monitor>> /\ running' = FALSE /\ monitor # "off"
        /\ stopper' \in {"join", "cancel"}
    BY <1>0, <1>1 DEF Stop, Joined, pipeline, Life, TypeOK
  <2>2. TypeOK'
    BY <1>0, <2>1 DEF TypeOK
  <2>3. CountExact' /\ NothingDropped' /\ InSync' /\ Life'
    BY <1>0, <2>1 DEF CountExact, Processing, NothingDropped, InSync, Life
  <2> QED
    BY <2>2, <2>3 DEF GeyserIInv, Inv
<1>2. CASE CancelWorkers
  <2>1. /\ stopper = "cancel" /\ stopper' = "done" /\ UNCHANGED running
        /\ job' = [w \in Worker |-> Gone]
        /\ unfinished' = unfinished - Cardinality({w \in Worker : job[w] \in Tx})
        /\ monitor' = IF monitor = "read" THEN "done" ELSE monitor
    BY <1>2 DEF CancelWorkers
  <2>2. unfinished' = unfinished - Cardinality(Processing) /\ ~running /\ monitor # "off"
    BY <1>0, <2>1 DEF Processing, Life
  <2>3. Processing' = {}
    BY <2>1 DEF Processing
  <2>4. Cardinality(Processing') = 0
    BY <2>3, FS_EmptySet
  <2>5. unfinished' \in Nat /\ unfinished' = Len(queue)
    BY <1>0, <2>2, ProcessingFinite DEF CountExact
  <2>6. CountExact'
    BY <1>0, <2>4, <2>5 DEF CountExact
  <2>7. TypeOK'
    BY <1>0, <2>1, <2>5 DEF TypeOK
  <2>8. NothingDropped' /\ InSync' /\ Life'
    BY <1>0, <2>1, <2>2 DEF NothingDropped, InSync, Life
  <2> QED
    BY <2>6, <2>7, <2>8 DEF GeyserIInv, Inv
<1> QED
  BY <1>1, <1>2 DEF StopStep

LEMMA Keeps == GeyserIInv /\ [Next]_vars => GeyserIInv'
<1> SUFFICES ASSUME GeyserIInv, [Next]_vars PROVE GeyserIInv'
  OBVIOUS
<1>1. CASE UNCHANGED vars
  BY <1>1 DEF vars, stream, pipeline, ghosts, GeyserIInv, Inv, Life, TypeOK, InSync, CountExact,
              NothingDropped, Processing
<1>2. CASE MonitorStep \/ StreamBreaks \/ StreamEnds
  BY <1>2, ConnectionKeeps, PutKeeps DEF MonitorStep
<1>3. ASSUME NEW w \in Worker, WorkerStep(w) PROVE GeyserIInv'
  BY <1>3, GetKeeps, FinishKeeps DEF WorkerStep
<1>4. ASSUME NEW w \in Wallet, SubscribeWallet(w) \/ UnsubscribeWallet(w) PROVE GeyserIInv'
  <2>1. subscribed \cup {w} \in SUBSET Wallet /\ subscribed \ {w} \in SUBSET Wallet
    BY DEF GeyserIInv, Inv, TypeOK
  <2> QED
    BY <1>4, <2>1, RequestKeeps DEF SubscribeWallet, UnsubscribeWallet
<1> QED
  BY <1>1, <1>2, <1>3, <1>4, StartKeeps, ReceiveKeeps, StopKeeps, ServerKeeps DEF Next

\* However often the stream breaks, the queue is full and wallets come and go: the
\* server is asked for exactly the subscribed wallets, the count join() waits for
\* is right, and until stop() no response is dropped.
THEOREM GeyserCorrect == Spec => []Inv
<1>1. Spec => []GeyserIInv
  BY Initial, Keeps, PTL DEF Spec
<1>2. GeyserIInv => Inv
  BY DEF GeyserIInv
<1> QED
  BY <1>1, <1>2, PTL
=============================================================================
