------------------------- MODULE WalletTrackerProofs --------------------------
(***************************************************************************)
(* The wallet tracker.  First TxIntake, for any notifications, endpoints    *)
(* and workers, failures and restarts.  Its Inv is inductive: *)
(* TypeStep, ForwardStep, OnceStep and VanishStep each preserve one part of *)
(* it, by a case split on the action.  A worker's step changes one hand and *)
(* concerns one notification: HandStep says what that does to the types,   *)
(* OtherStays that every other one stays where MovesOn allows it.  *)
(*                                                                         *)
(* Then AccountLogMonitor, for any wallets, attempts, calls and lost       *)
(* connections: LogIInv is what its invariant needs to be inductive.       *)
(***************************************************************************)
EXTENDS TxIntake, AccountLogMonitor, FiniteSetTheorems, TLAPS

-----------------------------------------------------------------------------
(***************************************************************************)
(* TxIntake                                                                *)
(***************************************************************************)
\* TypeOK in two parts, what the workers have in their hands and the rest.
HandOK(h, w) == h = Free \/ (up /\ h.stage \in Stages(w) /\ \E n \in Notice : h.has = {n})
Apart(v, w) == v # w /\ (v \in FetchWorker <=> w \in FetchWorker)
HandsOK ==
  /\ worker \in [Worker -> WorkerType]
  /\ \A w \in Worker : HandOK(worker[w], w)
  /\ \A v, w \in Worker : Apart(v, w) => worker[v].has \cap worker[w].has = {}
RestOK ==
  /\ signatures \subseteq Notice /\ details \subseteq Notice
  /\ fetchFailed \subseteq Notice /\ parseFailed \subseteq Notice
  /\ up \in BOOLEAN
  /\ detected \subseteq Notice /\ dismissed \subseteq Notice /\ lost \subseteq Notice
  /\ published \in [Notice -> Nat]
  /\ boots \in 0..MaxBoots /\ faults \in 0..MaxFaults

LEMMA TypeParts == TypeOK <=> HandsOK /\ RestOK
  BY DEF TypeOK, HandsOK, RestOK, HandOK, Apart

\* Whatever Redis answers, the number of faults stays within its bound.
LEMMA ReplyType ==
  ASSUME faults \in 0..MaxFaults, NEW r, Reply(r) PROVE faults' \in 0..MaxFaults
  BY ConstantsAssumption DEF Reply

\* What a worker can hold, free or at some stage, has the type of a hand.
LEMMA HandTypes ==
  /\ Free \in WorkerType
  /\ \A n \in Notice, s \in {"push", "fetchFail", "publish", "parseFail"} : At(s, n) \in WorkerType
  /\ \A n \in Notice : [stage |-> "fetch", has |-> {n}, asked |-> Fetcher] \in WorkerType
  BY DEF Free, At, WorkerType

\* A stage tells the pool of a worker, who has one notification there.
LEMMA HeldBy ==
  ASSUME HandsOK, NEW w \in Worker, NEW n, NEW s, Holds(w, s, n), s # "brpop"
  PROVE  up /\ s \in Stages(w) /\ n \in Notice /\ worker[w].has = {n} /\ worker[w].stage = s
  BY DEF HandsOK, HandOK, Holds, Free

\* A step of one worker keeps the hands well typed if it leaves its own hand so
\* and takes nothing another worker of its pool has.
LEMMA HandStep ==
  ASSUME HandsOK, up' = up, NEW w \in Worker, NEW h \in WorkerType, Becomes(w, h),
         HandOK(h, w),
         \/ h.has \subseteq worker[w].has
         \/ \A v \in Worker : Apart(v, w) => worker[v].has \cap h.has = {}
  PROVE  HandsOK'
<1>1. worker' = [worker EXCEPT ![w] = h] /\ worker \in [Worker -> WorkerType]
  BY DEF Becomes, HandsOK
<1>2. \A v \in Worker : worker'[v] = IF v = w THEN h ELSE worker[v]
  BY <1>1
<1>3. \A v \in Worker : HandOK(worker[v], v)'
  BY <1>2 DEF HandsOK, HandOK, Stages
<1>4. \A u, v \in Worker : Apart(u, v) => worker'[u].has \cap worker'[v].has = {}
  BY <1>2 DEF HandsOK, Apart
<1> QED
  BY <1>1, <1>3, <1>4 DEF HandsOK, Apart

\* A worker that ends its work, or goes on with the notification it has.
LEMMA HandFree ==
  ASSUME HandsOK, up' = up, NEW w \in Worker, Becomes(w, Free) PROVE HandsOK'
<1>1. Free \in WorkerType /\ HandOK(Free, w) /\ Free.has \subseteq worker[w].has
  BY HandTypes DEF HandOK, Free
<1> QED
  BY <1>1, HandStep

LEMMA HandGoesOn ==
  ASSUME HandsOK, up' = up, NEW w \in Worker, NEW n \in Notice, worker[w].has = {n}, up,
         NEW s \in {"push", "fetchFail", "publish", "parseFail"}, s \in Stages(w),
         Becomes(w, At(s, n))
  PROVE  HandsOK'
<1>1. At(s, n) \in WorkerType /\ HandOK(At(s, n), w) /\ At(s, n).has \subseteq worker[w].has
  BY HandTypes DEF HandOK, At
<1> QED
  BY <1>1, HandStep

\* Every step of the tracker and of Redis preserves the types.
LEMMA TypeStep == Inv /\ [Next]_vars => TypeOK'
<1>0. SUFFICES ASSUME Inv, [Next]_vars PROVE HandsOK' /\ RestOK'
  BY DEF TypeOK, HandsOK, RestOK, HandOK, Apart
<1>a. HandsOK /\ RestOK /\ Forward
  BY <1>0, TypeParts DEF Inv
<1> USE DEF lists, history
<1>1. ASSUME NEW n \in Notice, Detect(n) PROVE HandsOK' /\ RestOK'
  BY <1>a, <1>1 DEF HandsOK, RestOK, HandOK, Detect, Stages, Apart
<1>2. ASSUME NEW w \in Worker, NEW n \in Notice, TakeSignature(w, n) PROVE HandsOK' /\ RestOK'
  <2>1. RestOK'
    BY <1>a, <1>2, ReplyType DEF RestOK, TakeSignature
  <2>2. CASE UNCHANGED worker
    BY <1>a, <1>2, <2>1, <2>2 DEF HandsOK, HandOK, TakeSignature, Stages, Apart
  <2>3. CASE Becomes(w, [stage |-> "fetch", has |-> {n}, asked |-> Fetcher])
    <3>1. \A v \in Worker : Apart(v, w) => worker[v].has \cap {n} = {}
      BY <1>a, <1>2 DEF Forward, MovesOn, TakeSignature, Apart
    <3> QED
      BY <1>a, <1>2, <2>1, <2>3, <3>1, HandStep, HandTypes DEF TakeSignature, Stages, HandOK
  <2> QED
    BY <1>2, <2>1, <2>2, <2>3 DEF TakeSignature
<1>3. ASSUME NEW w \in Worker, NEW n \in Notice, NEW f \in Fetcher, Fetch(w, n, f)
      PROVE  HandsOK' /\ RestOK'
  <2>1. up /\ worker[w].stage = "fetch" /\ worker[w].has = {n} /\ w \in FetchWorker
    BY <1>a, <1>3, HeldBy DEF Fetch, Stages
  <2>2. RestOK' /\ up' = up
    BY <1>a, <1>3 DEF RestOK, Fetch
  <2>3. CASE \E s \in {"push", "fetchFail"} : Becomes(w, At(s, n))
    <3>1. PICK s \in {"push", "fetchFail"} : Becomes(w, At(s, n))
      BY <2>3
    <3>2. s \in Stages(w)
      BY <2>1 DEF Stages
    <3> QED
      BY <1>a, <2>1, <2>2, <3>1, <3>2, HandGoesOn
  <2>4. CASE Becomes(w, [worker[w] EXCEPT !.asked = @ \ {f}])
    <3>1. worker[w] \in WorkerType
      BY <1>a DEF HandsOK
    <3>2. [worker[w] EXCEPT !.asked = @ \ {f}] \in WorkerType
      BY <3>1 DEF WorkerType
    <3>3. /\ [worker[w] EXCEPT !.asked = @ \ {f}].has = {n}
          /\ [worker[w] EXCEPT !.asked = @ \ {f}].stage = "fetch"
      BY <2>1, <3>1 DEF WorkerType
    <3>4. HandOK([worker[w] EXCEPT !.asked = @ \ {f}], w)
      BY <2>1, <3>3 DEF HandOK, Stages
    <3> QED
      BY <1>a, <2>1, <2>2, <2>4, <3>2, <3>3, <3>4, HandStep
  <2> QED
    BY <1>3, <2>2, <2>3, <2>4 DEF Fetch
<1>4. ASSUME NEW w \in Worker, NEW n \in Notice, Push(w, n) PROVE HandsOK' /\ RestOK'
  <2>1. up /\ worker[w].has = {n} /\ w \in FetchWorker
    BY <1>a, <1>4, HeldBy DEF Push, Stages
  <2>2. RestOK'
    BY <1>a, <1>4, ReplyType DEF RestOK, Push
  <2> QED
    BY <1>a, <1>4, <2>1, <2>2, HandFree, HandGoesOn DEF Push, Stages
<1>5. ASSUME NEW w \in Worker, NEW n \in Notice, FileFetch(w, n) PROVE HandsOK' /\ RestOK'
  BY <1>a, <1>5, HandFree, ReplyType DEF FileFetch, RestOK
<1>6. ASSUME NEW w \in Worker, NEW n \in Notice, TakeDetail(w, n) PROVE HandsOK' /\ RestOK'
  <2>1. RestOK'
    BY <1>a, <1>6, ReplyType DEF RestOK, TakeDetail
  <2>2. CASE UNCHANGED worker
    BY <1>a, <1>6, <2>1, <2>2 DEF HandsOK, HandOK, TakeDetail, Stages, Apart
  <2>3. CASE \E s \in {"publish", "parseFail"} : Becomes(w, At(s, n))
    <3>1. PICK s \in {"publish", "parseFail"} : Becomes(w, At(s, n))
      BY <2>3
    <3>2. w \notin FetchWorker
      BY <1>6, ConstantsAssumption DEF TakeDetail
    <3>3. \A v \in Worker : Apart(v, w) => worker[v].has \cap {n} = {}
      BY <1>a, <1>6, <3>2 DEF Forward, MovesOn, TakeDetail, Parsing, Apart, Worker
    <3>4. At(s, n) \in WorkerType /\ HandOK(At(s, n), w) /\ At(s, n).has = {n}
      BY <1>6, <3>2, HandTypes DEF HandOK, At, Stages, TakeDetail
    <3> QED
      BY <1>a, <1>6, <2>1, <3>1, <3>3, <3>4, HandStep DEF TakeDetail
  <2> QED
    BY <1>6, <2>1, <2>2, <2>3 DEF TakeDetail
<1>7. ASSUME NEW w \in Worker, NEW n \in Notice, Publish(w, n) PROVE HandsOK' /\ RestOK'
  BY <1>a, <1>7, HandFree, ReplyType DEF Publish, RestOK
<1>8. ASSUME NEW w \in Worker, NEW n \in Notice, FileParse(w, n) PROVE HandsOK' /\ RestOK'
  BY <1>a, <1>8, HandFree, ReplyType DEF FileParse, RestOK
<1>9. CASE Boot
  BY <1>a, <1>9, ConstantsAssumption DEF Boot, HandsOK, RestOK, HandOK, Stages, Apart
<1>10. CASE Crash
  <2>1. HandsOK'
    BY <1>10, HandTypes DEF Crash, HandsOK, HandOK, Free
  <2>2. \A w \in Worker : worker[w].has \subseteq Notice
    BY <1>a DEF HandsOK, WorkerType
  <2> QED
    BY <1>a, <1>10, <2>1, <2>2 DEF Crash, RestOK
<1>11. CASE UNCHANGED vars
  BY <1>a, <1>11 DEF vars, HandsOK, RestOK, HandOK, Stages, Apart
<1> QED
  BY <1>0, <1>1, <1>2, <1>3, <1>4, <1>5, <1>6, <1>7, <1>8, <1>9, <1>10, <1>11
     DEF Next, WorkerStep

\* A notification that a worker's step does not concern stays where MovesOn allows.
LEMMA OtherStays ==
  ASSUME HandsOK, NEW x \in Notice, MovesOn(x), NEW w \in Worker, NEW h, Becomes(w, h),
         x \notin worker[w].has, x \notin h.has,
         x \in signatures' <=> x \in signatures, x \in details' <=> x \in details,
         x \in parseFailed' <=> x \in parseFailed, x \in dismissed' <=> x \in dismissed,
         published'[x] = published[x], detected' = detected
  PROVE  MovesOn(x)'
<1>1. \A v \in Worker : worker'[v] = IF v = w THEN h ELSE worker[v]
  BY DEF Becomes, HandsOK
<1>2. Parsing(x)' <=> Parsing(x)
  BY <1>1 DEF Parsing, Worker
<1>3. Answered(x)' <=> Answered(x)
  BY DEF Answered
<1>4. Upstream(x)' <=> Upstream(x)
  BY <1>1 DEF Upstream, Worker
<1>5. x \in InHand' <=> x \in InHand
  BY <1>1 DEF InHand
<1>6. (\A v \in FetchWorker : x \notin worker[v].has) => \A v \in FetchWorker : x \notin worker'[v].has
  BY <1>1 DEF Worker
<1> QED
  BY <1>2, <1>3, <1>4, <1>5, <1>6 DEF MovesOn

\* No step of a worker or of Redis takes a notification back in front of a pool.
LEMMA ForwardStep == Inv /\ [Next]_vars => Forward'
<1>0. SUFFICES ASSUME Inv, [Next]_vars PROVE Forward'
  OBVIOUS
<1>a. HandsOK /\ RestOK /\ \A x \in Notice : MovesOn(x)
  BY <1>0, TypeParts DEF Inv, Forward
<1>b. FetchWorker \cap ParseWorker = {} /\ Worker = FetchWorker \cup ParseWorker
  BY ConstantsAssumption DEF Worker
<1> USE DEF lists, history
<1>1. ASSUME NEW n \in Notice, Detect(n) PROVE Forward'
  BY <1>a, <1>1 DEF Detect, Worker, Forward, MovesOn, Parsing, Answered, Upstream, InHand
<1>b1. ASSUME NEW w \in Worker, NEW h, Becomes(w, h)
       PROVE  \A v \in Worker : worker'[v] = IF v = w THEN h ELSE worker[v]
  BY <1>a, <1>b1 DEF Becomes, HandsOK
<1>2. ASSUME NEW w \in Worker, NEW n \in Notice, TakeSignature(w, n) PROVE Forward'
  <2>1. w \in FetchWorker /\ worker[w] = Free /\ n \in signatures /\ signatures' = signatures \ {n}
    BY <1>2 DEF TakeSignature
  <2>2. PICK h : Becomes(w, h) /\ (h = Free \/ h = [stage |-> "fetch", has |-> {n}, asked |-> Fetcher])
    BY <1>a, <1>2 DEF TakeSignature, Becomes, HandsOK
  <2>3. \A x \in Notice \ {n} : MovesOn(x)'
    BY <1>a, <1>2, <2>1, <2>2, OtherStays DEF TakeSignature, Free
  <2>4. MovesOn(n)
    BY <1>a
  <2>5. \A v \in Worker : worker'[v] = IF v = w THEN h ELSE worker[v]
    BY <1>b1, <2>2
  <2>6. n \notin details /\ ~Parsing(n) /\ ~Answered(n) /\ n \in detected
    BY <2>1, <2>4 DEF MovesOn, Upstream
  <2>7. ~Parsing(n)' /\ ~Answered(n)' /\ n \notin details' /\ n \in detected' /\ n \notin signatures'
    BY <1>b, <1>2, <2>1, <2>5, <2>6 DEF TakeSignature, Parsing, Answered
  <2> QED
    BY <2>3, <2>7 DEF Forward, MovesOn
<1>3. ASSUME NEW w \in Worker, NEW n \in Notice, NEW f \in Fetcher, Fetch(w, n, f) PROVE Forward'
  <2>1. w \in FetchWorker /\ worker[w].has = {n} /\ worker[w].stage = "fetch"
    BY <1>a, <1>3, HeldBy DEF Fetch, Stages
  <2>2. PICK h : Becomes(w, h) /\ h.has = {n}
    BY <1>a, <1>3, <2>1 DEF Fetch, At, HandsOK, WorkerType
  <2>3. \A x \in Notice \ {n} : MovesOn(x)'
    BY <1>a, <1>3, <2>1, <2>2, OtherStays DEF Fetch
  <2>4. MovesOn(n) /\ Upstream(n)
    BY <1>a, <2>1 DEF Upstream
  <2>5. \A v \in Worker : worker'[v] = IF v = w THEN h ELSE worker[v]
    BY <1>b1, <2>2
  <2>6. n \notin details /\ ~Parsing(n) /\ ~Answered(n) /\ n \in detected /\ n \notin signatures
    BY <2>1, <2>4 DEF MovesOn, InHand
  <2>7. ~Parsing(n)' /\ ~Answered(n)' /\ n \notin details' /\ n \in detected' /\ n \notin signatures'
    BY <1>b, <1>3, <2>1, <2>5, <2>6 DEF Fetch, Parsing, Answered
  <2> QED
    BY <2>3, <2>7 DEF Forward, MovesOn
<1>4. ASSUME NEW w \in Worker, NEW n \in Notice, Push(w, n) PROVE Forward'
  <2>1. w \in FetchWorker /\ worker[w].has = {n} /\ worker[w].stage = "push"
    BY <1>a, <1>4, HeldBy DEF Push, Stages
  <2>2. PICK h : Becomes(w, h) /\ (h = Free \/ h = At("fetchFail", n))
    BY <1>4 DEF Push
  <2>3. \A x \in Notice \ {n} : MovesOn(x)'
    BY <1>a, <1>4, <2>1, <2>2, OtherStays DEF Push, Free, At
  <2>4. MovesOn(n) /\ Upstream(n)
    BY <1>a, <2>1 DEF Upstream
  <2>5. \A v \in Worker : worker'[v] = IF v = w THEN h ELSE worker[v]
    BY <1>b1, <2>2
  <2>6. n \notin details /\ ~Parsing(n) /\ ~Answered(n) /\ n \in detected /\ n \notin signatures
    BY <2>1, <2>4 DEF MovesOn, InHand
  <2>7. ~Parsing(n)' /\ ~Answered(n)' /\ n \in detected' /\ n \notin signatures'
    BY <1>b, <1>4, <2>1, <2>5, <2>6 DEF Push, Parsing, Answered
  <2>8. ~Upstream(n)'
    <3>1. \A v \in FetchWorker \ {w} : n \notin worker[v].has
      BY <1>a, <1>b, <2>1 DEF HandsOK, Apart
    <3> QED
      BY <1>b, <2>2, <2>5, <2>7, <3>1 DEF Upstream, Free, At
  <2> QED
    BY <2>3, <2>7, <2>8 DEF Forward, MovesOn
<1>5. ASSUME NEW w \in Worker, NEW n \in Notice, FileFetch(w, n) PROVE Forward'
  <2>1. w \in FetchWorker /\ worker[w].has = {n} /\ worker[w].stage = "fetchFail"
    BY <1>a, <1>5, HeldBy DEF FileFetch, Stages
  <2>2. Becomes(w, Free)
    BY <1>5 DEF FileFetch
  <2>3. \A x \in Notice \ {n} : MovesOn(x)'
    BY <1>a, <1>5, <2>1, <2>2, OtherStays DEF FileFetch, Free
  <2>4. MovesOn(n) /\ n \in detected
    BY <1>a, <2>1 DEF MovesOn, InHand
  <2>5. \A v \in Worker : worker'[v] = IF v = w THEN Free ELSE worker[v]
    BY <1>b1, <2>2
  <2>6. UNCHANGED <<signatures, details, published, dismissed, parseFailed, detected>>
    BY <1>5 DEF FileFetch
  <2>7. (Parsing(n)' <=> Parsing(n)) /\ (Answered(n)' <=> Answered(n)) /\ (Upstream(n)' => Upstream(n))
    BY <1>b, <2>1, <2>5, <2>6 DEF Parsing, Answered, Upstream, Free
  <2>8. (\A v \in FetchWorker : n \notin worker[v].has) => \A v \in FetchWorker : n \notin worker'[v].has
    BY <1>b, <2>5 DEF Free
  <2> QED
    BY <2>3, <2>4, <2>6, <2>7, <2>8 DEF Forward, MovesOn
<1>6. ASSUME NEW w \in Worker, NEW n \in Notice, TakeDetail(w, n) PROVE Forward'
  <2>1. w \in ParseWorker /\ worker[w] = Free /\ n \in details /\ details' = details \ {n}
    BY <1>6 DEF TakeDetail
  <2>2. PICK h : Becomes(w, h) /\ (h = Free \/ h = At("publish", n) \/ h = At("parseFail", n))
    BY <1>a, <1>6 DEF TakeDetail, Becomes, HandsOK
  <2>3. \A x \in Notice \ {n} : MovesOn(x)'
    BY <1>a, <1>6, <2>1, <2>2, OtherStays DEF TakeDetail, Free, At
  <2>4. MovesOn(n) /\ ~Upstream(n) /\ ~Parsing(n) /\ ~Answered(n) /\ n \in detected
    BY <1>a, <2>1 DEF MovesOn
  <2>5. \A v \in Worker : worker'[v] = IF v = w THEN h ELSE worker[v]
    BY <1>b1, <2>2
  <2>6. ~Upstream(n)' /\ n \notin details' /\ n \in detected' /\ n \notin signatures'
    BY <1>b, <1>6, <2>1, <2>4, <2>5 DEF TakeDetail, Upstream
  <2>7. Parsing(n)' => ~Answered(n)'
    <3>1. CASE h = Free
      BY <1>b, <2>4, <2>5, <3>1 DEF Parsing, Free
    <3>2. CASE h # Free
      <4>1. worker' # worker
        BY <2>1, <2>5, <3>2
      <4> QED
        BY <1>6, <2>4, <4>1 DEF TakeDetail, Answered
    <3> QED
      BY <3>1, <3>2
  <2> QED
    BY <2>3, <2>6, <2>7 DEF Forward, MovesOn
<1>7. ASSUME NEW w \in Worker, NEW n \in Notice, Publish(w, n) \/ FileParse(w, n) PROVE Forward'
  <2>1. w \in ParseWorker /\ worker[w].has = {n}
    BY <1>a, <1>b, <1>7, HeldBy DEF Publish, FileParse, Stages
  <2>2. Becomes(w, Free)
    BY <1>7 DEF Publish, FileParse
  <2>3. UNCHANGED <<signatures, details, dismissed, detected>>
    BY <1>7 DEF Publish, FileParse
  <2>4. \A x \in Notice \ {n} : published'[x] = published[x] /\ (x \in parseFailed' <=> x \in parseFailed)
    BY <1>a, <1>7 DEF Publish, FileParse, RestOK
  <2>5. \A x \in Notice \ {n} : MovesOn(x)'
    BY <1>a, <2>1, <2>2, <2>3, <2>4, OtherStays DEF Free
  <2>6. Parsing(n) /\ MovesOn(n)
    BY <1>a, <2>1 DEF Parsing
  <2>7. ~Upstream(n) /\ n \notin details /\ n \in detected
    BY <1>b, <2>1, <2>6 DEF MovesOn, InHand
  <2>8. \A v \in Worker : worker'[v] = IF v = w THEN Free ELSE worker[v]
    BY <1>b1, <2>2
  <2>9. ~Upstream(n)' /\ n \notin signatures' /\ n \notin details' /\ n \in detected'
    BY <1>b, <2>1, <2>3, <2>7, <2>8 DEF Upstream
  <2>10. ~Parsing(n)'
    <3>1. \A v \in ParseWorker \ {w} : n \notin worker[v].has
      BY <1>a, <1>b, <2>1 DEF HandsOK, Apart
    <3> QED
      BY <1>b, <2>8, <3>1 DEF Parsing, Free
  <2> QED
    BY <2>5, <2>9, <2>10 DEF Forward, MovesOn
<1>9. CASE Boot
  BY <1>a, <1>9 DEF Boot, Forward, MovesOn, Parsing, Answered, Upstream, InHand
<1>10. CASE Crash
  BY <1>a, <1>10 DEF Crash, Free, Worker, Forward, MovesOn, Parsing, Answered, Upstream, InHand
<1>11. CASE UNCHANGED vars
  BY <1>a, <1>11 DEF vars, Forward, MovesOn, Parsing, Answered, Upstream, InHand
<1> QED
  BY <1>0, <1>1, <1>2, <1>3, <1>4, <1>5, <1>6, <1>7, <1>9, <1>10, <1>11
     DEF Next, WorkerStep

\* A notification is published only by the worker that parses it, and once.
LEMMA OnceStep == Inv /\ [Next]_vars => PublishedOnce'
<1>0. SUFFICES ASSUME Inv, [Next]_vars PROVE PublishedOnce'
  OBVIOUS
<1>a. HandsOK /\ RestOK /\ PublishedOnce /\ \A x \in Notice : MovesOn(x)
  BY <1>0, TypeParts DEF Inv, Forward
<1>b. FetchWorker \cap ParseWorker = {} /\ Worker = FetchWorker \cup ParseWorker
  BY ConstantsAssumption DEF Worker
<1>1. CASE UNCHANGED <<published, dismissed, parseFailed>>
  BY <1>a, <1>1 DEF PublishedOnce
<1>2. ASSUME NEW w \in Worker, NEW n \in Notice, TakeDetail(w, n) PROVE PublishedOnce'
  <2>1. ~Answered(n) /\ published[n] \in Nat
    BY <1>a, <1>2 DEF TakeDetail, MovesOn, RestOK
  <2> QED
    BY <1>a, <1>2, <2>1 DEF TakeDetail, PublishedOnce, Answered
<1>3. ASSUME NEW w \in Worker, NEW n \in Notice, Publish(w, n) \/ FileParse(w, n)
      PROVE  PublishedOnce'
  <2>1. w \in ParseWorker /\ worker[w].has = {n}
    BY <1>a, <1>b, <1>3, HeldBy DEF Publish, FileParse, Stages
  <2>2. ~Answered(n) /\ published \in [Notice -> Nat]
    BY <1>a, <2>1 DEF MovesOn, Parsing, RestOK
  <2>3. published[n] = 0 /\ n \notin dismissed \cup parseFailed
    BY <2>2 DEF Answered
  <2> QED
    BY <1>a, <1>3, <2>2, <2>3 DEF Publish, FileParse, PublishedOnce, lists
<1> QED
  BY <1>0, <1>1, <1>2, <1>3
     DEF Next, WorkerStep, Detect, Boot, Crash, TakeSignature, Fetch, Push, FileFetch,
         lists, history, vars

\* No step makes a notification disappear from every place unless it names it lost.
LEMMA VanishStep == Inv /\ [Next]_vars => NothingVanishes'
<1>0. SUFFICES ASSUME Inv, [Next]_vars PROVE NothingVanishes'
  OBVIOUS
<1>a. HandsOK /\ RestOK /\ NothingVanishes
  BY <1>0, TypeParts DEF Inv
<1> USE DEF lists, history, NothingVanishes
<1>b. ASSUME NEW w \in Worker, NEW h, Becomes(w, h)
      PROVE  InHand' = h.has \cup UNION {worker[v].has : v \in Worker \ {w}}
  <2>1. worker' = [worker EXCEPT ![w] = h] /\ worker \in [Worker -> WorkerType]
    BY <1>a, <1>b DEF Becomes, HandsOK
  <2>2. \A v \in Worker : worker'[v] = IF v = w THEN h ELSE worker[v]
    BY <2>1
  <2> QED
    BY <2>2 DEF InHand
<1>c. ASSUME NEW w \in Worker
      PROVE  InHand = worker[w].has \cup UNION {worker[v].has : v \in Worker \ {w}}
  BY DEF InHand
<1>1. ASSUME NEW n \in Notice, Detect(n) PROVE NothingVanishes'
  BY <1>a, <1>1 DEF Detect, InHand, Filed
<1>2. ASSUME NEW w \in Worker, NEW n \in Notice, TakeSignature(w, n) PROVE NothingVanishes'
  <2>1. Filed' = Filed /\ UNCHANGED <<details, detected>> /\ signatures' = signatures \ {n}
    BY <1>2 DEF TakeSignature, Filed
  <2>2. (n \in InHand' /\ UNCHANGED lost /\ InHand \subseteq InHand')
        \/ (lost' = lost \cup {n} /\ InHand' = InHand)
    <3>1. worker[w].has = {}
      BY <1>2 DEF TakeSignature, Free
    <3>2. CASE UNCHANGED worker /\ lost' = lost \cup {n}
      BY <3>2 DEF InHand
    <3>3. CASE UNCHANGED lost /\ \E h : Becomes(w, h) /\ h.has = {n}
      <4>1. PICK h : Becomes(w, h) /\ h.has = {n}
        BY <3>3
      <4>2. InHand' = {n} \cup UNION {worker[v].has : v \in Worker \ {w}}
        BY <1>b, <4>1
      <4>3. InHand = UNION {worker[v].has : v \in Worker \ {w}}
        BY <1>c, <3>1
      <4> QED
        BY <3>3, <4>2, <4>3
    <3> QED
      BY <1>2, <3>2, <3>3 DEF TakeSignature
  <2> QED
    BY <1>a, <2>1, <2>2
<1>3. ASSUME NEW w \in Worker, NEW n \in Notice, NEW f \in Fetcher, Fetch(w, n, f)
      PROVE  NothingVanishes'
  <2>1. worker[w].has = {n}
    BY <1>3 DEF Fetch, Holds
  <2>2. PICK h : Becomes(w, h) /\ h.has = {n}
    BY <1>a, <1>3, <2>1 DEF Fetch, At, HandsOK, WorkerType
  <2>3. InHand \subseteq InHand'
    BY <1>b, <1>c, <2>1, <2>2
  <2> QED
    BY <1>a, <1>3, <2>3 DEF Fetch, Filed
<1>4. ASSUME NEW w \in Worker, NEW n \in Notice, Push(w, n) PROVE NothingVanishes'
  <2>1. worker[w].has = {n} /\ Filed' = Filed
    BY <1>4 DEF Push, Holds, Filed
  <2>2. InHand \subseteq InHand' \cup details'
    BY <1>4, <1>b, <1>c, <2>1 DEF Push, Free, At
  <2> QED
    BY <1>a, <1>4, <2>1, <2>2 DEF Push
<1>5. ASSUME NEW w \in Worker, NEW n \in Notice,
             FileFetch(w, n) \/ Publish(w, n) \/ FileParse(w, n)
      PROVE  NothingVanishes'
  <2>1. worker[w].has = {n} /\ Becomes(w, Free)
    BY <1>5 DEF FileFetch, Publish, FileParse, Holds
  <2>2. InHand \subseteq InHand' \cup {n}
    BY <1>b, <1>c, <2>1
  <2>3. Filed \subseteq Filed' /\ lost \subseteq lost' /\ UNCHANGED <<signatures, details, detected>>
    <3>1. CASE FileFetch(w, n) \/ FileParse(w, n)
      BY <3>1 DEF FileFetch, FileParse, Filed
    <3>2. CASE Publish(w, n)
      <4>1. \A x \in Notice : published[x] > 0 => published'[x] > 0
        BY <1>a, <3>2 DEF Publish, RestOK
      <4> QED
        BY <3>2, <4>1 DEF Publish, Filed
    <3> QED
      BY <1>5, <3>1, <3>2
  <2>4. n \in Filed' \cup lost'
    BY <1>a, <1>5 DEF FileFetch, Publish, FileParse, Filed, RestOK
  <2> QED
    BY <1>a, <2>2, <2>3, <2>4
<1>6. ASSUME NEW w \in Worker, NEW n \in Notice, TakeDetail(w, n) PROVE NothingVanishes'
  <2>1. worker[w].has = {} /\ Filed \subseteq Filed' /\ lost \subseteq lost'
    BY <1>6 DEF TakeDetail, Free, Filed
  <2>2. InHand \subseteq InHand'
    <3>1. CASE UNCHANGED worker
      BY <3>1 DEF InHand
    <3>2. ASSUME NEW h, Becomes(w, h) PROVE InHand \subseteq InHand'
      <4>1. InHand = UNION {worker[v].has : v \in Worker \ {w}}
        BY <1>c, <2>1
      <4> QED
        BY <1>b, <3>2, <4>1
    <3> QED
      BY <1>6, <3>1, <3>2 DEF TakeDetail
  <2>3. n \in InHand' \cup Filed' \cup lost'
    BY <1>6, <1>b DEF TakeDetail, At, Filed
  <2> QED
    BY <1>a, <1>6, <2>1, <2>2, <2>3 DEF TakeDetail
<1>7. CASE Crash
  BY <1>a, <1>7 DEF Crash, InHand, Filed
<1>8. CASE Boot \/ UNCHANGED vars
  BY <1>a, <1>8 DEF Boot, vars, InHand, Filed
<1> QED
  BY <1>0, <1>1, <1>2, <1>3, <1>4, <1>5, <1>6, <1>7, <1>8 DEF Next, WorkerStep

\* Inv holds in every reachable state of the tracker, for any notifications,
\* endpoints, workers, failures and restarts.
THEOREM InvHolds == Spec => []Inv
<1>1. Init => Inv
  <2>1. SUFFICES ASSUME Init PROVE Inv
    OBVIOUS
  <2>2. \A w \in Worker : worker[w] = Free /\ worker[w].has = {}
    BY <2>1 DEF Init, Free
  <2>3. TypeOK
    <3>1. HandsOK
      <4>1. worker \in [Worker -> WorkerType]
        BY <2>1, HandTypes DEF Init
      <4>2. \A v, w \in Worker : worker[v].has \cap worker[w].has = {}
        BY <2>2
      <4> QED
        BY <2>2, <4>1, <4>2 DEF HandsOK, HandOK
    <3>2. RestOK
      <4>1. boots \in 0..MaxBoots /\ faults \in 0..MaxFaults
        BY <2>1, ConstantsAssumption DEF Init
      <4>2. published \in [Notice -> Nat]
        BY <2>1 DEF Init
      <4>3. up \in BOOLEAN
        BY <2>1, Zenon DEF Init
      <4> QED
        BY <2>1, <4>1, <4>2, <4>3 DEF Init, RestOK
    <3> QED
      BY <3>1, <3>2, TypeParts
  <2>4. NothingVanishes /\ PublishedOnce
    BY <2>1 DEF Init, NothingVanishes, PublishedOnce
  <2>5. Forward
    <3>1. ASSUME NEW n \in Notice
          PROVE  ~Upstream(n) /\ ~Parsing(n) /\ ~Answered(n) /\ n \notin InHand
      BY <2>1, <2>2 DEF Init, Upstream, Parsing, Answered, InHand, Worker
    <3> QED
      BY <2>1, <3>1 DEF Init, Forward, MovesOn
  <2> QED
    BY <2>3, <2>4, <2>5 DEF Inv
<1>2. Inv /\ [Next]_vars => Inv'
  BY TypeStep, VanishStep, OnceStep, ForwardStep DEF Inv
<1> QED
  BY <1>1, <1>2, PTL DEF Spec

\* A notification a list, a worker or the parser was given never disappears without
\* one of the named causes (BRPOP removes what it returns).
THEOREM NothingLost == Spec => []NothingVanishes
<1>1. Inv => NothingVanishes
  BY DEF Inv
<1> QED
  BY <1>1, InvHolds, PTL

\* TransactionWorker publishes one event per notification at most, whatever pushes
\* fail in TransactionDetailSubscriber.
THEOREM OneEvent == Spec => []PublishedOnce
<1>1. Inv => PublishedOnce
  BY DEF Inv
<1> QED
  BY <1>1, InvHolds, PTL

-----------------------------------------------------------------------------
(***************************************************************************)
(* AccountLogMonitor: sequences by the elements that are in them           *)
(***************************************************************************)
Distinct(s) == \A i, j \in DOMAIN s : s[i] = s[j] => i = j
In(x, s) == \E i \in DOMAIN s : s[i] = x

\* What queue.put and lock.acquire do to the elements of a queue.
LEMMA AppendIn ==
  ASSUME NEW S, NEW s \in Seq(S), NEW x \in S
  PROVE  /\ Append(s, x) \in Seq(S) /\ Len(Append(s, x)) = Len(s) + 1
         /\ \A y : In(y, Append(s, x)) <=> In(y, s) \/ y = x
         /\ Distinct(s) /\ ~In(x, s) => Distinct(Append(s, x))
         /\ Head(Append(s, x)) = IF s = <<>> THEN x ELSE Head(s)
<1>1. /\ Append(s, x) \in Seq(S) /\ Len(Append(s, x)) = Len(s) + 1
      /\ DOMAIN s = 1..Len(s) /\ DOMAIN Append(s, x) = 1..(Len(s) + 1)
      /\ \A i \in 1..Len(s) : Append(s, x)[i] = s[i]
      /\ Append(s, x)[Len(s) + 1] = x /\ Len(s) \in Nat
  OBVIOUS
<1>2. 1..(Len(s) + 1) = 1..Len(s) \cup {Len(s) + 1}
  BY <1>1
<1>3. \A y : In(y, Append(s, x)) <=> In(y, s) \/ y = x
  BY <1>1, <1>2 DEF In
<1>4. Distinct(s) /\ ~In(x, s) => Distinct(Append(s, x))
  BY <1>1, <1>2 DEF In, Distinct
<1>5. Head(Append(s, x)) = IF s = <<>> THEN x ELSE Head(s)
  BY <1>1
<1> QED
  BY <1>1, <1>3, <1>4, <1>5

\* What queue.get and lock.release do to them.
LEMMA TailIn ==
  ASSUME NEW S, NEW s \in Seq(S), s # <<>>
  PROVE  /\ Tail(s) \in Seq(S) /\ Head(s) \in S /\ Len(Tail(s)) = Len(s) - 1 /\ Len(s) >= 1
         /\ \A y : In(y, s) <=> In(y, Tail(s)) \/ y = Head(s)
         /\ Distinct(s) => Distinct(Tail(s)) /\ ~In(Head(s), Tail(s))
<1>1. /\ Tail(s) \in Seq(S) /\ Head(s) \in S /\ Len(Tail(s)) = Len(s) - 1 /\ Len(s) >= 1
      /\ Len(s) \in Nat
      /\ DOMAIN s = 1..Len(s) /\ DOMAIN Tail(s) = 1..(Len(s) - 1)
      /\ Head(s) = s[1] /\ \A i \in 1..(Len(s) - 1) : Tail(s)[i] = s[i + 1]
  OBVIOUS
<1>2. \A i \in 1..Len(s) : i = 1 \/ (i - 1 \in 1..(Len(s) - 1) /\ s[i] = Tail(s)[i - 1])
  BY <1>1
<1>3. \A i \in 1..(Len(s) - 1) : i + 1 \in 1..Len(s) /\ i + 1 # 1
  BY <1>1
<1>4. \A y : In(y, s) <=> In(y, Tail(s)) \/ y = Head(s)
  <2>1. ASSUME NEW y, In(y, s) PROVE In(y, Tail(s)) \/ y = Head(s)
    BY <1>1, <1>2, <2>1 DEF In
  <2>2. ASSUME NEW y, In(y, Tail(s)) PROVE In(y, s)
    BY <1>1, <1>3, <2>2 DEF In
  <2>3. In(Head(s), s)
    BY <1>1 DEF In
  <2> QED
    BY <2>1, <2>2, <2>3
<1>5. ASSUME Distinct(s) PROVE Distinct(Tail(s)) /\ ~In(Head(s), Tail(s))
  BY <1>1, <1>3, <1>5 DEF In, Distinct
<1> QED
  BY <1>1, <1>4, <1>5

\* The wallets queued again behind those that were queued.
LEMMA ConcatIn ==
  ASSUME NEW S, NEW s \in Seq(S), NEW t \in Seq(S)
  PROVE  s \o t \in Seq(S) /\ \A y : In(y, s \o t) <=> In(y, s) \/ In(y, t)
<1>1. /\ s \o t \in Seq(S) /\ Len(s \o t) = Len(s) + Len(t)
      /\ DOMAIN s = 1..Len(s) /\ DOMAIN t = 1..Len(t) /\ DOMAIN (s \o t) = 1..(Len(s) + Len(t))
      /\ \A i \in 1..Len(s) : (s \o t)[i] = s[i]
      /\ \A i \in 1..Len(t) : (s \o t)[Len(s) + i] = t[i]
      /\ Len(s) \in Nat /\ Len(t) \in Nat
  OBVIOUS
<1>2. \A i \in 1..(Len(s) + Len(t)) : i \in 1..Len(s) \/ (i - Len(s) \in 1..Len(t) /\ i = Len(s) + (i - Len(s)))
  BY <1>1
<1>3. \A i \in 1..Len(s) : i \in 1..(Len(s) + Len(t))
  BY <1>1
<1>4. \A i \in 1..Len(t) : Len(s) + i \in 1..(Len(s) + Len(t))
  BY <1>1
<1>5. ASSUME NEW y, In(y, s \o t) PROVE In(y, s) \/ In(y, t)
  BY <1>1, <1>2, <1>5 DEF In
<1>6. ASSUME NEW y, In(y, s) \/ In(y, t) PROVE In(y, s \o t)
  BY <1>1, <1>3, <1>4, <1>6 DEF In
<1> QED
  BY <1>1, <1>5, <1>6

\* A set queued in some order.
LEMMA SetToSeqIn ==
  ASSUME NEW S, IsFiniteSet(S)
  PROVE  SetToSeq(S) \in Seq(S) /\ \A y : In(y, SetToSeq(S)) <=> y \in S
<1> DEFINE n == Cardinality(S)
<1>1. n \in Nat /\ ExistsBijection(1..n, S)
  BY FS_CardinalityType
<1>2. PICK f \in Bijection(1..n, S) : TRUE
  BY <1>1 DEF ExistsBijection
<1>3. f \in [1..n -> S] /\ IsInjective(f)
  BY <1>2 DEF Bijection, Injection, IsInjective
<1>4. SetToSeq(S) \in [1..n -> S] /\ IsInjective(SetToSeq(S))
  BY <1>3 DEF SetToSeq
<1> DEFINE s == SetToSeq(S)
<1> HIDE DEF s, n
<1>5. s \in Injection(1..n, S)
  BY <1>4 DEF Injection, IsInjective, s, n
<1>6. IsFiniteSet(1..n) /\ Cardinality(1..n) = Cardinality(S)
  <2>1. Cardinality(1..n) = n
    BY <1>1, FS_Interval
  <2> QED
    BY <1>1, <2>1, FS_Interval DEF n
<1>7. s \in Surjection(1..n, S)
  BY <1>1, <1>5, <1>6, FS_Injection
<1> QED
  BY <1>1, <1>4, <1>7 DEF In, s, n, Surjection

-----------------------------------------------------------------------------
(***************************************************************************)
(* AccountLogMonitor: the inductive invariant                              *)
(***************************************************************************)
\* The lock is held by the head of its queue, where each task waits once.
LockInv ==
  /\ Distinct(lock)
  /\ In("main", lock) <=> main = "handle"
  /\ In("sub", lock) <=> sub \in {"lock", "send"}
  /\ In("unsub", lock) <=> unsub \in {"lock", "send"}
  /\ sub = "send" => Head(lock) = "sub"
  /\ unsub = "send" => Head(lock) = "unsub"

\* What the stages of the three tasks exclude: without a connection no result is on
\* its way and nothing is mapped, and a round starts with all its wallets queued.
StageInv ==
  /\ result # None <=> main = "handle"
  /\ main = "handle" => slot # None
  /\ sub \in {"lock", "send"} <=> subWallet # None
  /\ unsub \in {"lock", "send"} <=> unsubWallet # None
  /\ sub = "send" => slot = subWallet
  /\ main \in {"dial", "pause", "stopped"} => sub = "off" /\ unsub = "off"
  /\ main # "stopped" => retry <= MaxRetries
  /\ open => main \in {"recv", "handle"}
  /\ main \notin {"recv", "handle"} => inbox = <<>> /\ \A w \in Wallet : ids[w] = None
  /\ main = "dial" => \A w \in subscribed : In(w, subQ)

\* What is queued for unsubscription was dropped by a caller.
DropInv ==
  /\ \A x : In(x, unsubQ) => x \in dropped
  /\ unsub = "lock" => unsubWallet \in dropped

\* The results that are still to come, and whether one of them is for a wallet that
\* the slot no longer holds: then it stays so until the connection is given up, for
\* want of a wallet a result is waited for.
Outstanding ==
  Len(inbox) + (IF main = "handle" THEN 1 ELSE 0) + (IF sub = "send" THEN 1 ELSE 0)

Late == Outstanding > 1 \/ (Outstanding = 1 /\ slot = None)

\* As long as no result is late, ids are right, and each subscribed wallet has its
\* subscription, waits for it or is in hand.
Right ==
  /\ \A w \in Wallet : ids[w] \in {w, None}
  /\ \A x : In(x, inbox) => x = slot /\ x \in server \cup dropped
  /\ main = "handle" => result = slot /\ result \in server \cup dropped
  /\ unsub = "send" => unsubWallet \in dropped
  /\ \A w \in subscribed \ dropped : w \in server \/ In(w, subQ) \/ w = subWallet

OnTime == open /\ ~Late => Right

\* The inductive invariant: no result on time lies, and the stages are consistent.
LogIInv ==
  /\ LogTypeOK /\ MappedIsSubscribed /\ IsFiniteSet(subscribed)
  /\ LockInv /\ StageInv /\ DropInv /\ OnTime

\* When a result is late, by the three places it is waited for in.
LEMMA OutstandingIs ==
  ASSUME LogTypeOK
  PROVE  /\ Len(inbox) \in Nat /\ Outstanding \in Nat
         /\ inbox = <<>> <=> Len(inbox) = 0
         /\ Outstanding = 0 => inbox = <<>> /\ main # "handle" /\ sub # "send"
<1>1. Len(inbox) \in Nat /\ (inbox = <<>> <=> Len(inbox) = 0)
  BY DEF LogTypeOK
<1> DEFINE taken == IF main = "handle" THEN 1 ELSE 0
<1> DEFINE sent == IF sub = "send" THEN 1 ELSE 0
<1>a. taken \in {0, 1} /\ sent \in {0, 1} /\ Outstanding = Len(inbox) + taken + sent
  BY DEF Outstanding
<1>b. (main = "handle" => taken = 1) /\ (sub = "send" => sent = 1)
  OBVIOUS
<1> HIDE DEF taken, sent
<1>2. Outstanding \in Nat /\ Outstanding >= Len(inbox)
  BY <1>1, <1>a
<1>3. main = "handle" \/ sub = "send" => Outstanding > 0
  BY <1>1, <1>a, <1>b
<1> QED
  BY <1>1, <1>2, <1>3

\* The empty queue.
LEMMA NothingIn == \A x : ~In(x, <<>>)
BY DEF In

\* One more wallet leaves the books finite.
LEMMA SubscribedAdds ==
  ASSUME IsFiniteSet(subscribed), NEW w PROVE IsFiniteSet(subscribed \cup {w})
BY FS_AddElement

\* Before start() nothing is queued, mapped or waited for.
LEMMA LogInitial == LogInit => LogIInv
<1> SUFFICES ASSUME LogInit PROVE LogIInv
  OBVIOUS
<1> USE MonitorAssumption DEF LogInit
<1>1. LogTypeOK
  <2>1. /\ subQ \in Seq(Wallet) /\ unsubQ \in Seq(Wallet) /\ inbox \in Seq(Wallet)
        /\ lock \in Seq({"main", "sub", "unsub"}) /\ Len(lock) <= 3
    OBVIOUS
  <2>2. ids \in [Wallet -> Wallet \cup {None}]
    OBVIOUS
  <2>3. retry \in 0..(MaxRetries + 1) /\ calls \in 0..MaxCalls /\ losses \in 0..MaxLosses
    OBVIOUS
  <2> QED
    BY <2>1, <2>2, <2>3 DEF LogTypeOK
<1>2. IsFiniteSet(subscribed)
  BY FS_EmptySet
<1> QED
  BY <1>1, <1>2, NothingIn DEF LogIInv, MappedIsSubscribed, LockInv, StageInv, DropInv, OnTime,
     Distinct

\* A step that leaves the connection closed has nothing to say of its results.
LEMMA Offline == ~open' => OnTime'
BY DEF OnTime

\* A caller queues a wallet to follow.
LEMMA SubscribeKeeps ==
  ASSUME LogIInv, NEW w \in Wallet, Subscribe(w) PROVE LogIInv'
<1> USE MonitorAssumption DEF LogIInv, Subscribe, client, loop, tasks, node
<1>1. subQ' \in Seq(Wallet) /\ \A x : In(x, subQ)' <=> In(x, subQ) \/ x = w
  BY AppendIn DEF LogTypeOK
<1>2. LogTypeOK'
  BY <1>1 DEF LogTypeOK
<1>3. MappedIsSubscribed' /\ IsFiniteSet(subscribed')
  BY DEF MappedIsSubscribed
<1>4. LockInv' /\ DropInv'
  BY DEF LockInv, DropInv
<1>5. StageInv'
  BY <1>1 DEF StageInv
<1>6. OnTime'
  BY <1>1 DEF OnTime, Late, Outstanding, Right
<1> QED
  BY <1>2, <1>3, <1>4, <1>5, <1>6

\* A caller queues a wallet to drop.
LEMMA UnsubscribeKeeps ==
  ASSUME LogIInv, NEW w \in Wallet, Unsubscribe(w) PROVE LogIInv'
<1> USE MonitorAssumption DEF LogIInv, Unsubscribe, client, loop, tasks, node
<1>1. unsubQ' \in Seq(Wallet) /\ \A x : In(x, unsubQ)' <=> In(x, unsubQ) \/ x = w
  BY AppendIn DEF LogTypeOK
<1>2. LogTypeOK'
  BY <1>1 DEF LogTypeOK
<1>3. MappedIsSubscribed' /\ IsFiniteSet(subscribed')
  BY DEF MappedIsSubscribed
<1>4. LockInv' /\ DropInv'
  BY <1>1 DEF LockInv, DropInv
<1>5. StageInv'
  BY <1>1 DEF StageInv
<1>6. OnTime'
  BY <1>1 DEF OnTime, Late, Outstanding, Right
<1> QED
  BY <1>2, <1>3, <1>4, <1>5, <1>6

\* A connection is made, and both tasks are started.
LEMMA ConnectKeeps ==
  ASSUME LogIInv, Connect PROVE LogIInv'
<1> USE MonitorAssumption DEF LogIInv, Connect, client, ghosts
<1>1. SetToSeq(InitWallets) \in Seq(InitWallets)
  BY SetToSeqIn
<1>2. SetToSeq(InitWallets) \in Seq(Wallet)
  BY <1>1
<1>3. subQ' \in Seq(Wallet) /\ \A x : In(x, subQ) => In(x, subQ)'
  BY <1>2, ConcatIn DEF LogTypeOK
<1>4. LogTypeOK'
  BY <1>3 DEF LogTypeOK
<1>5. MappedIsSubscribed' /\ IsFiniteSet(subscribed')
  BY DEF MappedIsSubscribed
<1>6. LockInv' /\ DropInv'
  BY DEF LockInv, DropInv, StageInv
<1>7. StageInv'
  BY DEF StageInv, LogTypeOK
<1>8. OnTime'
  BY <1>3, NothingIn DEF OnTime, Right, StageInv
<1> QED
  BY <1>4, <1>5, <1>6, <1>7, <1>8

\* Every way to give a connection up.
LEMMA CleansUpKeeps ==
  ASSUME LogIInv, CleansUp, main \in {"dial", "recv"}, losses' \in 0..MaxLosses,
         UNCHANGED <<subQ, unsubQ, subscribed, slot, lock, result, retry, running, tasks, ghosts, confirmed>>
  PROVE  LogIInv'
<1> USE MonitorAssumption DEF LogIInv, CleansUp, Disconnects, tasks, ghosts
<1>1. LogTypeOK'
  <2>1. ids' \in [Wallet -> Wallet \cup {None}] /\ inbox' \in Seq(Wallet)
    OBVIOUS
  <2> QED
    BY <2>1 DEF LogTypeOK
<1>2. MappedIsSubscribed' /\ IsFiniteSet(subscribed')
  BY DEF MappedIsSubscribed
<1>3. LockInv' /\ DropInv'
  BY DEF LockInv, DropInv
<1>4. StageInv'
  BY DEF StageInv
<1> QED
  BY <1>1, <1>2, <1>3, <1>4, Offline

\* The connection is lost: some of what arrived before is still received.
LEMMA LossKeeps ==
  ASSUME LogIInv, ConnectionLost PROVE LogIInv'
<1> USE MonitorAssumption DEF LogIInv, ConnectionLost, client, loop, tasks, ghosts
<1>1. inbox' \in Seq(Wallet)
  BY DEF LogTypeOK
<1>2. LogTypeOK'
  <2>1. losses' \in 0..MaxLosses
    BY DEF LogTypeOK, Fault
  <2>2. open' \in BOOLEAN /\ server' \subseteq Wallet
    OBVIOUS
  <2>3. LogTypeOK /\ UNCHANGED <<subQ, unsubQ, ids, subscribed, slot, lock, main, result, retry, running,
                                sub, subWallet, unsub, unsubWallet, wanted, dropped, calls, confirmed>>
    OBVIOUS
  <2> HIDE DEF ConnectionLost, LogIInv
  <2> QED
    BY <1>1, <2>1, <2>2, <2>3 DEF LogTypeOK
<1>3. MappedIsSubscribed' /\ IsFiniteSet(subscribed')
  BY DEF MappedIsSubscribed
<1>4. LockInv' /\ DropInv'
  BY DEF LockInv, DropInv
<1>5. StageInv'
  BY DEF StageInv
<1> QED
  BY <1>2, <1>3, <1>4, <1>5, Offline

\* A result takes the slot: when it is the last one, the slot holds its wallet.
LEMMA MapsOnTime ==
  ASSUME LogIInv, NEW r \in Wallet, Maps(r), slot # None, sub # "send", main' = "recv",
         Outstanding' = Outstanding - 1,
         In(r, inbox) \/ (main = "handle" /\ r = result),
         inbox' \in Seq(Wallet),
         UNCHANGED <<open, server, dropped, subQ, sub, subWallet, unsub, unsubWallet>>
  PROVE  OnTime'
<1> USE DEF LogIInv
<1>1. SUFFICES ASSUME open, ~Late' PROVE Right'
  BY DEF OnTime
<1>2. slot' = None /\ Outstanding \in Nat /\ Outstanding' \in Nat
  <2>1. Outstanding \in Nat
    BY OutstandingIs
  <2>2. Len(inbox') \in Nat
    OBVIOUS
  <2> QED
    BY <2>1, <2>2 DEF Maps, Outstanding
<1>3. Outstanding' = 0 /\ ~Late
  BY <1>1, <1>2 DEF Late
<1>4. inbox' = <<>>
  <2>1. Len(inbox') \in Nat /\ (Len(inbox') = 0 => inbox' = <<>>)
    OBVIOUS
  <2> QED
    BY <1>3, <2>1 DEF Outstanding
<1>5. Right /\ r = slot /\ slot \in server \cup dropped
  BY <1>1, <1>3 DEF OnTime, Right
<1> QED
  BY <1>4, <1>5, NothingIn DEF Right, Maps, LogTypeOK

\* Three tasks that wait once each are at most three.
LEMMA LockShort ==
  ASSUME NEW s \in Seq({"main", "sub", "unsub"}), Distinct(s) PROVE Len(s) <= 3
<1>1. Len(s) \in Nat /\ DOMAIN s = 1..Len(s) /\ \A i \in 1..Len(s) : s[i] \in {"main", "sub", "unsub"}
  OBVIOUS
<1>2. SUFFICES ASSUME Len(s) > 3 PROVE FALSE
  BY <1>1
<1>3. 1 \in 1..Len(s) /\ 2 \in 1..Len(s) /\ 3 \in 1..Len(s) /\ 4 \in 1..Len(s)
  BY <1>1, <1>2
<1>4. s[1] # s[2] /\ s[1] # s[3] /\ s[1] # s[4] /\ s[2] # s[3] /\ s[2] # s[4] /\ s[3] # s[4]
  BY <1>1, <1>3 DEF Distinct
<1> QED
  BY <1>1, <1>3, <1>4

\* A task joins the queue of the lock.
LEMMA LockPush ==
  ASSUME LogTypeOK, LockInv, NEW t \in {"main", "sub", "unsub"}, ~In(t, lock), lock' = Append(lock, t)
  PROVE  /\ lock' \in Seq({"main", "sub", "unsub"}) /\ Len(lock') <= 3 /\ Distinct(lock')
         /\ \A x : In(x, lock)' <=> In(x, lock) \/ x = t
         /\ Head(lock') = IF lock = <<>> THEN t ELSE Head(lock)
<1>1. lock \in Seq({"main", "sub", "unsub"}) /\ Distinct(lock)
  BY DEF LogTypeOK, LockInv
<1>2. /\ lock' \in Seq({"main", "sub", "unsub"}) /\ Distinct(lock')
      /\ \A x : In(x, Append(lock, t)) <=> In(x, lock) \/ x = t
      /\ Head(lock') = IF lock = <<>> THEN t ELSE Head(lock)
  BY <1>1, AppendIn
<1>3. Len(lock') <= 3
  BY <1>2, LockShort
<1> QED
  BY <1>2, <1>3

\* The holder leaves it.
LEMMA LockPop ==
  ASSUME LogTypeOK, LockInv, lock' = Tail(lock), NEW t, Head(lock) = t, In(t, lock)
  PROVE  /\ lock' \in Seq({"main", "sub", "unsub"}) /\ Len(lock') <= 3 /\ Distinct(lock')
         /\ \A x : In(x, lock)' <=> In(x, lock) /\ x # t
<1>1. lock \in Seq({"main", "sub", "unsub"}) /\ Distinct(lock) /\ lock # <<>>
  BY NothingIn DEF LogTypeOK, LockInv
<1>2. lock' \in Seq({"main", "sub", "unsub"}) /\ Distinct(lock')
  BY <1>1, TailIn
<1>3. \A x : In(x, lock) <=> In(x, Tail(lock)) \/ x = Head(lock)
  BY <1>1, TailIn
<1>4. ~In(t, Tail(lock))
  BY <1>1, TailIn
<1> QED
  BY <1>2, <1>3, <1>4, LockShort

\* The main loop takes a result from the connection and asks for the lock.
LEMMA ReceiveKeeps ==
  ASSUME LogIInv, Receive PROVE LogIInv'
<1> USE DEF LogIInv, Receive, tasks, ghosts
<1>1. /\ inbox # <<>> /\ Head(inbox) \in Wallet /\ Tail(inbox) \in Seq(Wallet)
      /\ Len(Tail(inbox)) = Len(inbox) - 1 /\ Len(inbox) \in Nat
      /\ \A x : In(x, inbox) <=> In(x, Tail(inbox)) \/ x = Head(inbox)
  BY TailIn DEF LogTypeOK
<1>2. CASE slot = None
  <2>1. CleansUp /\ UNCHANGED <<subscribed, slot, lock, result>> /\ main = "recv"
    BY <1>2
  <2>2. losses' \in 0..MaxLosses
    BY DEF LogTypeOK
  <2> QED
    BY <2>1, <2>2, CleansUpKeeps
<1>3. CASE slot # None /\ lock = <<>>
  <2>1. /\ Maps(Head(inbox)) /\ inbox' = Tail(inbox) /\ main = "recv"
        /\ UNCHANGED <<main, open, server, lock, result>>
    BY <1>3
  <2>2. sub # "send" /\ sub # "lock" /\ sub' # "send"
    BY <1>3, NothingIn DEF LockInv
  <2>3. Outstanding' = Outstanding - 1
    BY <1>1, <2>1, <2>2 DEF Outstanding
  <2>4. OnTime'
    BY <1>1, <1>3, <2>1, <2>2, <2>3, MapsOnTime
  <2>5. LogTypeOK'
    BY <1>1, <2>1 DEF LogTypeOK, Maps
  <2>6. MappedIsSubscribed' /\ IsFiniteSet(subscribed')
    BY <2>1, SubscribedAdds DEF MappedIsSubscribed, Maps, LogTypeOK
  <2>7. LockInv' /\ DropInv'
    BY <2>1 DEF LockInv, DropInv
  <2>8. StageInv'
    BY <2>1, <2>2 DEF StageInv, Maps
  <2> QED
    BY <2>4, <2>5, <2>6, <2>7, <2>8
<1>4. CASE slot # None /\ lock # <<>>
  <2>1. /\ main = "recv" /\ main' = "handle" /\ lock' = Append(lock, "main")
        /\ result' = Head(inbox) /\ inbox' = Tail(inbox)
        /\ UNCHANGED <<ids, subscribed, slot, open, server>>
    BY <1>4
  <2>2. ~In("main", lock)
    BY <2>1 DEF LockInv
  <2>3. /\ lock' \in Seq({"main", "sub", "unsub"}) /\ Len(lock') <= 3 /\ Distinct(lock')
        /\ \A x : In(x, lock)' <=> In(x, lock) \/ x = "main"
        /\ Head(lock') = Head(lock)
    BY <1>4, <2>1, <2>2, LockPush
  <2>4. LogTypeOK'
    BY <1>1, <2>1, <2>3 DEF LogTypeOK
  <2>5. MappedIsSubscribed' /\ IsFiniteSet(subscribed') /\ DropInv'
    BY <2>1 DEF MappedIsSubscribed, DropInv
  <2>6. LockInv'
    BY <2>1, <2>3 DEF LockInv
  <2>7. StageInv'
    BY <1>1, <1>4, <2>1, MonitorAssumption DEF StageInv
  <2>8. Outstanding' = Outstanding
    BY <1>1, <2>1 DEF Outstanding
  <2>9. OnTime'
    BY <1>1, <2>1, <2>8 DEF OnTime, Late, Right
  <2> QED
    BY <2>4, <2>5, <2>6, <2>7, <2>9
<1> QED
  BY <1>2, <1>3, <1>4

\* It holds the lock and maps the result to the wallet in the slot.
LEMMA HandleKeeps ==
  ASSUME LogIInv, HandleResult PROVE LogIInv'
<1> USE DEF LogIInv, HandleResult, tasks, node, ghosts
<1>1. slot # None /\ sub # "send" /\ unsub # "send" /\ In("main", lock) /\ result \in Wallet
  BY DEF LockInv, StageInv, LogTypeOK
<1>2. /\ lock' \in Seq({"main", "sub", "unsub"}) /\ Len(lock') <= 3 /\ Distinct(lock')
      /\ \A x : In(x, lock)' <=> In(x, lock) /\ x # "main"
  BY <1>1, LockPop
<1>3. Outstanding' = Outstanding - 1
  BY <1>1, OutstandingIs DEF Outstanding
<1>4. OnTime'
  BY <1>1, <1>3, MapsOnTime DEF LogTypeOK
<1>5. LogTypeOK'
  BY <1>1, <1>2 DEF LogTypeOK, Maps
<1>6. MappedIsSubscribed' /\ IsFiniteSet(subscribed')
  BY <1>1, SubscribedAdds DEF MappedIsSubscribed, Maps, LogTypeOK
<1>7. LockInv' /\ DropInv'
  BY <1>1, <1>2 DEF LockInv, DropInv
<1>8. StageInv'
  BY <1>1 DEF StageInv, Maps
<1> QED
  BY <1>4, <1>5, <1>6, <1>7, <1>8

\* Without the tasks, only the main loop can wait for the lock.
LEMMA CancelKeeps ==
  ASSUME LogIInv, CancelTasks, main' = main \/ (main # "handle" /\ main' \in {"pause", "stopped"}),
         main' = "handle" \/ inbox' = <<>>, inbox' \in {inbox, <<>>},
         ~open', open' \in BOOLEAN, server' \subseteq server, running' \in BOOLEAN,
         retry' \in 0..(MaxRetries + 1), main' # "stopped" => retry' <= MaxRetries,
         main' \in {"pause", "stopped"} => main \in {"cleanup", "pause", "stopped"},
         UNCHANGED <<subQ, unsubQ, ids, subscribed, slot, result, ghosts, confirmed, losses>>
  PROVE  LogIInv'
<1>0. lock' = IF main = "handle" THEN <<"main">> ELSE <<>>
  BY DEF CancelTasks
<1>1. /\ lock' \in Seq({"main", "sub", "unsub"}) /\ Len(lock') <= 3
      /\ main = "handle" => Len(lock') = 1 /\ lock'[1] = "main"
      /\ main # "handle" => lock' = <<>>
  <2>1. CASE main = "handle"
    BY <1>0, <2>1
  <2>2. CASE main # "handle"
    BY <1>0, <2>2
  <2> QED
    BY <2>1, <2>2
<1> USE DEF LogIInv, CancelTasks, ghosts
<1>2. LockInv'
  <2>1. \A x : In(x, lock)' <=> main = "handle" /\ x = "main"
    BY <1>1, NothingIn DEF In
  <2>2. Distinct(lock')
    BY <1>1 DEF Distinct
  <2> QED
    BY <2>1, <2>2 DEF LockInv
<1>3. <<>> \in Seq(Wallet)
  OBVIOUS
<1>a. inbox' \in Seq(Wallet)
  BY <1>3 DEF LogTypeOK
<1>4. LogTypeOK'
  <2>1. main' \in {"dial", "recv", "handle", "cleanup", "pause", "stopped"}
    BY DEF LogTypeOK
  <2> QED
    BY <1>1, <1>a, <2>1 DEF LogTypeOK
<1>5. MappedIsSubscribed' /\ IsFiniteSet(subscribed') /\ DropInv'
  BY DEF MappedIsSubscribed, DropInv
<1>6. StageInv'
  BY DEF StageInv
<1> QED
  BY <1>2, <1>4, <1>5, <1>6, Offline

\* cleanup() after a loss: the retry, or the end of the monitor.
LEMMA CleanupKeeps ==
  ASSUME LogIInv, EndCleanup \/ Stop PROVE LogIInv'
<1> USE MonitorAssumption DEF node, ghosts
<1>0. LogTypeOK /\ StageInv
  BY DEF LogIInv
<1>1. CASE EndCleanup
  <2>1. main = "cleanup" /\ main' \in {"pause", "stopped"} /\ running' \in BOOLEAN
    BY <1>0, <1>1 DEF EndCleanup, LogTypeOK
  <2>2. retry' \in 0..(MaxRetries + 1) /\ (main' # "stopped" => retry' <= MaxRetries)
    BY <1>0, <1>1 DEF EndCleanup, LogTypeOK, StageInv
  <2>3. open' = FALSE /\ inbox = <<>>
    BY <1>0, <1>1, <2>1 DEF EndCleanup, StageInv, LogTypeOK
  <2> QED
    BY <1>1, <2>1, <2>2, <2>3, CancelKeeps DEF EndCleanup
<1>2. CASE Stop
  <2>1. /\ CancelTasks /\ main' = main /\ inbox' = <<>> /\ open' = FALSE /\ server' = {} /\ running' = FALSE
        /\ UNCHANGED <<subQ, unsubQ, ids, subscribed, slot, result, retry, ghosts, confirmed, losses>>
    BY <1>2 DEF Stop, Disconnects
  <2>2. retry' \in 0..(MaxRetries + 1) /\ (main' # "stopped" => retry' <= MaxRetries)
    BY <1>0, <2>1 DEF LogTypeOK, StageInv
  <2> QED
    BY <2>1, <2>2, CancelKeeps
<1> QED
  BY <1>1, <1>2

\* The pause ends: every subscribed wallet is queued again.
LEMMA PauseKeeps ==
  ASSUME LogIInv, EndPause PROVE LogIInv'
<1> USE DEF LogIInv, EndPause, client, tasks, node, ghosts
<1>1. main = "pause" /\ main' \in {"dial", "stopped"} /\ ~open' /\ sub' = "off" /\ unsub' = "off"
  BY DEF StageInv, LogTypeOK
<1>2. /\ subQ' \in Seq(Wallet)
      /\ main' = "dial" => \A w \in subscribed : In(w, subQ)'
  <2>1. SetToSeq(subscribed) \in Seq(subscribed) /\ \A w \in subscribed : In(w, SetToSeq(subscribed))
    BY SetToSeqIn
  <2>2. SetToSeq(subscribed) \in Seq(Wallet)
    BY <2>1 DEF LogTypeOK
  <2>3. running => subQ' = subQ \o SetToSeq(subscribed)
    OBVIOUS
  <2>4. ~running => subQ' = subQ /\ main' = "stopped"
    OBVIOUS
  <2>5. subQ \o SetToSeq(subscribed) \in Seq(Wallet) /\ \A w \in subscribed : In(w, subQ \o SetToSeq(subscribed))
    BY <2>1, <2>2, ConcatIn DEF LogTypeOK
  <2> QED
    BY <2>3, <2>4, <2>5 DEF LogTypeOK
<1>3. LogTypeOK'
  BY <1>1, <1>2 DEF LogTypeOK
<1>4. MappedIsSubscribed' /\ IsFiniteSet(subscribed') /\ DropInv' /\ LockInv'
  BY <1>1 DEF MappedIsSubscribed, DropInv, LockInv
<1>5. StageInv'
  BY <1>1, <1>2 DEF StageInv
<1> QED
  BY <1>1, <1>3, <1>4, <1>5, Offline

\* The subscription task takes a wallet.
LEMMA SubGetKeeps ==
  ASSUME LogIInv, SubGet PROVE LogIInv'
<1> USE DEF LogIInv, SubGet, loop, node, ghosts
<1>1. /\ Head(subQ) \in Wallet /\ subQ' \in Seq(Wallet)
      /\ \A x : In(x, subQ) <=> In(x, subQ)' \/ x = Head(subQ)
  BY TailIn DEF LogTypeOK
<1>2. ~In("sub", lock) /\ subWallet = None /\ main # "dial"
  BY DEF LockInv, StageInv
<1>3. /\ lock' \in Seq({"main", "sub", "unsub"}) /\ Len(lock') <= 3 /\ Distinct(lock')
      /\ \A x : In(x, lock)' <=> In(x, lock) \/ x = "sub"
      /\ Head(lock') = IF lock = <<>> THEN "sub" ELSE Head(lock)
  BY <1>2, LockPush
<1>4. LogTypeOK'
  BY <1>1, <1>3 DEF LogTypeOK
<1>5. MappedIsSubscribed' /\ IsFiniteSet(subscribed') /\ DropInv'
  BY DEF MappedIsSubscribed, DropInv
<1>6. LockInv'
  <2>1. unsub = "send" => lock # <<>>
    BY NothingIn DEF LockInv
  <2> QED
    BY <1>3, <2>1 DEF LockInv
<1>7. StageInv'
  BY <1>1, <1>2, MonitorAssumption DEF StageInv
<1>8. OnTime'
  <2>1. CASE lock = <<>>
    <3>1. sub' = "send" /\ slot' = Head(subQ) /\ subWallet' = Head(subQ)
      BY <2>1
    <3>2. Outstanding' = Outstanding + 1 /\ Outstanding \in Nat
      BY <3>1, OutstandingIs DEF Outstanding
    <3>3. SUFFICES ASSUME open, ~Late' PROVE Right'
      BY DEF OnTime
    <3>4. Outstanding = 0 /\ inbox = <<>> /\ main # "handle"
      <4>1. Outstanding = 0
        BY <3>2, <3>3 DEF Late
      <4> QED
        BY <4>1, OutstandingIs
    <3>5. Right
      BY <3>3, <3>4 DEF OnTime, Late
    <3> QED
      BY <1>1, <1>2, <3>1, <3>4, <3>5, NothingIn, MonitorAssumption DEF Right, LogTypeOK
  <2>2. CASE lock # <<>>
    <3>1. sub' = "lock" /\ slot' = slot /\ subWallet' = Head(subQ)
      BY <2>2
    <3>2. Outstanding' = Outstanding
      BY <3>1 DEF Outstanding
    <3> QED
      BY <1>1, <1>2, <3>1, <3>2, MonitorAssumption DEF OnTime, Late, Right, LogTypeOK
  <2> QED
    BY <2>1, <2>2
<1> QED
  BY <1>4, <1>5, <1>6, <1>7, <1>8

\* It holds the lock: the wallet is in the slot.
LEMMA SubLockKeeps ==
  ASSUME LogIInv, SubLock PROVE LogIInv'
<1> USE DEF LogIInv, SubLock, loop, node, ghosts
<1>1. subWallet \in Wallet /\ subWallet # None /\ unsub # "send"
  BY MonitorAssumption DEF StageInv, LockInv, LogTypeOK
<1>2. LogTypeOK'
  BY <1>1 DEF LogTypeOK
<1>3. MappedIsSubscribed' /\ IsFiniteSet(subscribed') /\ DropInv'
  BY DEF MappedIsSubscribed, DropInv
<1>4. LockInv'
  BY <1>1 DEF LockInv
<1>5. StageInv'
  BY <1>1 DEF StageInv
<1>6. OnTime'
  <2>1. Outstanding' = Outstanding + 1 /\ Outstanding \in Nat
    BY OutstandingIs DEF Outstanding
  <2>2. SUFFICES ASSUME open, ~Late' PROVE Right'
    BY DEF OnTime
  <2>3. Outstanding = 0 /\ inbox = <<>> /\ main # "handle"
    <3>1. Outstanding = 0
      BY <2>1, <2>2 DEF Late
    <3> QED
      BY <3>1, OutstandingIs
  <2>4. Right
    BY <2>2, <2>3 DEF OnTime, Late
  <2> QED
    BY <2>3, <2>4, NothingIn DEF Right
<1> QED
  BY <1>2, <1>3, <1>4, <1>5, <1>6

\* The request is sent, and the lock released before its result arrives.
LEMMA SubSendKeeps ==
  ASSUME LogIInv, SubSend PROVE LogIInv'
<1> USE DEF LogIInv, SubSend, loop, ghosts
<1>1. subWallet \in Wallet /\ subWallet # None /\ slot = subWallet
      /\ In("sub", lock) /\ Head(lock) = "sub" /\ unsub # "send"
  BY MonitorAssumption DEF StageInv, LockInv, LogTypeOK
<1>2. /\ lock' \in Seq({"main", "sub", "unsub"}) /\ Len(lock') <= 3 /\ Distinct(lock')
      /\ \A x : In(x, lock)' <=> In(x, lock) /\ x # "sub"
  BY <1>1, LockPop
<1>3. open => /\ inbox' \in Seq(Wallet) /\ Len(inbox') = Len(inbox) + 1
              /\ \A x : In(x, inbox)' <=> In(x, inbox) \/ x = subWallet
  <2>1. SUFFICES ASSUME open PROVE
          /\ inbox' \in Seq(Wallet) /\ Len(inbox') = Len(inbox) + 1
          /\ \A x : In(x, inbox)' <=> In(x, inbox) \/ x = subWallet
    OBVIOUS
  <2>2. inbox' = Append(inbox, subWallet) /\ inbox \in Seq(Wallet)
    BY <2>1 DEF LogTypeOK
  <2> QED
    BY <1>1, <2>2, AppendIn
<1>4. LogTypeOK'
  BY <1>1, <1>2, <1>3 DEF LogTypeOK
<1>5. MappedIsSubscribed' /\ IsFiniteSet(subscribed') /\ DropInv'
  BY DEF MappedIsSubscribed, DropInv
<1>6. LockInv'
  BY <1>1, <1>2 DEF LockInv
<1>7. StageInv'
  BY <1>1 DEF StageInv
<1>8. OnTime'
  <2>1. SUFFICES ASSUME open, ~Late' PROVE Right'
    BY DEF OnTime
  <2>2. Outstanding' = Outstanding /\ Outstanding \in Nat
    BY <2>1, <1>3, OutstandingIs DEF Outstanding
  <2>3. ~Late /\ Right
    BY <2>1, <2>2, <1>1 DEF Late, OnTime
  <2>4. inbox = <<>> /\ main # "handle"
    <3> DEFINE taken == IF main = "handle" THEN 1 ELSE 0
    <3>1. Outstanding = Len(inbox) + taken + 1 /\ taken \in {0, 1} /\ (main = "handle" => taken = 1)
      BY DEF Outstanding
    <3> HIDE DEF taken
    <3>2. Outstanding <= 1
      BY <2>2, <2>3 DEF Late
    <3>3. Len(inbox) = 0 /\ taken = 0
      BY <3>1, <3>2, OutstandingIs
    <3> QED
      BY <3>1, <3>3, OutstandingIs
  <2> QED
    BY <1>1, <1>3, <2>1, <2>3, <2>4, NothingIn DEF Right
<1> QED
  BY <1>4, <1>5, <1>6, <1>7, <1>8

\* A wallet that is unmapped was asked to be dropped.
LEMMA UnmapsKeeps ==
  ASSUME LogIInv, NEW w \in Wallet, Unmaps(w), w \in dropped, ids[w] # None, unsub # "send",
         UNCHANGED <<open, server, inbox, slot, main, result, sub, subWallet, subQ, dropped>>
  PROVE  /\ MappedIsSubscribed' /\ IsFiniteSet(subscribed') /\ OnTime'
         /\ ids' \in [Wallet -> Wallet \cup {None}] /\ subscribed' \subseteq subscribed
         /\ unsubWallet' \in Wallet
         /\ \A v \in Wallet : ids[v] = None => ids'[v] = None
<1> USE DEF LogIInv, Unmaps
<1>1. ids' \in [Wallet -> Wallet \cup {None}] /\ subscribed' = subscribed \ {w}
      /\ ids[w] \in Wallet /\ ids'[w] = None /\ \A v \in Wallet \ {w} : ids'[v] = ids[v]
  BY DEF LogTypeOK
<1>2. MappedIsSubscribed'
  BY <1>1 DEF MappedIsSubscribed
<1>3. IsFiniteSet(subscribed')
  BY <1>1, FS_Subset
<1>4. OnTime'
  <2>1. Outstanding' = Outstanding
    BY DEF Outstanding
  <2> QED
    BY <1>1, <2>1 DEF OnTime, Late, Right
<1> QED
  BY <1>1, <1>2, <1>3, <1>4

\* The unsubscription task takes a wallet, and asks for the lock if it is mapped.
LEMMA UnsubGetKeeps ==
  ASSUME LogIInv, UnsubGet PROVE LogIInv'
<1> DEFINE w == Head(unsubQ)
<1> USE DEF UnsubGet, loop, node, ghosts
<1>1. /\ w \in Wallet /\ unsubQ' \in Seq(Wallet) /\ w \in dropped
      /\ \A x : In(x, unsubQ)' => In(x, unsubQ)
  BY TailIn DEF LogIInv, LogTypeOK, DropInv
<1>2. unsub = "get" /\ ~In("unsub", lock) /\ unsubWallet = None
  BY DEF LogIInv, LockInv, StageInv
<1>3. CASE ids[w] = None
  <2>1. UNCHANGED <<ids, subscribed, lock, unsub, unsubWallet>>
    BY <1>3
  <2>2. LogTypeOK'
    BY <1>1, <2>1 DEF LogIInv, LogTypeOK
  <2>3. MappedIsSubscribed' /\ IsFiniteSet(subscribed') /\ DropInv' /\ LockInv'
    BY <1>1, <2>1 DEF LogIInv, MappedIsSubscribed, DropInv, LockInv
  <2>4. StageInv'
    BY <2>1 DEF LogIInv, StageInv
  <2>5. OnTime'
    BY <2>1 DEF LogIInv, OnTime, Late, Outstanding, Right
  <2> QED
    BY <2>2, <2>3, <2>4, <2>5 DEF LogIInv
<1>4. CASE ids[w] # None /\ lock = <<>>
  <2>1. Unmaps(w) /\ lock' = <<"unsub">> /\ unsub' = "send"
    BY <1>4 DEF Unmaps
  <2>2. /\ MappedIsSubscribed' /\ IsFiniteSet(subscribed') /\ OnTime'
        /\ ids' \in [Wallet -> Wallet \cup {None}] /\ subscribed' \subseteq subscribed
        /\ unsubWallet' \in Wallet
        /\ \A v \in Wallet : ids[v] = None => ids'[v] = None
    BY <1>1, <1>2, <1>4, <2>1, UnmapsKeeps
  <2>3. /\ lock' \in Seq({"main", "sub", "unsub"}) /\ Len(lock') = 1 /\ lock'[1] = "unsub" /\ Head(lock') = "unsub"
    BY <2>1
  <2>4. Distinct(lock') /\ \A x : In(x, lock)' <=> x = "unsub"
    BY <2>3 DEF Distinct, In
  <2>5. LogTypeOK'
    BY <1>1, <2>1, <2>2, <2>3 DEF LogIInv, LogTypeOK
  <2>6. LockInv'
    BY <1>4, <2>1, <2>3, <2>4, NothingIn DEF LogIInv, LockInv
  <2>7. DropInv'
    BY <1>1, <2>1 DEF LogIInv, DropInv
  <2>8. StageInv'
    BY <1>2, <2>1, <2>2, MonitorAssumption DEF LogIInv, StageInv
  <2> QED
    BY <2>2, <2>5, <2>6, <2>7, <2>8 DEF LogIInv
<1>5. CASE ids[w] # None /\ lock # <<>>
  <2>1. /\ lock' = Append(lock, "unsub") /\ unsub' = "lock" /\ unsubWallet' = w
        /\ UNCHANGED <<ids, subscribed>>
    BY <1>5
  <2>2. /\ lock' \in Seq({"main", "sub", "unsub"}) /\ Len(lock') <= 3 /\ Distinct(lock')
        /\ \A x : In(x, lock)' <=> In(x, lock) \/ x = "unsub"
        /\ Head(lock') = Head(lock)
    BY <1>2, <1>5, <2>1, LockPush DEF LogIInv
  <2>3. LogTypeOK'
    BY <1>1, <2>1, <2>2 DEF LogIInv, LogTypeOK
  <2>4. LockInv'
    BY <1>2, <2>1, <2>2 DEF LogIInv, LockInv
  <2>5. MappedIsSubscribed' /\ IsFiniteSet(subscribed') /\ DropInv'
    BY <1>1, <2>1 DEF LogIInv, DropInv, MappedIsSubscribed
  <2>6. StageInv'
    BY <1>1, <1>2, <2>1, MonitorAssumption DEF LogIInv, StageInv
  <2>7. OnTime'
    BY <2>1 DEF LogIInv, OnTime, Late, Outstanding, Right
  <2> QED
    BY <2>3, <2>4, <2>5, <2>6, <2>7 DEF LogIInv
<1> QED
  BY <1>3, <1>4, <1>5

\* It holds the lock.
LEMMA UnsubLockKeeps ==
  ASSUME LogIInv, UnsubLock PROVE LogIInv'
<1> USE DEF UnsubLock, loop, node, ghosts
<1>1. unsubWallet \in Wallet /\ unsubWallet \in dropped /\ In("unsub", lock) /\ Head(lock) = "unsub"
      /\ sub # "send"
  BY MonitorAssumption DEF LogIInv, StageInv, DropInv, LockInv, LogTypeOK
<1>2. CASE ids[unsubWallet] = None
  <2>1. /\ unsub' = "get" /\ unsubWallet' = None /\ lock' = Tail(lock)
        /\ UNCHANGED <<ids, subscribed>>
    BY <1>2
  <2>2. /\ lock' \in Seq({"main", "sub", "unsub"}) /\ Len(lock') <= 3 /\ Distinct(lock')
        /\ \A x : In(x, lock)' <=> In(x, lock) /\ x # "unsub"
    BY <1>1, <2>1, LockPop DEF LogIInv
  <2>3. LogTypeOK'
    BY <2>1, <2>2 DEF LogIInv, LogTypeOK
  <2>4. LockInv'
    BY <1>1, <2>1, <2>2 DEF LogIInv, LockInv
  <2>5. MappedIsSubscribed' /\ IsFiniteSet(subscribed') /\ DropInv'
    BY <2>1 DEF LogIInv, DropInv, MappedIsSubscribed
  <2>6. StageInv'
    BY <2>1 DEF LogIInv, StageInv
  <2>7. OnTime'
    BY <2>1 DEF LogIInv, OnTime, Late, Outstanding, Right
  <2> QED
    BY <2>3, <2>4, <2>5, <2>6, <2>7 DEF LogIInv
<1>3. CASE ids[unsubWallet] # None
  <2>1. Unmaps(unsubWallet) /\ lock' = lock /\ unsub' = "send"
    BY <1>3 DEF Unmaps
  <2>2. /\ MappedIsSubscribed' /\ IsFiniteSet(subscribed') /\ OnTime'
        /\ ids' \in [Wallet -> Wallet \cup {None}] /\ subscribed' \subseteq subscribed
        /\ unsubWallet' \in Wallet
        /\ \A v \in Wallet : ids[v] = None => ids'[v] = None
    BY <1>1, <1>3, <2>1, UnmapsKeeps
  <2>3. LogTypeOK'
    BY <2>1, <2>2 DEF LogIInv, LogTypeOK
  <2>4. LockInv'
    BY <1>1, <2>1 DEF LogIInv, LockInv
  <2>5. DropInv'
    BY <2>1 DEF LogIInv, DropInv
  <2>6. StageInv'
    BY <2>1, <2>2, MonitorAssumption DEF LogIInv, StageInv
  <2> QED
    BY <2>2, <2>3, <2>4, <2>5, <2>6 DEF LogIInv
<1> QED
  BY <1>2, <1>3

\* The request is sent, and the wallet unmapped.
LEMMA UnsubSendKeeps ==
  ASSUME LogIInv, UnsubSend PROVE LogIInv'
<1> USE DEF LogIInv, UnsubSend, loop, ghosts
<1>1. In("unsub", lock) /\ Head(lock) = "unsub" /\ sub # "send"
  BY DEF LockInv
<1>2. /\ lock' \in Seq({"main", "sub", "unsub"}) /\ Len(lock') <= 3 /\ Distinct(lock')
      /\ \A x : In(x, lock)' <=> In(x, lock) /\ x # "unsub"
  BY <1>1, LockPop
<1>3. LogTypeOK'
  BY <1>2 DEF LogTypeOK
<1>4. LockInv'
  BY <1>1, <1>2 DEF LockInv
<1>5. MappedIsSubscribed' /\ IsFiniteSet(subscribed') /\ DropInv'
  BY DEF DropInv, MappedIsSubscribed
<1>6. StageInv'
  BY DEF StageInv
<1>7. OnTime'
  <2>1. Outstanding' = Outstanding
    BY DEF Outstanding
  <2> QED
    BY <2>1 DEF OnTime, Late, Right
<1> QED
  BY <1>3, <1>4, <1>5, <1>6, <1>7

\* One step of each action, or none.
LEMMA LogKeeps == LogIInv /\ [LogNext]_logVars => LogIInv'
<1> SUFFICES ASSUME LogIInv, [LogNext]_logVars PROVE LogIInv'
  OBVIOUS
<1>1. CASE DialFails \/ NoticeLoss
  <2>1. CleansUp /\ main \in {"dial", "recv"}
        /\ UNCHANGED <<subQ, unsubQ, subscribed, slot, lock, result, retry, running, tasks, ghosts, confirmed>>
    BY <1>1 DEF DialFails, NoticeLoss
  <2>2. losses' \in 0..MaxLosses
    BY <1>1, MonitorAssumption DEF DialFails, NoticeLoss, Fault, LogIInv, LogTypeOK
  <2> QED
    BY <2>1, <2>2, CleansUpKeeps
<1>2. CASE UNCHANGED logVars
  <2> USE <1>2 DEF LogIInv, logVars, client, loop, tasks, node, ghosts
  <2>1. LogTypeOK' /\ MappedIsSubscribed' /\ IsFiniteSet(subscribed') /\ LockInv' /\ DropInv'
    BY DEF LogTypeOK, MappedIsSubscribed, LockInv, DropInv
  <2>2. StageInv' /\ OnTime'
    BY DEF StageInv, OnTime, Late, Outstanding, Right
  <2> QED
    BY <2>1, <2>2
<1> QED
  BY <1>1, <1>2, SubscribeKeeps, UnsubscribeKeeps, ConnectKeeps, LossKeeps, ReceiveKeeps,
     HandleKeeps, CleanupKeeps, PauseKeeps, SubGetKeeps, SubLockKeeps, SubSendKeeps,
     UnsubGetKeeps, UnsubLockKeeps, UnsubSendKeeps
  DEF LogNext, MainStep, TaskStep

\* At rest no result is outstanding, and no wallet is queued or in hand.
LEMMA RestTracked == LogIInv => BooksTracked
<1> SUFFICES ASSUME LogIInv, Quiet PROVE subscribed \ dropped \subseteq server
  BY DEF BooksTracked
<1> USE DEF Quiet, LogIInv
<1>1. Outstanding = 0
  BY OutstandingIs DEF Outstanding
<1>2. Right /\ subWallet = None
  BY <1>1 DEF OnTime, Late, StageInv
<1> QED
  BY <1>2, NothingIn, MonitorAssumption DEF Right, LogTypeOK

\* However often the connection is lost, whichever task waits for the lock, and although
\* a result may be taken for another wallet's: no subscription id without its wallet,
\* and at rest the node follows every wallet in the monitor's books.
THEOREM LogMonitorCorrect == LogSpec => []LogInv
<1>1. LogSpec => []LogIInv
  BY LogInitial, LogKeeps, PTL DEF LogSpec
<1>2. LogIInv => LogInv
  BY RestTracked DEF LogIInv, LogInv
<1> QED
  BY <1>1, <1>2, PTL
=============================================================================
