------------------------------- MODULE TxIntake -------------------------------
(***************************************************************************)
(* How what the tracker is told of a watched wallet becomes an event.  Two *)
(* pools of workers take from Redis lists:                                 *)
(*   - TransactionDetailSubscriber (wss/tx_subscriber.py) takes signatures *)
(*     from rpc:tx_signature:new, asks every RPC endpoint at once for the  *)
(*     transaction and pushes the first answer to rpc:tx_detail:new;       *)
(*   - TransactionWorker (tx_worker.py) takes transactions from there,     *)
(*     parses them and adds an event to the stream tx_event:new.           *)
(* With Geyser transactions arrive whole and the first pool does not exist. *)
(*                                                                         *)
(* What moves along the pools is a notification, one message of one        *)
(* subscription.  AccountLogMonitor has a subscription per wallet and      *)
(* pushes the signature of every notification, so a transaction that       *)
(* mentions two watched wallets is in the lists twice, as two equal        *)
(* strings.  Here each is labelled with the notification that pushed it,   *)
(* and any of them may be the one that is popped.                          *)
(*                                                                         *)
(* BRPOP removes what it returns: until a worker has stored its result the *)
(* message exists in its memory only.  What fails goes to one of two   *)
(* lists of failures, which nothing reads.                                 *)
(*                                                                         *)
(* A pool's lock admits one BRPOP at a time.  BRPOP is atomic, so the lock *)
(* decides nothing here.  The timeline of the benchmark service is left    *)
(* out; its task ends the whole process when Redis fails (Crash).          *)
(***************************************************************************)
EXTENDS Integers

CONSTANTS
  Notice,       \* the notifications of the node, one of one subscription each
  Tx, TxOf,     \* the transaction a notification tells of
  Whole,        \* those that bring the transaction (Geyser), not its signature
  Fetcher,      \* the RPC endpoints
  FetchWorker, ParseWorker,
  MaxFaults,    \* bound: commands that fail or whose answer is lost
  MaxBoots      \* bound: lives of the wallet tracker

ASSUME ConstantsAssumption ==
  /\ TxOf \in [Notice -> Tx] /\ Whole \subseteq Notice /\ Fetcher # {}
  /\ FetchWorker \cap ParseWorker = {}
  /\ MaxFaults \in Nat /\ MaxBoots \in Nat

VARIABLES
  signatures,   \* list rpc:tx_signature:new
  details,      \* list rpc:tx_detail:new
  fetchFailed,  \* list rpc:tx_signature:failed
  parseFailed,  \* list tx_detail:failed
  worker,       \* the await of each worker, and what it has in its hand
  up,           \* does the process run
  \* history, never read by the code
  detected,     \* the notifications that have arrived
  published,    \* how often one has made an event in tx_event:new
  dismissed,    \* parsed and found to be no swap, without change, or of no known type
  lost,         \* those for which one of the causes below has happened
  boots, faults

lists == <<signatures, details, fetchFailed, parseFailed>>
history == <<detected, published, dismissed, lost>>
vars == <<lists, worker, up, history, boots, faults>>

Worker == FetchWorker \cup ParseWorker

\* asked: the endpoints whose answer is still awaited
At(s, n) == [stage |-> s, has |-> {n}, asked |-> {}]
Free == [stage |-> "brpop", has |-> {}, asked |-> {}]
WorkerType ==
  [stage : {"brpop", "fetch", "push", "fetchFail", "publish", "parseFail"},
   has : SUBSET Notice, asked : SUBSET Fetcher]

Replies == {"ok", "refused", "lost"}
Reply(r) ==
  /\ r = "ok" \/ faults < MaxFaults
  /\ faults' = IF r = "ok" THEN faults ELSE faults + 1

Stages(w) ==
  IF w \in FetchWorker THEN {"fetch", "push", "fetchFail"} ELSE {"publish", "parseFail"}

\* A worker that does not wait in BRPOP has one notification in its hand, no two
\* of a pool have the same, and only the stages of its own pool occur.
TypeOK ==
  /\ signatures \subseteq Notice /\ details \subseteq Notice
  /\ fetchFailed \subseteq Notice /\ parseFailed \subseteq Notice
  /\ worker \in [Worker -> WorkerType] /\ up \in BOOLEAN
  /\ \A w \in Worker :
       \/ worker[w] = Free
       \/ up /\ worker[w].stage \in Stages(w) /\ \E n \in Notice : worker[w].has = {n}
  /\ \A v, w \in Worker :
       (v # w /\ (v \in FetchWorker <=> w \in FetchWorker))
         => worker[v].has \cap worker[w].has = {}
  /\ detected \subseteq Notice /\ dismissed \subseteq Notice /\ lost \subseteq Notice
  /\ published \in [Notice -> Nat]
  /\ boots \in 0..MaxBoots /\ faults \in 0..MaxFaults

Init ==
  /\ signatures = {} /\ details = {} /\ fetchFailed = {} /\ parseFailed = {}
  /\ worker = [w \in Worker |-> Free] /\ up = FALSE
  /\ detected = {} /\ published = [n \in Notice |-> 0] /\ dismissed = {} /\ lost = {}
  /\ boots = 0 /\ faults = 0

-----------------------------------------------------------------------------
(***************************************************************************)
(* The process                                                             *)
(***************************************************************************)
\* A notification arrives, once; others may tell of the same transaction.
\* process_log of AccountLogMonitor pushes a signature, a worker of GeyserSubscriber
\* a transaction; one whose push failed was only logged and is not detected here.
Detect(n) ==
  /\ up /\ n \notin detected
  /\ detected' = detected \cup {n}
  /\ IF n \in Whole THEN details' = details \cup {n} /\ UNCHANGED signatures
     ELSE signatures' = signatures \cup {n} /\ UNCHANGED details
  /\ UNCHANGED <<fetchFailed, parseFailed, worker, up, published, dismissed, lost, boots, faults>>

Boot ==
  /\ ~up /\ boots < MaxBoots
  /\ up' = TRUE /\ boots' = boots + 1
  /\ UNCHANGED <<lists, worker, history, faults>>

\* cause: what the workers have in their hands is lost
Crash ==
  /\ up
  /\ up' = FALSE /\ worker' = [w \in Worker |-> Free]
  /\ lost' = lost \cup UNION {worker[w].has : w \in Worker}
  /\ UNCHANGED <<lists, detected, published, dismissed, boots, faults>>

-----------------------------------------------------------------------------
(***************************************************************************)
(* TransactionDetailSubscriber                                             *)
(***************************************************************************)
Becomes(w, s) == worker' = [worker EXCEPT ![w] = s]
Holds(w, stage, n) == worker[w].stage = stage /\ worker[w].has = {n}

TakeSignatureKeeps(w, n) ==   \* mutant: the list is read, not popped
  /\ up /\ w \in FetchWorker /\ worker[w] = Free /\ n \in signatures
  /\ Becomes(w, [stage |-> "fetch", has |-> {n}, asked |-> Fetcher])
  /\ UNCHANGED <<lists, up, history, boots, faults>>

\* cause: BRPOP took the signature and its answer is lost
TakeSignature(w, n) ==
  /\ up /\ w \in FetchWorker /\ worker[w] = Free /\ n \in signatures
  /\ signatures' = signatures \ {n}
  /\ \/ /\ Reply("ok") /\ UNCHANGED lost
        /\ Becomes(w, [stage |-> "fetch", has |-> {n}, asked |-> Fetcher])
     \/ Reply("lost") /\ lost' = lost \cup {n} /\ UNCHANGED worker
  /\ UNCHANGED <<details, fetchFailed, parseFailed, up, detected, published, dismissed, boots>>

FetchWaits(w, n, f) ==     \* mutant: the loop does not end with the last answer
  /\ Holds(w, "fetch", n) /\ f \in worker[w].asked
  /\ \/ Becomes(w, At("push", n))
     \/ Becomes(w, [worker[w] EXCEPT !.asked = @ \ {f}])
  /\ UNCHANGED <<lists, up, history, boots, faults>>

\* One endpoint answers: the first transaction cancels the other requests, an
\* error or "not found" waits for them. The last one gives up.
Fetch(w, n, f) ==
  /\ Holds(w, "fetch", n) /\ f \in worker[w].asked
  /\ \/ Becomes(w, At("push", n))
     \/ Becomes(w, IF worker[w].asked = {f} THEN At("fetchFail", n)
                   ELSE [worker[w] EXCEPT !.asked = @ \ {f}])
  /\ UNCHANGED <<lists, up, history, boots, faults>>

PushOnce(w, n) ==         \* mutant: a failed LPUSH is logged and forgotten
  /\ Holds(w, "push", n) /\ Becomes(w, Free)
  /\ \E r \in Replies :
       /\ Reply(r)
       /\ details' = IF r = "refused" THEN details ELSE details \cup {n}
  /\ UNCHANGED <<signatures, fetchFailed, parseFailed, up, history, boots>>

PushAgain(w, n) ==        \* mutant: a failed LPUSH returns the signature
  /\ Holds(w, "push", n) /\ Becomes(w, Free)
  /\ \E r \in Replies :
       /\ Reply(r)
       /\ details' = IF r = "refused" THEN details ELSE details \cup {n}
       /\ signatures' = IF r = "ok" THEN signatures ELSE signatures \cup {n}
  /\ UNCHANGED <<fetchFailed, parseFailed, up, history, boots>>

Push(w, n) ==
  /\ Holds(w, "push", n)
  /\ \E r \in Replies :
       /\ Reply(r)
       /\ details' = IF r = "refused" THEN details ELSE details \cup {n}
       /\ Becomes(w, IF r = "ok" THEN Free ELSE At("fetchFail", n))
  /\ UNCHANGED <<signatures, fetchFailed, parseFailed, up, history, boots>>

\* cause: the list of failures cannot be reached either
FileFetch(w, n) ==
  /\ Holds(w, "fetchFail", n) /\ Becomes(w, Free)
  /\ \/ /\ \E r \in {"ok", "lost"} : Reply(r)
        /\ fetchFailed' = fetchFailed \cup {n} /\ UNCHANGED lost
     \/ Reply("refused") /\ lost' = lost \cup {n} /\ UNCHANGED fetchFailed
  /\ UNCHANGED <<signatures, details, parseFailed, up, detected, published, dismissed, boots>>

-----------------------------------------------------------------------------
(***************************************************************************)
(* TransactionWorker                                                       *)
(***************************************************************************)
\* BRPOP and the parser, which does not suspend.
\* cause: the answer of BRPOP is lost, or the transaction has several signatures,
\* for which get_tx_hash raises before the try
TakeDetail(w, n) ==
  /\ up /\ w \in ParseWorker /\ worker[w] = Free /\ n \in details
  /\ details' = details \ {n}
  /\ \/ /\ Reply("ok") /\ UNCHANGED lost
        /\ \/ Becomes(w, At("publish", n)) /\ UNCHANGED dismissed
           \/ Becomes(w, At("parseFail", n)) /\ UNCHANGED dismissed
           \/ dismissed' = dismissed \cup {n} /\ UNCHANGED worker
     \/ /\ \E r \in {"ok", "lost"} : Reply(r)
        /\ lost' = lost \cup {n} /\ UNCHANGED <<worker, dismissed>>
  /\ UNCHANGED <<signatures, fetchFailed, parseFailed, up, detected, published, boots>>

\* TxEventProducer.produce logs the error of XADD. cause: it was refused
Publish(w, n) ==
  /\ Holds(w, "publish", n) /\ Becomes(w, Free)
  /\ \/ /\ \E r \in {"ok", "lost"} : Reply(r)
        /\ published' = [published EXCEPT ![n] = @ + 1] /\ UNCHANGED lost
     \/ Reply("refused") /\ lost' = lost \cup {n} /\ UNCHANGED published
  /\ UNCHANGED <<lists, up, detected, dismissed, boots>>

\* cause: the list of failures cannot be reached
FileParse(w, n) ==
  /\ Holds(w, "parseFail", n) /\ Becomes(w, Free)
  /\ \/ /\ \E r \in {"ok", "lost"} : Reply(r)
        /\ parseFailed' = parseFailed \cup {n} /\ UNCHANGED lost
     \/ Reply("refused") /\ lost' = lost \cup {n} /\ UNCHANGED parseFailed
  /\ UNCHANGED <<signatures, details, fetchFailed, up, detected, published, dismissed, boots>>

WorkerStep(w) ==
  \E n \in Notice :
    \/ TakeSignature(w, n) \/ Push(w, n) \/ FileFetch(w, n)
    \/ \E f \in Fetcher : Fetch(w, n, f)
    \/ TakeDetail(w, n) \/ Publish(w, n) \/ FileParse(w, n)

Next ==
  \/ \E n \in Notice : Detect(n)
  \/ \E w \in Worker : WorkerStep(w)
  \/ Boot \/ Crash

Spec == Init /\ [][Next]_vars

\* The event loop runs every worker, docker-compose restarts the tracker.
FairSpec == Spec /\ WF_vars(Boot) /\ \A w \in Worker : WF_vars(WorkerStep(w))

-----------------------------------------------------------------------------
(***************************************************************************)
(* Properties                                                              *)
(***************************************************************************)
InHand == UNION {worker[w].has : w \in Worker}
Filed == fetchFailed \cup parseFailed \cup dismissed \cup {n \in Notice : published[n] > 0}

\* What the tracker was told never vanishes without trace: it waits in a list, is
\* in a worker's hand, has been dealt with, or fell to a named cause: a crash, a
\* lost answer, several signatures, a refused last command.
NothingVanishes == detected \subseteq signatures \cup details \cup InHand \cup Filed \cup lost

\* However commands fail and answers get lost, a notification makes at most one
\* event, and none when the parser has dismissed it or failed on it: between the
\* node and the stream nothing is duplicated.
PublishedOnce ==
  \A n \in Notice : /\ published[n] <= 1
                    /\ n \in dismissed \cup parseFailed => published[n] = 0

\* Why it holds, and the inductive invariant of WalletTrackerProofs: it moves
\* along the two pools and is never in front of a pool it has passed.  Only an LPUSH
\* whose answer is lost leaves it behind as well, with a worker that will file it
\* as failed and not push it again.
Parsing(n) == \E w \in ParseWorker : n \in worker[w].has
Answered(n) == published[n] > 0 \/ n \in dismissed \cup parseFailed
Upstream(n) ==
  \/ n \in signatures
  \/ \E w \in FetchWorker : n \in worker[w].has /\ worker[w].stage # "fetchFail"

MovesOn(n) ==
  /\ n \in signatures => \A w \in FetchWorker : n \notin worker[w].has
  /\ Upstream(n) => n \notin details /\ ~Parsing(n) /\ ~Answered(n)
  /\ n \in details => ~Parsing(n) /\ ~Answered(n)
  /\ Parsing(n) => ~Answered(n)
  /\ n \notin detected =>
       n \notin signatures \cup details \cup InHand /\ ~Answered(n)

Forward == \A n \in Notice : MovesOn(n)

Inv == TypeOK /\ NothingVanishes /\ PublishedOnce /\ Forward

\* Every notification is dealt with in the end, whatever the order of the two
\* pools and across restarts, unless it was lost or no restart is left.
EventuallyFiled ==
  \A n \in Notice : n \in detected ~> n \in Filed \cup lost \/ (~up /\ boots = MaxBoots)

-----------------------------------------------------------------------------
(***************************************************************************)
(* What one would expect of the code and it does not do                    *)
(***************************************************************************)
\* A transaction makes one event.  process_log has no memory of signatures, so
\* one that mentions two watched wallets makes two, and its leader is copied twice.
OneEventPerTransaction ==
  \A m, n \in Notice :
    (m # n /\ TxOf[m] = TxOf[n]) => published[m] = 0 \/ published[n] = 0
===============================================================================
