------------------------------ MODULE TokenRoute ------------------------------
(***************************************************************************)
(* Which protocol a swap of one token uses, and the caches that decide it: *)
(* LaunchCache, a result kept for ever, and RaydiumPoolStoreage, a sorted  *)
(* set of pools and their data in Redis with rows in the database behind.  *)
(* Swaps run concurrently; each asks for the pool twice, once to choose    *)
(* the route, where errors are swallowed, and once to build.               *)
(***************************************************************************)
EXTENDS Integers, FiniteSets

CONSTANTS
  Swap,         \* swaps of the token that run at the same time
  Pool,         \* pools the API may list first for it; without one Raydium is no route
  NoPool,
  MaxLength,    \* max_length of the sorted set
  MaxFailures   \* bound: failing answers of the API or the RPC node

ASSUME RouteAssumption ==
  /\ NoPool \notin Pool
  /\ MaxLength \in Nat \ {0}
  /\ MaxFailures \in Nat

VARIABLES
  pumpNamed,  \* the address of the token ends in "pump"
  migrated,   \* the token left its bonding curve
  memo,       \* what LaunchCache keeps: "none", or a result
  listed,     \* the pools in the sorted set; any may have the highest priority
  held,       \* pools whose data Redis has
  rows,       \* pools with a row in the database (pool_id is unique)
  swap,       \* per swap its await: [at, program, phase, route, pool, num]
  failures    \* failed answers so far

routeVars == <<pumpNamed, migrated, memo, listed, held, rows, swap, failures>>

Programs == {"pump", "ray", "none"}

\* The caches do not know the token.  Data lives a week: what a swap stores
\* outlives it.
RouteInit ==
  /\ pumpNamed \in BOOLEAN /\ migrated = FALSE
  /\ memo = "none"
  /\ listed = {} /\ held = {} /\ rows = {}
  /\ swap \in [Swap -> {[at |-> "asked", program |-> g, phase |-> "route",
                         route |-> "none", pool |-> NoPool, num |-> 0] : g \in Programs}]
  /\ failures = 0

\* The token leaves its bonding curve.
Migrate ==
  /\ pumpNamed /\ ~migrated
  /\ migrated' = TRUE
  /\ UNCHANGED <<pumpNamed, memo, listed, held, rows, swap, failures>>

\* A swap goes on to an await, or fails.
Goes(s, at) == swap' = [swap EXCEPT ![s].at = at]
GoesWith(s, at, p, n) == swap' = [swap EXCEPT ![s].at = at, ![s].pool = p, ![s].num = n]
Failing == failures < MaxFailures /\ failures' = failures + 1

-----------------------------------------------------------------------------
(***************************************************************************)
(* find_route: the launch status                                           *)
(***************************************************************************)
\* The route without Pump; a program the executor does not know raises.
Otherwise(g) ==
  CASE g = "ray"  -> "RAYDIUM_V4"
    [] g = "none" -> "DEX"
    [] OTHER      -> "unsupported"

\* find_route ends: the builder of RAYDIUM_V4 asks for the pool again.
Routed(s, r) ==
  swap' = [swap EXCEPT ![s].route = r, ![s].phase = "build", ![s].pool = NoPool,
                       ![s].num = 0, ![s].at = IF r = "RAYDIUM_V4" THEN "top"
                                 ELSE IF r = "unsupported" THEN "failed" ELSE "built"]

RoutesUnwarmed(s, launched) ==   \* mutant: the pool, which is only logged, is not looked up
  IF swap[s].program = "pump" \/ (pumpNamed /\ ~launched)
  THEN Routed(s, "PUMP")
  ELSE Routed(s, Otherwise(swap[s].program))

\* With the launch status known: Pump, or a look at the pool.
Routes(s, launched) ==
  IF swap[s].program = "pump" \/ (pumpNamed /\ ~launched)
  THEN Routed(s, "PUMP")
  ELSE Goes(s, "top")

\* @cached: a result in Redis, whatever it is, is served.
AskMemo(s) ==
  /\ swap[s].at = "asked"
  /\ IF memo = "none" THEN Goes(s, "curve") ELSE Routes(s, memo = "launched")
  /\ UNCHANGED <<pumpNamed, migrated, memo, listed, held, rows, failures>>

\* The reserves of the bonding curve; an error makes find_route ignore them.
ReadCurve(s) ==
  /\ swap[s].at = "curve"
  /\ \/ GoesWith(s, "memo", NoPool, IF migrated THEN 1 ELSE 0) /\ UNCHANGED failures
     \/ Failing /\ Routed(s, Otherwise(swap[s].program))
  /\ UNCHANGED <<pumpNamed, migrated, memo, listed, held, rows>>

KeepInverted(s) ==      \* mutant: the reserves compared the wrong way round
  /\ swap[s].at = "memo"
  /\ memo' = IF swap[s].num = 0 THEN "launched" ELSE "curve"
  /\ Routes(s, swap[s].num = 0)
  /\ UNCHANGED <<pumpNamed, migrated, listed, held, rows, failures>>

\* The result is kept without expiry.
Keep(s) ==
  /\ swap[s].at = "memo"
  /\ memo' = IF swap[s].num = 1 THEN "launched" ELSE "curve"
  /\ Routes(s, swap[s].num = 1)
  /\ UNCHANGED <<pumpNamed, migrated, listed, held, rows, failures>>

(***************************************************************************)
(* get_preferred_pool.  What it raises is swallowed by find_route and      *)
(* fails the build.                                                        *)
(***************************************************************************)
Ends(s, at) ==
  IF swap[s].phase = "route" THEN Routed(s, Otherwise(swap[s].program))
  ELSE GoesWith(s, at, NoPool, 0)

Raises(s)  == Ends(s, "failed")
Answers(s) == Ends(s, "built")

\* ZREVRANGE of the pool with the highest priority.
FindTop(s) ==
  /\ swap[s].at = "top"
  /\ \/ listed = {} /\ Goes(s, "row")
     \/ \E p \in listed : GoesWith(s, "bump", p, 0)
  /\ UNCHANGED <<pumpNamed, migrated, memo, listed, held, rows, failures>>

\* ZINCRBY, which adds the pool again if it was trimmed since.
Bump(s) ==
  /\ swap[s].at = "bump"
  /\ listed' = listed \cup {swap[s].pool}
  /\ Goes(s, "data")
  /\ UNCHANGED <<pumpNamed, migrated, memo, held, rows, failures>>

ReadData(s) ==
  /\ swap[s].at = "data"
  /\ IF swap[s].pool \in held THEN Answers(s) ELSE GoesWith(s, "fetch", NoPool, 0)
  /\ UNCHANGED <<pumpNamed, migrated, memo, listed, held, rows, failures>>

\* scalar_one_or_none raises when the mint has several rows.
ReadRow(s) ==
  /\ swap[s].at = "row"
  /\ CASE rows = {}             -> Goes(s, "fetch")
       [] Cardinality(rows) = 1 -> Answers(s)
       [] OTHER                 -> Raises(s)
  /\ UNCHANGED <<pumpNamed, migrated, memo, listed, held, rows, failures>>

\* The first pool the API lists, and its accounts.
Fetch(s) ==
  /\ swap[s].at = "fetch"
  /\ \/ \E p \in Pool : GoesWith(s, "add", p, 0) /\ UNCHANGED failures
     \/ Failing /\ Raises(s)
  /\ UNCHANGED <<pumpNamed, migrated, memo, listed, held, rows>>

(***************************************************************************)
(* RaydiumPoolStoreage.update                                              *)
(***************************************************************************)
\* push: ZSCORE, then ZADD with one more or with one.  The trim that follows has
\* the prefix of the key twice and finds nothing there.
AddScore(s) ==
  /\ swap[s].at = "add"
  /\ listed' = listed \cup {swap[s].pool}
  /\ Goes(s, "store")
  /\ UNCHANGED <<pumpNamed, migrated, memo, held, rows, failures>>

Store(s) ==
  /\ swap[s].at = "store"
  /\ held' = held \cup {swap[s].pool}
  /\ Goes(s, "length")
  /\ UNCHANGED <<pumpNamed, migrated, memo, listed, rows, failures>>

\* trim_queue: ZCARD, ...
ReadLength(s) ==
  /\ swap[s].at = "length"
  /\ GoesWith(s, "trim", swap[s].pool, Cardinality(listed))
  /\ UNCHANGED <<pumpNamed, migrated, memo, listed, held, rows, failures>>

\* ... and ZREMRANGEBYRANK of as many as were too many when it was read.
Trim(s) ==
  /\ swap[s].at = "trim"
  /\ LET n == swap[s].num - MaxLength IN
     IF n > 0
     THEN \E gone \in SUBSET listed :
            /\ Cardinality(gone) = n \/ (gone = listed /\ Cardinality(gone) < n)
            /\ listed' = listed \ gone
     ELSE UNCHANGED listed
  /\ GoesWith(s, "select", swap[s].pool, 0)
  /\ UNCHANGED <<pumpNamed, migrated, memo, held, rows, failures>>

Select(s) ==
  /\ swap[s].at = "select"
  /\ IF swap[s].pool \in rows THEN Answers(s) ELSE Goes(s, "insert")
  /\ UNCHANGED <<pumpNamed, migrated, memo, listed, held, rows, failures>>

\* The commit fails when another swap inserted the pool in the meantime.
Insert(s) ==
  /\ swap[s].at = "insert"
  /\ rows' = rows \cup {swap[s].pool}
  /\ IF swap[s].pool \in rows THEN Raises(s) ELSE Answers(s)
  /\ UNCHANGED <<pumpNamed, migrated, memo, listed, held, failures>>

SwapStep(s) ==
  \/ AskMemo(s) \/ ReadCurve(s) \/ Keep(s)
  \/ FindTop(s) \/ Bump(s) \/ ReadData(s) \/ ReadRow(s) \/ Fetch(s)
  \/ AddScore(s) \/ ReadLength(s) \/ Trim(s) \/ Store(s)
  \/ Select(s) \/ Insert(s)

RouteNext ==
  \/ Migrate
  \/ \E s \in Swap : SwapStep(s)

RouteSpec == RouteInit /\ [][RouteNext]_routeVars

-----------------------------------------------------------------------------
\* A token is taken for launched only if it is.
LaunchedIsLaunched ==
  /\ memo = "launched" => migrated
  /\ \A s \in Swap : swap[s].at = "memo" /\ swap[s].num = 1 => migrated

\* The pools the API has named so far: stored, or about to be.
Named == held \cup {swap[s].pool : s \in {t \in Swap : swap[t].at \in {"add", "store"}}}

\* Swaps of a token that is new to the caches find its pool unless the API or the
\* node fails: the error of the swap that loses the race to insert the row hits
\* find_route, which only logs the pool, and the builder then finds it.  Once the
\* API has named a second pool, listed before its data is there, or trimmed with
\* the first, the race can be lost in the builder as well.
RaceAbsorbed ==
  \A s \in Swap :
    swap[s].at = "failed" =>
      \/ swap[s].route = "unsupported" \/ failures > 0
      \/ \E p, q \in Named : p # q

(***************************************************************************)
(* What the code says of itself and does not do                            *)
(***************************************************************************)
\* launch.py:36 "如果代币已发射返回 True，否则返回 False" (True if the token is launched): a swap
\* of a token that has left its curve does not go back to Pump.
LaunchFollowed ==
  [][\A s \in Swap :
       swap[s].at = "asked" /\ migrated /\ swap[s].program = "ray" =>
         swap'[s].route # "PUMP"]_routeVars
=============================================================================
