-------------------------------- MODULE Caches --------------------------------
(***************************************************************************)
(* The caches: what the preloader keeps in Redis for every transaction,    *)
(* and what the route of a swap is chosen by.  They share no key.          *)
(***************************************************************************)
EXTENDS CachePreloader, TokenRoute

VARIABLE part     \* bound: which of the two is followed

cachesVars == <<part, preloaderVars, routeVars>>

CachesInit ==
  /\ part \in {"preloader", "route"}
  /\ PreloaderInit /\ RouteInit
  \* the swaps of the part that is not followed stay where they are
  /\ part = "preloader" => pumpNamed /\ \A s \in Swap : swap[s].program = "ray"

Preloading(A) == part = "preloader" /\ A /\ UNCHANGED <<part, routeVars>>

Service == Preloading(ServiceStep)
Time == Preloading(Tick)
Read == Preloading(GetStep)
Update(c) == Preloading(UpdateStep(c))
Routing == part = "route" /\ RouteNext /\ UNCHANGED <<part, preloaderVars>>

CachesNext ==
  \/ Service \/ Time \/ Read
  \/ \E c \in Cache : Update(c)
  \/ Routing

CachesSpec == CachesInit /\ [][CachesNext]_cachesVars

(***************************************************************************)
(* The event loop runs the tasks of the preloader, and time passes.        *)
(***************************************************************************)
CachesFairSpec ==
  /\ CachesSpec
  /\ WF_cachesVars(Time) /\ WF_cachesVars(Service)
  /\ \A c \in Cache : WF_cachesVars(Update(c))

-----------------------------------------------------------------------------
\* No value in Redis gets older than the expiry and its way there, whoever
\* stored it: a block hash is never used long after the node gave it.
Fresh == \A c \in Cache : entry[c].age + entry[c].ttl <= Interval + MaxDelay

\* While the loop of a cache rests, what its value has left to live and the time
\* by which the answer of SET was late outlast the sleep: the key is missing for
\* less than that lateness, and never when the answer was not late.
FilledWhileResting ==
  \A c \in Cache :
    loop[c].at = "rest" /\ c \notin cancelled =>
      entry[c].ttl + loop[c].age > loop[c].wake

CachesTypeOK ==
  /\ \A c \in Cache :
       /\ entry[c].ttl \in 0..Interval
       /\ loop[c].at \in {"none", "gen", "set", "answer", "rest", "sleep", "done"}
  /\ cancelled \cap is_running = {}
  /\ listed \subseteq Pool /\ rows \subseteq Pool /\ held \subseteq Pool

\* Values in Redis are fresh, and missing while their loop rests only by as much
\* as the answer of SET was late; a token is taken for launched only if
\* it is; a swap fails for want of a pool only with a reason.
CachesInv ==
  /\ CachesTypeOK /\ Fresh /\ FilledWhileResting
  /\ LaunchedIsLaunched /\ RaceAbsorbed

\* Once a call of stop() has turned to the caches no update loop starts again,
\* although the monitor restarts what is not running.
StaysStopped ==
  [][(\E s \in Calls : stops[s] \in {"caches", "returned"}) => is_running' \subseteq is_running]_cachesVars

\* The signal ends start() and every update loop.
StopEnds ==
  (stops["signal"] # "none") ~>
    (stops["finally"] = "returned" /\ \A c \in Cache : loop[c].at = "done")

\* As long as the preloader is not stopped, a cache that lost its value gets one
\* again, whatever failed before.
KeepsFilled ==
  \A c \in Cache :
    (loop[c].at # "none") ~> (entry[c].ttl > 0 \/ shutdown)

-----------------------------------------------------------------------------
(***************************************************************************)
(* What one would expect of the code and it does not do                    *)
(***************************************************************************)
\* The sleep of update_interval - 1 (base.py:63) is there so that the key never
\* expires under a loop that rests.  The expiry runs from the moment Redis
\* executes the SET, the sleep from its answer: an answer a second late uses up
\* the second between them, and the readers find nothing.
FilledAtRest ==
  \A c \in Cache : loop[c].at = "rest" /\ c \notin cancelled => entry[c].ttl > 0
=============================================================================
