---------------------------- MODULE CachePreloader ----------------------------
(***************************************************************************)
(* The cache preloader: one update loop per cache, the task that monitors  *)
(* them, and a shutdown in which stop() runs twice, once as the task of    *)
(* the signal handler and once in the finally of start().                  *)
(*                                                                         *)
(* Time passes in Tick, by which every timer counts down.  An age is the   *)
(* time since the RPC node gave the value, and, once Redis has executed    *)
(* the SET of a loop, the time its answer takes: the expiry runs from the  *)
(* one, the sleep of the loop from the other.                              *)
(***************************************************************************)
EXTENDS Integers, FiniteSets

CONSTANTS
  Cache,        \* the caches: block hash, minimal rent
  Interval,     \* update_interval, and the ex of every SET
  Pause,        \* period of the monitor
  MaxDelay,     \* bound: time a value is on its way to Redis, or an answer back
  MaxTrouble    \* bound: failing calls

ASSUME PreloaderAssumption ==
  /\ Interval \in Nat /\ Interval > 1
  /\ Pause \in Nat \ {0}
  /\ MaxDelay \in Nat /\ MaxTrouble \in Nat

VARIABLES
  entry,      \* per key what Redis holds: [age, ttl], or ttl = 0 for nothing
  loop,       \* per cache the update task: [at, age, wake]
  is_running, \* caches whose _is_running is set
  cancelled,  \* caches whose update task has to end
  get,        \* bound: one reader with a value on its way: [busy, cache, age]
  monitor,    \* the monitor task: [at, wake]
  shutdown,   \* _shutdown_event
  stops,      \* the two calls of stop(): where each is
  trouble     \* failed calls so far

preloaderVars ==
  <<entry, loop, is_running, cancelled, get, monitor, shutdown, stops, trouble>>

Calls   == {"signal", "finally"}
Nothing == [age |-> 0, ttl |-> 0]
NoGet   == [busy |-> FALSE, cache |-> CHOOSE c \in Cache : TRUE, age |-> 0]

Loop(a, n) == [at |-> a, age |-> 0, wake |-> n]

PreloaderInit ==
  /\ entry = [c \in Cache |-> Nothing]
  /\ loop = [c \in Cache |-> Loop("none", 0)]
  /\ is_running = {} /\ cancelled = {}
  /\ get = NoGet
  /\ monitor = [at |-> "none", wake |-> 0]
  /\ shutdown = FALSE
  /\ stops = [s \in Calls |-> "none"]
  /\ trouble = 0

Fault == trouble < MaxTrouble /\ trouble' = trouble + 1

\* start() of the caches C: a running one is left alone.
Starts(C) ==
  /\ is_running' = is_running \cup C
  /\ loop' = [c \in Cache |-> IF c \in C \ is_running THEN Loop("gen", 0) ELSE loop[c]]

(***************************************************************************)
(* AutoUpdateCacheService.start, up to the wait for the shutdown event     *)
(***************************************************************************)
StartCaches ==
  /\ monitor.at = "none" /\ is_running = {} /\ ~shutdown
  /\ Starts(Cache)
  /\ UNCHANGED <<entry, cancelled, get, monitor, shutdown, stops, trouble>>

CreateMonitor ==
  /\ monitor.at = "none" /\ (is_running # {} \/ shutdown)
  /\ monitor' = [at |-> "check", wake |-> 0]
  /\ UNCHANGED <<entry, loop, is_running, cancelled, get, shutdown, stops, trouble>>

\* Each round of _monitor restarts what is not running.
Check ==
  /\ monitor.at = "check" /\ monitor.wake = 0
  /\ IF shutdown THEN monitor' = [at |-> "done", wake |-> 0] /\ UNCHANGED <<is_running, loop>>
     ELSE monitor' = [at |-> "check", wake |-> Pause] /\ Starts(Cache)
  /\ UNCHANGED <<entry, cancelled, get, shutdown, stops, trouble>>

(***************************************************************************)
(* _auto_update of one cache                                               *)
(***************************************************************************)
\* _gen_new_value: the RPC node answers, or the call raises.
Generate(c) ==
  /\ loop[c].at = "gen" /\ c \notin cancelled
  /\ \/ loop' = [loop EXCEPT ![c] = Loop("set", 0)] /\ UNCHANGED trouble
     \/ loop' = [loop EXCEPT ![c] = Loop("sleep", 1)] /\ Fault
  /\ UNCHANGED <<entry, is_running, cancelled, get, monitor, shutdown, stops>>

Stored(age) == [age |-> age, ttl |-> Interval]

\* Redis executes SET ex=Interval, or the call raises, executed or not.
Set(c) ==
  /\ loop[c].at = "set" /\ c \notin cancelled
  /\ \/ /\ entry' = [entry EXCEPT ![c] = Stored(loop[c].age)]
        /\ loop' = [loop EXCEPT ![c] = Loop("answer", 0)]
        /\ UNCHANGED trouble
     \/ /\ Fault
        /\ loop' = [loop EXCEPT ![c] = Loop("sleep", 1)]
        /\ entry' \in {entry, [entry EXCEPT ![c] = Stored(loop[c].age)]}
  /\ UNCHANGED <<is_running, cancelled, get, monitor, shutdown, stops>>

\* The answer comes and the loop sleeps for Interval - 1, or for one when the
\* answer is lost.  How late it came is remembered for the properties.
Rests(c, n) ==
  /\ loop[c].at = "answer" /\ c \notin cancelled
  /\ \/ /\ loop' = [loop EXCEPT ![c] = [at |-> "rest", age |-> @.age, wake |-> n]]
        /\ UNCHANGED trouble
     \/ /\ Fault
        /\ loop' = [loop EXCEPT ![c] = Loop("sleep", 1)]
  /\ UNCHANGED <<entry, is_running, cancelled, get, monitor, shutdown, stops>>

RestTooLong(c) == Rests(c, Interval)     \* mutant: it sleeps as long as the value lives

Rest(c) == Rests(c, Interval - 1)

ErrorEndsLoop(c) ==     \* mutant: an error leaves the loop
  /\ loop[c].at \in {"rest", "sleep"} /\ loop[c].wake = 0 /\ c \notin cancelled
  /\ loop' = [loop EXCEPT ![c] = Loop(IF loop[c].at = "rest" THEN "gen" ELSE "done", 0)]
  /\ UNCHANGED <<entry, is_running, cancelled, get, monitor, shutdown, stops, trouble>>

Again(c) ==
  /\ loop[c].at \in {"rest", "sleep"} /\ loop[c].wake = 0 /\ c \notin cancelled
  /\ loop' = [loop EXCEPT ![c] = Loop("gen", 0)]
  /\ UNCHANGED <<entry, is_running, cancelled, get, monitor, shutdown, stops, trouble>>

\* CancelledError ends the task at the await it is at; a SET may be under way.
Cancelled(c) ==
  /\ c \in cancelled
  /\ cancelled' = cancelled \ {c}
  /\ loop' = [loop EXCEPT ![c] = Loop("done", 0)]
  /\ entry' \in {entry} \cup
       IF loop[c].at = "set" THEN {[entry EXCEPT ![c] = Stored(loop[c].age)]} ELSE {}
  /\ UNCHANGED <<is_running, get, monitor, shutdown, stops, trouble>>

(***************************************************************************)
(* get(): a reader that finds nothing asks the node and fills the cache;   *)
(* what passes before the node answers makes no difference to either.      *)
(* The readers of solbot_cache ask the node and leave the cache alone.     *)
(***************************************************************************)
Get(c) ==
  /\ ~get.busy /\ entry[c].ttl = 0
  /\ get' = [busy |-> TRUE, cache |-> c, age |-> 0]
  /\ UNCHANGED <<entry, loop, is_running, cancelled, monitor, shutdown, stops, trouble>>

GetKeepsLonger ==       \* mutant: the value a reader stores expires too late
  /\ get.busy
  /\ get' = NoGet
  /\ entry' = [entry EXCEPT ![get.cache] = [age |-> get.age, ttl |-> 2 * Interval]]
  /\ UNCHANGED <<loop, is_running, cancelled, monitor, shutdown, stops, trouble>>

GetSet ==
  /\ get.busy
  /\ get' = NoGet
  /\ entry' \in {entry, [entry EXCEPT ![get.cache] = Stored(get.age)]}
  /\ UNCHANGED <<loop, is_running, cancelled, monitor, shutdown, stops, trouble>>

(***************************************************************************)
(* stop()                                                                  *)
(***************************************************************************)
\* The caches that run are marked as stopped and their tasks cancelled; a call
\* that finds none running returns.
StopsCaches(s) ==
  /\ stops' = [stops EXCEPT ![s] = IF is_running = {} THEN "returned" ELSE "caches"]
  /\ is_running' = {} /\ cancelled' = cancelled \cup is_running

\* When a call comes: one from the signal handler while the service runs, one
\* when start() finds the event set.
Called(s) ==
  /\ stops[s] = "none"
  /\ IF s = "signal" THEN is_running # {} ELSE shutdown /\ monitor.at # "none"

CallStopNoEvent(s) ==      \* mutant: _shutdown_event is not set
  /\ Called(s)
  /\ IF monitor.at = "check"
     THEN stops' = [stops EXCEPT ![s] = "monitor"] /\ UNCHANGED <<is_running, cancelled>>
     ELSE StopsCaches(s)
  /\ UNCHANGED <<entry, loop, get, monitor, shutdown, trouble>>

CallStopCachesOnly(s) ==   \* mutant: neither the event nor the monitor is touched
  /\ Called(s)
  /\ StopsCaches(s)
  /\ UNCHANGED <<entry, loop, get, monitor, shutdown, trouble>>

\* The event is set, and the monitor cancelled if it is there and not done.
CallStop(s) ==
  /\ Called(s)
  /\ shutdown' = TRUE
  /\ IF monitor.at = "check"
     THEN stops' = [stops EXCEPT ![s] = "monitor"] /\ UNCHANGED <<is_running, cancelled>>
     ELSE StopsCaches(s)
  /\ UNCHANGED <<entry, loop, get, monitor, trouble>>

MonitorEnds ==
  /\ monitor.at = "check" /\ \E s \in Calls : stops[s] = "monitor"
  /\ monitor' = [at |-> "done", wake |-> 0]
  /\ UNCHANGED <<entry, loop, is_running, cancelled, get, shutdown, stops, trouble>>

StopCaches(s) ==
  /\ stops[s] = "monitor" /\ monitor.at = "done"
  /\ StopsCaches(s)
  /\ UNCHANGED <<entry, loop, get, monitor, shutdown, trouble>>

StopReturns(s) ==
  /\ stops[s] = "caches" /\ cancelled = {}
  /\ stops' = [stops EXCEPT ![s] = "returned"]
  /\ UNCHANGED <<entry, loop, is_running, cancelled, get, monitor, shutdown, trouble>>

(***************************************************************************)
(* Time                                                                    *)
(***************************************************************************)
Older(e) == IF e.ttl > 1 THEN [age |-> e.age + 1, ttl |-> e.ttl - 1] ELSE Nothing

\* A timer that has run out is served, and a value on its way arrives, in time.
Tick ==
  /\ get.busy => get.age < MaxDelay
  /\ \A c \in Cache :
       /\ loop[c].at \in {"set", "answer"} => loop[c].age < MaxDelay
       /\ loop[c].at \in {"rest", "sleep"} => loop[c].wake > 0
  /\ entry' = [c \in Cache |-> Older(entry[c])]
  /\ loop' = [c \in Cache |->
       [loop[c] EXCEPT !.age = IF loop[c].at \in {"set", "answer"} THEN @ + 1 ELSE @,
                       !.wake = IF @ > 0 THEN @ - 1 ELSE 0]]
  /\ get' = [get EXCEPT !.age = IF get.busy THEN @ + 1 ELSE @]
  /\ monitor' = [monitor EXCEPT !.wake = IF @ > 0 THEN @ - 1 ELSE 0]
  /\ UNCHANGED <<is_running, cancelled, shutdown, stops, trouble>>

UpdateStep(c) == Generate(c) \/ Set(c) \/ Rest(c) \/ Again(c) \/ Cancelled(c)
GetStep == (\E c \in Cache : Get(c)) \/ GetSet
ServiceStep ==
  \/ StartCaches \/ CreateMonitor \/ Check \/ MonitorEnds
  \/ \E s \in Calls : CallStop(s) \/ StopCaches(s) \/ StopReturns(s)

PreloaderNext ==
  \/ ServiceStep \/ Tick \/ GetStep
  \/ \E c \in Cache : UpdateStep(c)

PreloaderSpec == PreloaderInit /\ [][PreloaderNext]_preloaderVars
=============================================================================
