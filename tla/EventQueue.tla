------------------------------ MODULE EventQueue ------------------------------
(***************************************************************************)
(* What the stream of solbot_common.cp.base promises to those who publish: *)
(* an event waits for delivery until it is settled, by a callback that     *)
(* returned or as a dead letter, or is given up, because the retention of  *)
(* the stream dropped it or because the group was opened behind it.        *)
(* Delivery is at least once: what was settled may wait again.             *)
(***************************************************************************)
CONSTANT Event

VARIABLES
  published,  \* events that were published
  waiting,    \* events that are still to be delivered, or are being worked on
  settled,    \* events that were handled or put aside
  lost,       \* events that were given up
  open        \* is there a group that reads

vars == <<published, waiting, settled, lost, open>>

Init ==
  /\ published = {} /\ waiting = {} /\ settled = {} /\ lost = {}
  /\ open = FALSE

\* A new event waits, unless it or older ones are pushed out.
Publish(e) ==
  /\ e \notin published
  /\ published' = published \cup {e}
  /\ lost \subseteq lost' /\ lost' \subseteq published'
  /\ waiting' \subseteq waiting \cup {e}
  /\ (waiting \cup {e}) \ waiting' \subseteq lost'
  /\ UNCHANGED <<settled, open>>

Settle(e) ==
  /\ e \in published
  /\ settled' = settled \cup {e}
  /\ UNCHANGED <<published, waiting, lost, open>>

\* Only what is settled or given up stops waiting.
Finish(e) ==
  /\ e \in waiting \cap (settled \cup lost)
  /\ waiting' = waiting \ {e}
  /\ UNCHANGED <<published, settled, lost, open>>

\* At least once: settled events wait again, when the group is destroyed or
\* when an answer was lost.
Redeliver ==
  /\ waiting \subseteq waiting'
  /\ waiting' \subseteq waiting \cup settled \cup lost
  /\ open' => open
  /\ UNCHANGED <<published, settled, lost>>

\* A group opened behind what waits gives it up.
Open ==
  /\ ~open /\ open'
  /\ \/ UNCHANGED <<waiting, lost>>
     \/ waiting' = {} /\ lost' = lost \cup waiting
  /\ UNCHANGED <<published, settled>>

Next ==
  \/ \E e \in Event : Publish(e) \/ Settle(e) \/ Finish(e)
  \/ Redeliver \/ Open

Spec == Init /\ [][Next]_vars
=============================================================================
