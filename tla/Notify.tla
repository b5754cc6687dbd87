--------------------------------- MODULE Notify ---------------------------------
(***************************************************************************)
(* The three notifiers of the bot (tg_bot/notify).  Each is the callback   *)
(* of a stream consumer, which delivers an event, acknowledges it when the *)
(* callback returns and delivers it again, up to MaxRetries times, when it *)
(* raises; StreamConsumer.tla has the consumer in full.                    *)
(***************************************************************************)
EXTENDS Chat

CONSTANTS
  Reader,       \* the chats that have the wallet, or monitor it
  MaxRetries    \* max_retries of the consumer

VARIABLES
  news,     \* kind of event -> where it is: "queued", building, sending, settled
  unsent,   \* kind of event -> readers whose send_message is under way
  told,     \* history: kind of event -> reader -> messages
  tries     \* kind of event -> deliveries

notifyVars == <<news, unsent, told, tries>>

\* CopyTradeNotify, SwapResultNotify for orders of a user and for copy trades,
\* SmartWalletSwapAlertNotify.
Kind == {"copied", "swapped", "copySwapped", "alert"}

\* A raising callback of these reaches the consumer; the others log what happens.
Raises == {"copied"}

Elsewhere == UNCHANGED <<fsm, data, forms, rows, calls, left, clash>>
Moves(k, to) == news' = [news EXCEPT ![k] = to]

Deliver(k) ==
  /\ news[k] = "queued"
  /\ Moves(k, "building")
  /\ tries' = [tries EXCEPT ![k] = @ + 1]
  /\ UNCHANGED <<unsent, told, failures>> /\ Elsewhere

\* The readers are looked up and their messages built, then all of them are sent
\* at a time.  The message for the result of a copy trade is None: no send accepts it.
_build_message(k) ==
  /\ news[k] = "building"
  /\ IF k = "copySwapped" THEN Moves(k, "acked") /\ UNCHANGED unsent
     ELSE Moves(k, "sending") /\ unsent' = [unsent EXCEPT ![k] = @ \cup Reader]
  /\ UNCHANGED <<told, tries, failures>> /\ Elsewhere

\* A send that goes on after gather has raised is delivered all the same.
send_message(k, r) ==
  /\ r \in unsent[k]
  /\ unsent' = [unsent EXCEPT ![k] = @ \ {r}]
  /\ told' = [told EXCEPT ![k][r] = @ + 1]
  /\ UNCHANGED <<news, tries, failures>> /\ Elsewhere

AckAnyway(k) ==         \* mutant: what gather raises is swallowed
  IF tries[k] > MaxRetries THEN "dead" ELSE "acked"

\* What an error makes of the delivery.
AfterError(k) ==
  IF k \notin Raises THEN "acked" ELSE IF tries[k] > MaxRetries THEN "dead" ELSE "queued"

\* The database, the token cache or a send fails; the other sends go on.
NotifyError(k) ==
  /\ news[k] \in {"building", "sending"} /\ failures < MaxFailures
  /\ \/ /\ news[k] = "building" /\ UNCHANGED unsent
     \/ \E r \in unsent[k] : unsent' = [unsent EXCEPT ![k] = @ \ {r}]
  /\ Moves(k, AfterError(k))
  /\ failures' = failures + 1
  /\ UNCHANGED <<told, tries>> /\ Elsewhere

\* The callback returns and the message is acknowledged.
_handle_event(k) ==
  /\ news[k] = "sending" /\ unsent[k] = {}
  /\ Moves(k, "acked")
  /\ UNCHANGED <<unsent, told, tries, failures>> /\ Elsewhere

\* The bot restarts: sends are lost and what was pending is delivered again.
Restart ==
  /\ failures < MaxFailures /\ \E k \in Kind : news[k] \notin {"queued", "acked", "dead"}
  /\ news' = [k \in Kind |-> IF news[k] \in {"building", "sending"} THEN "queued" ELSE news[k]]
  /\ unsent' = [k \in Kind |-> {}]
  /\ failures' = failures + 1
  /\ UNCHANGED <<told, tries>> /\ Elsewhere

NotifyInit ==
  /\ news = [k \in Kind |-> "queued"]
  /\ unsent = [k \in Kind |-> {}]
  /\ told = [k \in Kind |-> [r \in Reader |-> 0]]
  /\ tries = [k \in Kind |-> 0]

NotifyStep ==
  \/ \E k \in Kind :
       \/ Deliver(k) \/ _build_message(k) \/ _handle_event(k) \/ NotifyError(k)
       \/ \E r \in Reader : send_message(k, r)
  \/ Restart

(***************************************************************************)
(* Properties                                                              *)
(***************************************************************************)
\* A copy trade is acknowledged only when every reader has been told of it, and
\* nobody is told more often than the event was delivered, nor twice when all is well.
NotifyInv ==
  /\ news["copied"] = "acked" => \A r \in Reader : told["copied"][r] >= 1
  /\ \A k \in Kind, r \in Reader :
       /\ told[k][r] <= tries[k]
       /\ tries[k] > 1 => failures > 0
=============================================================================
