--------------------------- MODULE TelegramBotProofs ---------------------------
(***************************************************************************)
(* The invariant of TelegramBot and what its steps never do, for any       *)
(* number of updates in hand, users, codes, wallets, readers and failures. *)
(* A part of the bot changes only variables of its own, so that each has   *)
(* its own invariant.                                                      *)
(***************************************************************************)
EXTENDS TelegramBot, FiniteSetTheorems, TLAPS

-----------------------------------------------------------------------------
(***************************************************************************)
(* The notifiers                                                           *)
(***************************************************************************)
Pending(k, r) == IF r \in unsent[k] THEN 1 ELSE 0

\* A reader gets one message for each delivery that was built: the one under way
\* is counted with those that arrived.
ToldOf(k, r) ==
  /\ told[k][r] + Pending(k, r) + (IF news[k] = "building" THEN 1 ELSE 0) <= tries[k]
  /\ k = "copied" /\ news[k] = "sending" => r \in unsent[k] \/ told[k][r] >= 1
  /\ k = "copied" /\ news[k] = "acked" => told[k][r] >= 1

\* An event that waits again does so after a failure.
TriesOf(k) ==
  /\ tries[k] > 1 \/ (tries[k] = 1 /\ news[k] = "queued") => failures > 0
  /\ news[k] # "queued" => tries[k] > 0

NewsIInv ==
  /\ news \in [News!Kind -> {"queued", "building", "sending", "acked", "dead"}]
  /\ unsent \in [News!Kind -> SUBSET Reader]
  /\ told \in [News!Kind -> [Reader -> Nat]]
  /\ tries \in [News!Kind -> Nat] /\ failures \in Nat
  /\ \A k \in News!Kind : TriesOf(k) /\ \A r \in Reader : ToldOf(k, r)

LEMMA NewsInitial == News!NotifyInit /\ failures = 0 => NewsIInv
BY DEF News!NotifyInit, NewsIInv, ToldOf, TriesOf, Pending

\* A step of one kind of event leaves the others alone.
LEMMA NewsOther ==
  ASSUME NewsIInv, NEW k \in News!Kind, NEW j \in News!Kind, j # k,
         news'[j] = news[j], unsent'[j] = unsent[j], told'[j] = told[j], tries'[j] = tries[j],
         failures' \in Nat, failures' >= failures
  PROVE  TriesOf(j)' /\ \A r \in Reader : ToldOf(j, r)'
BY DEF NewsIInv, TriesOf, ToldOf, Pending

LEMMA DeliverKeeps ==
  ASSUME NewsIInv, NEW k \in News!Kind, News!Deliver(k) PROVE NewsIInv'
<1> USE DEF News!Deliver, News!Moves, News!Elsewhere
<1>1. /\ news' \in [News!Kind -> {"queued", "building", "sending", "acked", "dead"}]
      /\ tries' \in [News!Kind -> Nat] /\ tries'[k] = tries[k] + 1 /\ tries[k] \in Nat
      /\ news[k] = "queued" /\ news'[k] = "building" /\ UNCHANGED <<unsent, told, failures>>
      /\ unsent \in [News!Kind -> SUBSET Reader] /\ told \in [News!Kind -> [Reader -> Nat]]
      /\ failures \in Nat
  BY DEF NewsIInv
<1>2. ASSUME NEW j \in News!Kind PROVE TriesOf(j)' /\ \A r \in Reader : ToldOf(j, r)'
  <2>1. CASE j # k
    BY <2>1, NewsOther DEF NewsIInv
  <2>2. CASE j = k
    <3>1. TriesOf(k)'
      <4>1. TriesOf(k)
        BY DEF NewsIInv
      <4>2. tries[k] >= 1 => failures > 0
        BY <1>1, <4>1 DEF TriesOf
      <4> QED
        BY <1>1, <4>2 DEF TriesOf
    <3>2. ASSUME NEW r \in Reader PROVE ToldOf(k, r)'
      <4>1. told[k][r] \in Nat /\ Pending(k, r) \in {0, 1} /\ Pending(k, r)' = Pending(k, r)
        BY <1>1 DEF Pending
      <4>2. told[k][r] + Pending(k, r) <= tries[k]
        BY <1>1, <4>1 DEF NewsIInv, ToldOf
      <4> QED
        BY <1>1, <4>1, <4>2 DEF ToldOf
    <3> QED
      BY <2>2, <3>1, <3>2
  <2> QED
    BY <2>1, <2>2
<1> QED
  BY <1>1, <1>2 DEF NewsIInv

\* A message is on its way to each reader, or the event is acknowledged unread.
LEMMA BuildKeeps ==
  ASSUME NewsIInv, NEW k \in News!Kind, News!_build_message(k) PROVE NewsIInv'
<1> USE DEF News!_build_message, News!Moves, News!Elsewhere
<1>1. /\ news' \in [News!Kind -> {"queued", "building", "sending", "acked", "dead"}]
      /\ unsent' \in [News!Kind -> SUBSET Reader]
      /\ news[k] = "building" /\ UNCHANGED <<told, tries, failures>>
      /\ news'[k] = (IF k = "copySwapped" THEN "acked" ELSE "sending")
      /\ unsent'[k] = (IF k = "copySwapped" THEN unsent[k] ELSE unsent[k] \cup Reader)
      /\ told \in [News!Kind -> [Reader -> Nat]] /\ tries \in [News!Kind -> Nat]
      /\ failures \in Nat
  BY DEF NewsIInv
<1>2. ASSUME NEW j \in News!Kind PROVE TriesOf(j)' /\ \A r \in Reader : ToldOf(j, r)'
  <2>1. CASE j # k
    BY <2>1, NewsOther DEF NewsIInv
  <2>2. CASE j = k
    <3>1. TriesOf(k)'
      BY <1>1 DEF NewsIInv, TriesOf
    <3>2. ASSUME NEW r \in Reader PROVE ToldOf(k, r)'
      <4>1. told[k][r] \in Nat /\ Pending(k, r) \in {0, 1} /\ Pending(k, r)' \in {0, 1}
        BY <1>1 DEF Pending
      <4>2. told[k][r] + Pending(k, r) + 1 <= tries[k]
        BY <1>1, <4>1 DEF NewsIInv, ToldOf
      <4>3. told[k][r] + Pending(k, r)' <= tries[k] /\ tries[k] \in Nat
        BY <1>1, <4>1, <4>2
      <4>4. told'[k][r] + Pending(k, r)' + (IF news'[k] = "building" THEN 1 ELSE 0) <= tries'[k]
        BY <1>1, <4>1, <4>3
      <4>5. k = "copied" => news'[k] = "sending" /\ r \in unsent'[k]
        BY <1>1
      <4> QED
        BY <4>4, <4>5 DEF ToldOf
    <3> QED
      BY <2>2, <3>1, <3>2
  <2> QED
    BY <2>1, <2>2
<1> QED
  BY <1>1, <1>2 DEF NewsIInv

\* A reader is told.
LEMMA SendMessageKeeps ==
  ASSUME NewsIInv, NEW k \in News!Kind, NEW q \in Reader, News!send_message(k, q)
  PROVE  NewsIInv'
<1> USE DEF News!send_message, News!Elsewhere
<1>1. /\ told' = [told EXCEPT ![k] = [told[k] EXCEPT ![q] = told[k][q] + 1]]
      /\ told' \in [News!Kind -> [Reader -> Nat]]
  BY DEF NewsIInv
<1>2. /\ unsent' \in [News!Kind -> SUBSET Reader] /\ unsent'[k] = unsent[k] \ {q}
      /\ q \in unsent[k] /\ UNCHANGED <<news, tries, failures>>
      /\ \A r \in Reader : told'[k][r] = told[k][r] + (IF r = q THEN 1 ELSE 0)
      /\ told \in [News!Kind -> [Reader -> Nat]] /\ tries \in [News!Kind -> Nat]
      /\ failures \in Nat
  BY <1>1 DEF NewsIInv
<1>3. ASSUME NEW j \in News!Kind PROVE TriesOf(j)' /\ \A r \in Reader : ToldOf(j, r)'
  <2>1. CASE j # k
    BY <1>1, <2>1, NewsOther DEF NewsIInv
  <2>2. CASE j = k
    <3>1. TriesOf(k)'
      BY <1>2 DEF NewsIInv, TriesOf
    <3>2. ASSUME NEW r \in Reader PROVE ToldOf(k, r)'
      <4>1. told'[k][r] + Pending(k, r)' = told[k][r] + Pending(k, r)
        BY <1>2 DEF Pending
      <4>2. told[k][r] \in Nat /\ told'[k][r] \in Nat /\ told'[k][r] >= told[k][r]
            /\ (r = q => told'[k][r] >= 1)
        BY <1>1, <1>2
      <4>3. r # q /\ r \in unsent[k] => r \in unsent'[k]
        BY <1>2
      <4>4. ToldOf(k, r)
        BY DEF NewsIInv
      <4> QED
        BY <1>2, <4>1, <4>2, <4>3, <4>4 DEF ToldOf
    <3> QED
      BY <2>2, <3>1, <3>2
  <2> QED
    BY <2>1, <2>2
<1> QED
  BY <1>1, <1>2, <1>3 DEF NewsIInv

\* An error ends the delivery; a send that did not fail goes on.
LEMMA NotifyErrorKeeps ==
  ASSUME NewsIInv, NEW k \in News!Kind, News!NotifyError(k) PROVE NewsIInv'
<1> USE DEF News!NotifyError, News!Moves, News!Elsewhere
<1>1. News!AfterError(k) \in {"queued", "acked", "dead"} /\ (k = "copied" => News!AfterError(k) # "acked")
  BY DEF News!AfterError, News!Raises
<1>2. /\ news' \in [News!Kind -> {"queued", "building", "sending", "acked", "dead"}]
      /\ unsent' \in [News!Kind -> SUBSET Reader] /\ unsent'[k] \subseteq unsent[k]
      /\ \A j \in News!Kind : j # k => unsent'[j] = unsent[j]
      /\ news[k] \in {"building", "sending"} /\ news'[k] = News!AfterError(k)
      /\ UNCHANGED <<told, tries>> /\ failures \in Nat /\ failures' = failures + 1
      /\ told \in [News!Kind -> [Reader -> Nat]] /\ tries \in [News!Kind -> Nat]
  BY <1>1 DEF NewsIInv
<1>3. ASSUME NEW j \in News!Kind PROVE TriesOf(j)' /\ \A r \in Reader : ToldOf(j, r)'
  <2>1. CASE j # k
    <3>1. news'[j] = news[j] /\ failures' >= failures /\ failures' \in Nat
      BY <1>2, <2>1 DEF NewsIInv
    <3> QED
      BY <1>2, <2>1, <3>1, NewsOther
  <2>2. CASE j = k
    <3>1. TriesOf(k)'
      BY <1>2 DEF NewsIInv, TriesOf
    <3>2. ASSUME NEW r \in Reader PROVE ToldOf(k, r)'
      <4>1. told[k][r] \in Nat /\ Pending(k, r) \in {0, 1} /\ Pending(k, r)' \in {0, 1}
            /\ Pending(k, r)' <= Pending(k, r)
        BY <1>2 DEF Pending
      <4>2. told[k][r] + Pending(k, r) <= tries[k]
        BY <1>2, <4>1 DEF NewsIInv, ToldOf
      <4>3. told[k][r] + Pending(k, r)' <= tries[k]
        BY <1>2, <4>1, <4>2
      <4> QED
        BY <1>1, <1>2, <4>1, <4>3 DEF ToldOf
    <3> QED
      BY <2>2, <3>1, <3>2
  <2> QED
    BY <2>1, <2>2
<1> QED
  BY <1>2, <1>3 DEF NewsIInv

\* Every send has returned.
LEMMA HandleEventKeeps ==
  ASSUME NewsIInv, NEW k \in News!Kind, News!_handle_event(k) PROVE NewsIInv'
<1> USE DEF News!_handle_event, News!Moves, News!Elsewhere
<1>1. /\ news' \in [News!Kind -> {"queued", "building", "sending", "acked", "dead"}]
      /\ news[k] = "sending" /\ news'[k] = "acked" /\ unsent[k] = {}
      /\ UNCHANGED <<unsent, told, tries, failures>>
  BY DEF NewsIInv
<1>2. ASSUME NEW j \in News!Kind PROVE TriesOf(j)' /\ \A r \in Reader : ToldOf(j, r)'
  <2>1. CASE j # k
    BY <2>1, NewsOther DEF NewsIInv
  <2>2. CASE j = k
    BY <1>1, <2>2 DEF NewsIInv, TriesOf, ToldOf, Pending
  <2> QED
    BY <2>1, <2>2
<1> QED
  BY <1>1, <1>2 DEF NewsIInv

\* The sends are lost, and what was at work waits again.
LEMMA RestartKeeps ==
  ASSUME NewsIInv, News!Restart PROVE NewsIInv'
<1> USE DEF News!Restart, News!Elsewhere
<1>1. /\ news' \in [News!Kind -> {"queued", "building", "sending", "acked", "dead"}]
      /\ unsent' \in [News!Kind -> SUBSET Reader]
      /\ UNCHANGED <<told, tries>> /\ failures \in Nat /\ failures' = failures + 1
      /\ told \in [News!Kind -> [Reader -> Nat]] /\ tries \in [News!Kind -> Nat]
  BY DEF NewsIInv
<1>2. ASSUME NEW j \in News!Kind PROVE TriesOf(j)' /\ \A r \in Reader : ToldOf(j, r)'
  <2>1. /\ unsent'[j] = {} /\ news'[j] \notin {"building", "sending"}
        /\ news'[j] = news[j] \/ news'[j] = "queued"
    BY DEF NewsIInv
  <2>2. TriesOf(j)'
    BY <1>1, <2>1 DEF NewsIInv, TriesOf
  <2>3. ASSUME NEW r \in Reader PROVE ToldOf(j, r)'
    <3>1. told[j][r] \in Nat /\ Pending(j, r) \in {0, 1} /\ Pending(j, r)' = 0
      BY <1>1, <2>1 DEF Pending
    <3>2. told[j][r] <= tries[j]
      BY <1>1, <3>1 DEF NewsIInv, ToldOf
    <3> QED
      BY <1>1, <2>1, <3>1, <3>2 DEF NewsIInv, ToldOf
  <2> QED
    BY <2>2, <2>3
<1> QED
  BY <1>1, <1>2 DEF NewsIInv

LEMMA NewsKeeps == NewsIInv /\ News!NotifyStep => NewsIInv'
BY DeliverKeeps, BuildKeeps, SendMessageKeeps, NotifyErrorKeeps, HandleEventKeeps, RestartKeeps
   DEF News!NotifyStep

\* Told of it before the acknowledgement, and no oftener than it was delivered.
LEMMA NewsEnough == NewsIInv => News!NotifyInv
<1> SUFFICES ASSUME NewsIInv PROVE News!NotifyInv
  OBVIOUS
<1>1. \A r \in Reader : news["copied"] = "acked" => told["copied"][r] >= 1
  BY DEF NewsIInv, ToldOf, News!Kind
<1>2. ASSUME NEW k \in News!Kind, NEW r \in Reader
      PROVE  told[k][r] <= tries[k] /\ (tries[k] > 1 => failures > 0)
  <2>1. /\ told[k][r] \in Nat /\ Pending(k, r) \in {0, 1} /\ tries[k] \in Nat
        /\ ToldOf(k, r) /\ TriesOf(k)
    BY DEF NewsIInv, Pending
  <2> QED
    BY <2>1 DEF ToldOf, TriesOf
<1> QED
  BY <1>1, <1>2 DEF News!NotifyInv


-----------------------------------------------------------------------------
(***************************************************************************)
(* The door                                                                *)
(***************************************************************************)
Stops == {"none", "initialize", "authorize", "handle", "register", "default",
          "licence", "activate", "activated"}

Request ==
  [at : Stops, user : User \cup {None}, kind : Door!Kinds \cup {""}, code : Code \cup {None},
   seen : BOOLEAN, had : Nat \cup {None}]

\* A request in hand is a user's; a text carries the code it may be.
Sound(r) == r.at # "none" => r.user \in User /\ (r.kind = "text" => r.code \in Code)

DoorTypes ==
  /\ licence \in [User -> Nat \cup {None}]
  /\ codes \in [Code -> User \cup {None, Door!Unused}]
  /\ requests \in [Slot -> Request]
  /\ now \in Nat /\ failures \in Nat /\ clash \in BOOLEAN

Activating(s) == requests[s].at \in {"licence", "activate"}

\* Without a clash an activation has its code and its user to itself, so that what it
\* read is still so at the commit.
Alone(s) ==
  Activating(s) =>
    /\ codes[requests[s].code] = Door!Unused
    /\ requests[s].at = "activate" => requests[s].had = licence[requests[s].user]
    /\ \A t \in Slot \ {s} : Activating(t) =>
         requests[t].user # requests[s].user /\ requests[t].code # requests[s].code

UsedBy(u) == {c \in Code : codes[c] = u}

LicenceFits(u) ==
  IF UsedBy(u) = {} THEN licence[u] = None
  ELSE /\ licence[u] \in Nat
       /\ licence[u] >= Valid * Cardinality(UsedBy(u))
       /\ licence[u] <= now + Valid * Cardinality(UsedBy(u))

Configured(u) == \E s \in Slot : requests[s].user = u /\ requests[s].at = "default"

Invited(s) ==
  Private /\ requests[s].at = "handle"
          /\ requests[s].kind \in {"/start", "command", "button"}
          /\ requests[s].user # Manager => UsedBy(requests[s].user) # {}

DoorIInv ==
  /\ DoorTypes
  /\ \A s \in Slot : Sound(requests[s]) /\ (Activating(s) => requests[s].code \in Code)
  /\ ~clash => /\ \A s \in Slot : Alone(s) /\ Invited(s)
               /\ \A u \in User : LicenceFits(u)
  /\ failures = 0 => \A u \in registered \ configured : Configured(u)

LEMMA NoRequestTyped == Door!NoRequest \in Request /\ Door!NoRequest.at = "none"
<1>1. Door!NoRequest = [at |-> "none", user |-> None, kind |-> "", code |-> None,
                        seen |-> FALSE, had |-> None]
  BY DEF Door!NoRequest
<1> QED
  BY <1>1 DEF Request, Stops

LEMMA DoorInitial == Door!AccessInit /\ failures = 0 /\ clash = FALSE => DoorIInv
<1> SUFFICES ASSUME Door!AccessInit, failures = 0, clash = FALSE PROVE DoorIInv
  OBVIOUS
<1>1. DoorTypes
  BY NoRequestTyped DEF Door!AccessInit, DoorTypes
<1>2. \A s \in Slot : requests[s].at = "none"
  BY NoRequestTyped DEF Door!AccessInit
<1>3. \A s \in Slot : Sound(requests[s]) /\ ~Activating(s) /\ Alone(s) /\ Invited(s)
  BY <1>2 DEF Sound, Activating, Alone, Invited
<1>4. \A u \in User : LicenceFits(u)
  BY BotAssumption DEF Door!AccessInit, LicenceFits, UsedBy, Door!Unused
<1> QED
  BY <1>1, <1>3, <1>4 DEF DoorIInv, Door!AccessInit

\* A request that moves on touches nothing that another one relies on.
LEMMA DoorMoves ==
  ASSUME DoorIInv, NEW s \in Slot, NEW r \in Request,
         requests' = [requests EXCEPT ![s] = r],
         licence' = licence, codes' = codes, now' = now, clash' = clash,
         registered' = registered, configured' = configured \/ configured \subseteq configured',
         failures' \in Nat,
         failures' = 0 => failures = 0 /\ (requests[s].at = "default" => requests[s].user \in configured'),
         Sound(r), r.at \notin {"licence", "activate"},
         ~clash /\ Private /\ r.at = "handle" /\ r.kind \in {"/start", "command", "button"} /\ r.user # Manager
           => UsedBy(r.user) # {}
  PROVE  DoorIInv'
<1>1. DoorTypes'
  BY DEF DoorIInv, DoorTypes
<1>2. /\ requests[s] \in Request /\ DOMAIN requests = Slot
      /\ requests'[s] = r /\ \A t \in Slot \ {s} : requests'[t] = requests[t]
  BY DEF DoorIInv, DoorTypes
<1>3. \A t \in Slot : (Sound(requests[t]))' /\ (Activating(t)' => requests'[t].code \in Code)
  <2> SUFFICES ASSUME NEW t \in Slot
               PROVE (Sound(requests[t]))' /\ (Activating(t)' => requests'[t].code \in Code)
    OBVIOUS
  <2>1. CASE t = s
    BY <2>1, <1>2 DEF Sound, Activating
  <2>2. CASE t # s
    BY <2>2, <1>2 DEF DoorIInv, Sound, Activating
  <2> QED
    BY <2>1, <2>2
<1>4. ~Activating(s)'
  BY <1>2 DEF Activating
<1>5. ASSUME ~clash' PROVE \A t \in Slot : Alone(t)' /\ Invited(t)'
  <2> SUFFICES ASSUME NEW t \in Slot PROVE Alone(t)' /\ Invited(t)'
    OBVIOUS
  <2>1. CASE t = s
    BY <2>1, <1>2, <1>4, <1>5 DEF Alone, Invited, UsedBy
  <2>2. CASE t # s
    <3>1. Alone(t) /\ Invited(t)
      BY <1>5 DEF DoorIInv
    <3>2. Activating(t)' = Activating(t) /\ \A q \in Slot : Activating(q)' => Activating(q) /\ q # s
      BY <1>2, <1>4, <2>2 DEF Activating
    <3>3. Alone(t)'
      BY <3>1, <3>2, <1>2, <2>2 DEF Alone
    <3>4. Invited(t)'
      BY <3>1, <1>2, <2>2 DEF Invited, UsedBy
    <3> QED
      BY <3>3, <3>4
  <2> QED
    BY <2>1, <2>2
<1>6. ~clash' => \A u \in User : LicenceFits(u)'
  BY DEF DoorIInv, LicenceFits, UsedBy
<1>7. failures' = 0 => \A u \in (registered \ configured)' : Configured(u)'
  <2> SUFFICES ASSUME failures' = 0, NEW u \in registered \ configured' PROVE Configured(u)'
    OBVIOUS
  <2>1. PICK t \in Slot : requests[t].user = u /\ requests[t].at = "default"
    BY DEF DoorIInv, Configured
  <2>2. t # s
    BY <2>1
  <2> QED
    BY <2>1, <2>2, <1>2 DEF Configured
<1> QED
  BY <1>1, <1>3, <1>5, <1>6, <1>7 DEF DoorIInv

\* The same when the request goes on at another await, or ends.
LEMMA DoorGoes ==
  ASSUME DoorIInv, NEW s \in Slot, NEW at \in Stops, at \notin {"licence", "activate", "none"},
         requests[s].at \notin {"none", "default"},
         Door!GoesOn(s, at) \/ Door!Done(s),
         licence' = licence, codes' = codes, now' = now, clash' = clash,
         registered' = registered, configured' = configured, failures' = failures,
         ~clash /\ Private /\ at = "handle" /\ requests[s].kind \in {"/start", "command", "button"}
           /\ requests[s].user # Manager => UsedBy(requests[s].user) # {}
  PROVE  DoorIInv'
<1>1. requests[s] \in Request /\ failures \in Nat /\ Sound(requests[s])
  BY DEF DoorIInv, DoorTypes
<1>2. CASE Door!GoesOn(s, at)
  <2> DEFINE r == [requests[s] EXCEPT !.at = at]
  <2>1. r \in Request /\ r.at = at /\ r.kind = requests[s].kind /\ r.user = requests[s].user
        /\ r.code = requests[s].code
    BY <1>1 DEF Request
  <2>2. Sound(r)
    BY <1>1, <2>1 DEF Sound
  <2>3. requests' = [requests EXCEPT ![s] = r]
    BY <1>2 DEF Door!GoesOn
  <2> HIDE DEF r
  <2> QED
    BY <1>1, <2>1, <2>2, <2>3, DoorMoves
<1>3. CASE Door!Done(s)
  <2>1. requests' = [requests EXCEPT ![s] = Door!NoRequest] /\ Sound(Door!NoRequest)
    BY <1>3, NoRequestTyped DEF Door!Done, Sound
  <2> QED
    BY <1>1, <2>1, NoRequestTyped, DoorMoves
<1> QED
  BY <1>2, <1>3

LEMMA StopNames ==
  "none" \in Stops /\ "initialize" \in Stops /\ "authorize" \in Stops /\ "handle" \in Stops
  /\ "register" \in Stops /\ "default" \in Stops /\ "licence" \in Stops
  /\ "activate" \in Stops /\ "activated" \in Stops
BY DEF Stops

LEMMA ArriveKeeps ==
  ASSUME DoorIInv, NEW s \in Slot, Door!Arrive(s) PROVE DoorIInv'
<1>1. PICK u \in User, k \in Door!Kinds, c \in Code \cup {None} :
        /\ (k = "text") = (c # None)
        /\ requests' = [requests EXCEPT ![s] =
             [Door!NoRequest EXCEPT !.at = "initialize", !.user = u, !.kind = k, !.code = c,
                                    !.seen = u \in waiting]]
  BY DEF Door!Arrive
<1> DEFINE r == [Door!NoRequest EXCEPT !.at = "initialize", !.user = u, !.kind = k, !.code = c,
                                       !.seen = u \in waiting]
<1>2. /\ r.at = "initialize" /\ r.user = u /\ r.kind = k /\ r.code = c
  BY DEF Door!NoRequest
<1>3. (u \in waiting) \in BOOLEAN
  OBVIOUS
<1>4. r \in Request
  <2> DEFINE b == u \in waiting
  <2>1. r = [Door!NoRequest EXCEPT !.at = "initialize", !.user = u, !.kind = k, !.code = c, !.seen = b]
    OBVIOUS
  <2>2. b \in BOOLEAN
    OBVIOUS
  <2> HIDE DEF b
  <2>3. [Door!NoRequest EXCEPT !.at = "initialize", !.user = u, !.kind = k, !.code = c, !.seen = b] \in Request
    BY <2>2, NoRequestTyped DEF Request, Stops
  <2> QED
    BY <2>1, <2>3
<1>5. Sound(r)
  BY <1>1, <1>2 DEF Sound
<1>6. requests[s].at = "none" /\ failures \in Nat
  BY DEF Door!Arrive, Door!In, DoorIInv, DoorTypes
<1> HIDE DEF r
<1>7. r.at = "initialize" /\ requests' = [requests EXCEPT ![s] = r]
  BY <1>1, <1>2 DEF r
<1>8. /\ licence' = licence /\ codes' = codes /\ now' = now /\ clash' = clash
      /\ registered' = registered /\ configured' = configured /\ failures' = failures
  BY DEF Door!Arrive, Door!Elsewhere, Door!Tables
<1> QED
  BY <1>4, <1>5, <1>6, <1>7, <1>8, DoorMoves

\* The steps that only send a request on, or end it.
LEMMA PassingKeeps ==
  ASSUME DoorIInv, NEW s \in Slot,
         \/ Door!InitializeMiddleware(s) \/ Door!Serve(s) \/ Door!start(s) \/ Door!start_asset(s)
         \/ Door!OtherText(s) \/ Door!start_activation_code(s) \/ Door!Activated(s)
  PROVE  DoorIInv'
<1> USE DEF Door!Elsewhere, Door!Tables, Door!In
<1>1. CASE Door!InitializeMiddleware(s)
  BY <1>1, DoorGoes, StopNames DEF Door!InitializeMiddleware
<1>2. CASE Door!Serve(s)
  BY <1>2, DoorGoes, StopNames DEF Door!Serve
<1>3. CASE Door!start(s)
  BY <1>3, DoorGoes, StopNames DEF Door!start
<1>4. CASE Door!start_asset(s)
  BY <1>4, DoorGoes, StopNames DEF Door!start_asset
<1>5. CASE Door!OtherText(s)
  BY <1>5, DoorGoes, StopNames DEF Door!OtherText
<1>6. CASE Door!start_activation_code(s)
  BY <1>6, DoorGoes, StopNames DEF Door!start_activation_code
<1>7. CASE Door!Activated(s)
  BY <1>7, DoorGoes, StopNames DEF Door!Activated
<1> QED
  BY <1>1, <1>2, <1>3, <1>4, <1>5, <1>6, <1>7

\* Whoever passes with a licence has used a code.
LEMMA AuthorizationKeeps ==
  ASSUME DoorIInv, NEW s \in Slot, Door!AuthorizationMiddleware(s) PROVE DoorIInv'
<1> USE DEF Door!Elsewhere, Door!Tables, Door!In
<1>1. requests[s].at = "authorize" /\ Sound(requests[s])
  BY DEF Door!AuthorizationMiddleware, DoorIInv
<1>2. requests[s].user \in User
  BY <1>1 DEF Sound
<1>3. CASE Door!Done(s)
  BY <1>1, <1>3, DoorGoes, StopNames DEF Door!AuthorizationMiddleware
<1>4. CASE ~Door!Done(s)
  <2>1. /\ Door!GoesOn(s, "handle")
        /\ \/ ~Private \/ requests[s].user = Manager
           \/ requests[s].kind \in {"text", "activate"} \/ licence[requests[s].user] # None
    BY <1>4 DEF Door!AuthorizationMiddleware
  <2>2. ~clash /\ licence[requests[s].user] # None => UsedBy(requests[s].user) # {}
    BY <1>2 DEF DoorIInv, LicenceFits
  <2>3. ~clash /\ Private /\ requests[s].kind \in {"/start", "command", "button"}
          /\ requests[s].user # Manager => UsedBy(requests[s].user) # {}
    BY <2>1, <2>2
  <2> QED
    BY <1>1, <2>1, <2>3, DoorGoes, StopNames DEF Door!AuthorizationMiddleware
<1> QED
  BY <1>3, <1>4

\* A call that fails is not the last one of a registration any more.
LEMMA BrokenKeeps ==
  ASSUME DoorIInv, NEW s \in Slot, Door!Broken(s) PROVE DoorIInv'
<1>1. failures \in Nat /\ failures' = failures + 1
  BY DEF DoorIInv, DoorTypes, Door!Broken
<1>2. failures' \in Nat /\ failures' # 0
  BY <1>1
<1>3. Sound(Door!NoRequest) /\ requests' = [requests EXCEPT ![s] = Door!NoRequest]
  BY NoRequestTyped DEF Door!Broken, Door!Done, Sound
<1>4. /\ licence' = licence /\ codes' = codes /\ now' = now /\ clash' = clash
      /\ registered' = registered /\ configured' = configured
  BY DEF Door!Broken, Door!Elsewhere, Door!Tables
<1> QED
  BY <1>2, <1>3, <1>4, NoRequestTyped, DoorMoves

LEMMA CreateDefaultKeeps ==
  ASSUME DoorIInv, NEW s \in Slot, Door!create_default(s) PROVE DoorIInv'
<1>1. failures \in Nat /\ failures' = failures
  BY DEF DoorIInv, DoorTypes, Door!create_default
<1>2. Sound(Door!NoRequest) /\ requests' = [requests EXCEPT ![s] = Door!NoRequest]
  BY NoRequestTyped DEF Door!create_default, Door!Done, Sound
<1>3. /\ licence' = licence /\ codes' = codes /\ now' = now /\ clash' = clash
      /\ registered' = registered /\ configured \subseteq configured'
      /\ requests[s].user \in configured'
  BY DEF Door!create_default, Door!Elsewhere
<1> QED
  BY <1>1, <1>2, <1>3, NoRequestTyped, DoorMoves

\* The new user is without a setting for as long as its request is at create_default.
LEMMA RegisterKeeps ==
  ASSUME DoorIInv, NEW s \in Slot, Door!register(s) PROVE DoorIInv'
<1> USE DEF Door!Elsewhere, Door!Tables, Door!In
<1>1. CASE requests[s].user \in registered
  BY <1>1, DoorGoes, StopNames DEF Door!register
<1>2. CASE requests[s].user \notin registered
  <2>1. /\ requests[s].at = "register" /\ Door!GoesOn(s, "default")
        /\ registered' = registered \cup {requests[s].user}
        /\ UNCHANGED <<configured, licence, codes, now, failures, clash>>
    BY <1>2 DEF Door!register
  <2>2. /\ requests \in [Slot -> Request] /\ requests[s] \in Request /\ Sound(requests[s])
    BY DEF DoorIInv, DoorTypes
  <2>3. /\ requests'[s] = [requests[s] EXCEPT !.at = "default"]
        /\ requests'[s] \in Request
        /\ \A t \in Slot \ {s} : requests'[t] = requests[t]
    BY <2>1, <2>2, StopNames DEF Door!GoesOn, Request
  <2>4. requests'[s].at = "default" /\ requests'[s].user = requests[s].user
        /\ requests'[s].kind = requests[s].kind /\ requests'[s].code = requests[s].code
    BY <2>2, <2>3 DEF Request
  <2>5. DoorTypes'
    BY <2>1, <2>2, <2>3 DEF DoorIInv, DoorTypes, Door!GoesOn
  <2>6. \A t \in Slot : Activating(t)' => Activating(t) /\ t # s
    BY <2>3, <2>4 DEF Activating
  <2>7. \A t \in Slot : (Sound(requests[t]))' /\ (Activating(t)' => requests'[t].code \in Code)
    <3> SUFFICES ASSUME NEW t \in Slot
                 PROVE (Sound(requests[t]))' /\ (Activating(t)' => requests'[t].code \in Code)
      OBVIOUS
    <3>1. CASE t = s
      BY <3>1, <2>1, <2>2, <2>4, <2>6 DEF Sound
    <3>2. CASE t # s
      BY <3>2, <2>3 DEF DoorIInv, Sound, Activating
    <3> QED
      BY <3>1, <3>2
  <2>8. ASSUME ~clash', NEW t \in Slot PROVE Alone(t)' /\ Invited(t)'
    <3>1. CASE t = s
      BY <3>1, <2>4, <2>6 DEF Alone, Invited
    <3>2. CASE t # s
      <4>1. Alone(t) /\ Invited(t)
        BY <2>8, <2>1 DEF DoorIInv
      <4>2. Alone(t)'
        BY <4>1, <3>2, <2>1, <2>3, <2>6 DEF Alone
      <4>3. Invited(t)'
        BY <4>1, <3>2, <2>1, <2>3 DEF Invited, UsedBy
      <4> QED
        BY <4>2, <4>3
    <3> QED
      BY <3>1, <3>2
  <2>9. ~clash' => \A u \in User : LicenceFits(u)'
    BY <2>1 DEF DoorIInv, LicenceFits, UsedBy
  <2>10. ASSUME failures' = 0, NEW u \in (registered \ configured)' PROVE Configured(u)'
    <3>1. CASE u = requests[s].user
      BY <3>1, <2>4 DEF Configured
    <3>2. CASE u # requests[s].user
      <4>1. PICK t \in Slot : requests[t].user = u /\ requests[t].at = "default"
        BY <2>1, <2>10, <3>2 DEF DoorIInv, Configured
      <4>2. t # s
        BY <4>1, <2>1
      <4> QED
        BY <4>1, <4>2, <2>3 DEF Configured
    <3> QED
      BY <3>1, <3>2
  <2> QED
    BY <2>5, <2>7, <2>8, <2>9, <2>10 DEF DoorIInv
<1> QED
  BY <1>1, <1>2

LEMMA TickKeeps == ASSUME DoorIInv, Door!Tick PROVE DoorIInv'
<1>1. /\ now \in Nat /\ now' = now + 1 /\ codes' = codes /\ licence' = licence
      /\ requests' = requests /\ clash' = clash /\ failures' = failures
      /\ registered' = registered /\ configured' = configured
  BY DEF DoorIInv, DoorTypes, Door!Tick, Door!Elsewhere, Door!Tables
<1>2. ASSUME NEW u \in User, LicenceFits(u) PROVE LicenceFits(u)'
  <2>1. CASE UsedBy(u) = {}
    BY <1>1, <1>2, <2>1 DEF LicenceFits, UsedBy
  <2>2. CASE UsedBy(u) # {}
    <3> DEFINE n == Valid * Cardinality(UsedBy(u))
    <3>1. Cardinality(UsedBy(u)) \in Nat
      BY BotAssumption, FS_Subset, FS_CardinalityType DEF UsedBy
    <3>2. n \in Nat /\ licence[u] \in Nat /\ licence[u] >= n /\ licence[u] <= now + n
      BY <1>2, <2>2, <3>1, BotAssumption DEF LicenceFits
    <3> HIDE DEF n
    <3>3. licence[u] <= now' + n
      BY <1>1, <3>2
    <3> QED
      BY <1>1, <2>2, <3>2, <3>3 DEF LicenceFits, UsedBy, n
  <2> QED
    BY <2>1, <2>2
<1> QED
  BY <1>1, <1>2 DEF DoorIInv, DoorTypes, Sound, Activating, Alone, Invited, UsedBy, Configured

\* A new code is nobody's and no activation has it.
LEMMA GenerateKeeps ==
  ASSUME DoorIInv, NEW s \in Slot, Door!generate_code(s) PROVE DoorIInv'
<1> USE DEF Door!Elsewhere, Door!In
<1>1. PICK c \in Code : codes[c] = None /\ codes' = [codes EXCEPT ![c] = Door!Unused]
  BY DEF Door!generate_code
<1>2. /\ codes \in [Code -> User \cup {None, Door!Unused}]
      /\ codes' \in [Code -> User \cup {None, Door!Unused}] /\ None # Door!Unused
      /\ UNCHANGED <<registered, configured, licence, now, failures, clash>>
      /\ requests \in [Slot -> Request] /\ requests[s].at = "handle"
      /\ requests' = [requests EXCEPT ![s] = Door!NoRequest]
  BY <1>1, BotAssumption DEF DoorIInv, DoorTypes, Door!generate_code, Door!Unused, Door!Done
<1>3. \A u \in User : UsedBy(u)' = UsedBy(u)
  BY <1>1, <1>2, BotAssumption DEF UsedBy, Door!Unused
<1>4. requests'[s].at = "none" /\ \A t \in Slot \ {s} : requests'[t] = requests[t]
  BY <1>2, NoRequestTyped
<1>5. DoorTypes'
  BY <1>2, NoRequestTyped DEF DoorIInv, DoorTypes
<1>6. \A t \in Slot : Activating(t)' => Activating(t) /\ t # s
  BY <1>4 DEF Activating
<1>7. \A t \in Slot : (Sound(requests[t]))' /\ (Activating(t)' => requests'[t].code \in Code)
  BY <1>4, <1>6 DEF DoorIInv, Sound, Activating
<1>8. ASSUME ~clash', NEW t \in Slot PROVE Alone(t)' /\ Invited(t)'
  <2>1. CASE t = s
    BY <2>1, <1>4, <1>6 DEF Alone, Invited
  <2>2. CASE t # s
    <3>1. Alone(t) /\ Invited(t) /\ Sound(requests[t]) /\ requests'[t] = requests[t]
      BY <1>8, <1>2, <1>4, <2>2 DEF DoorIInv
    <3>2. Alone(t)'
      <4>1. Activating(t)' => requests[t].code # c
        BY <3>1, <1>1, <1>2, <1>6 DEF Alone
      <4>2. Activating(t)' => requests[t].code \in Code
        BY <1>6 DEF DoorIInv
      <4> QED
        BY <3>1, <4>1, <4>2, <1>1, <1>2, <1>4, <1>6, <2>2 DEF Alone
    <3>3. Invited(t)'
      <4>1. requests[t].at = "handle" => requests[t].user \in User
        BY <3>1 DEF Sound
      <4> QED
        BY <3>1, <4>1, <1>3 DEF Invited
    <3> QED
      BY <3>2, <3>3
  <2> QED
    BY <2>1, <2>2
<1>9. ~clash' => \A u \in User : LicenceFits(u)'
  BY <1>2, <1>3 DEF DoorIInv, LicenceFits
<1>10. ASSUME failures' = 0, NEW u \in (registered \ configured)' PROVE Configured(u)'
  <2>1. PICK t \in Slot : requests[t].user = u /\ requests[t].at = "default"
    BY <1>2, <1>10 DEF DoorIInv, Configured
  <2> QED
    BY <1>2, <1>4, <2>1 DEF Configured
<1> QED
  BY <1>5, <1>7, <1>8, <1>9, <1>10 DEF DoorIInv

\* An activation that meets no other begins with a code nobody has used.
LEMMA HandleCodeKeeps ==
  ASSUME DoorIInv, NEW s \in Slot, Door!handle_activation_code(s) PROVE DoorIInv'
<1> USE DEF Door!Elsewhere, Door!Tables, Door!In
<1>1. CASE codes[requests[s].code] # Door!Unused
  BY <1>1, DoorGoes, StopNames DEF Door!handle_activation_code
<1>2. CASE codes[requests[s].code] = Door!Unused
  <2>1. /\ requests[s].at = "handle" /\ requests[s].kind = "text"
        /\ Door!GoesOn(s, "licence")
        /\ UNCHANGED <<registered, configured, licence, codes, now, failures>>
        /\ clash' = (clash \/ \E t \in Slot \ {s} :
               requests[t].at \in {"licence", "activate"}
               /\ (requests[t].user = requests[s].user \/ requests[t].code = requests[s].code))
    BY <1>2 DEF Door!handle_activation_code
  <2>2. /\ requests \in [Slot -> Request] /\ requests[s] \in Request /\ Sound(requests[s])
    BY DEF DoorIInv, DoorTypes
  <2>3. /\ requests'[s] = [requests[s] EXCEPT !.at = "licence"]
        /\ requests'[s] \in Request
        /\ \A t \in Slot \ {s} : requests'[t] = requests[t]
    BY <2>1, <2>2, StopNames DEF Door!GoesOn, Request
  <2>4. requests'[s].at = "licence" /\ requests'[s].user = requests[s].user
        /\ requests'[s].kind = requests[s].kind /\ requests'[s].code = requests[s].code
    BY <2>2, <2>3 DEF Request
  <2>5. DoorTypes'
    <3>1. clash' \in BOOLEAN
      BY <2>1
    <3>2. requests' \in [Slot -> Request]
      BY <2>1, <2>2, <2>3 DEF Door!GoesOn
    <3> QED
      BY <2>1, <3>1, <3>2 DEF DoorIInv, DoorTypes
  <2>6. requests[s].code \in Code /\ requests[s].user \in User
    BY <2>1, <2>2 DEF Sound
  <2>7. \A t \in Slot \ {s} : Activating(t)' = Activating(t)
    BY <2>3 DEF Activating
  <2>8. \A t \in Slot : (Sound(requests[t]))' /\ (Activating(t)' => requests'[t].code \in Code)
    <3> SUFFICES ASSUME NEW t \in Slot
                 PROVE (Sound(requests[t]))' /\ (Activating(t)' => requests'[t].code \in Code)
      OBVIOUS
    <3>1. CASE t = s
      BY <3>1, <2>4, <2>6 DEF Sound
    <3>2. CASE t # s
      BY <3>2, <2>3 DEF DoorIInv, Sound, Activating
    <3> QED
      BY <3>1, <3>2
  <2>9. ASSUME ~clash' PROVE \A t \in Slot : Alone(t)' /\ Invited(t)'
    <3>1. ~clash /\ \A t \in Slot \ {s} : Activating(t) =>
            requests[t].user # requests[s].user /\ requests[t].code # requests[s].code
      BY <2>9, <2>1 DEF Activating
    <3> SUFFICES ASSUME NEW t \in Slot PROVE Alone(t)' /\ Invited(t)'
      OBVIOUS
    <3>2. CASE t = s
      <4>1. \A q \in Slot \ {s} : Activating(q)' =>
              requests'[q].user # requests'[s].user /\ requests'[q].code # requests'[s].code
        BY <3>1, <2>3, <2>4, <2>7
      <4>2. Alone(s)'
        BY <4>1, <1>2, <2>1, <2>4 DEF Alone
      <4>3. Invited(s)'
        BY <2>4 DEF Invited
      <4> QED
        BY <3>2, <4>2, <4>3
    <3>3. CASE t # s
      <4>1. Alone(t) /\ Invited(t) /\ requests'[t] = requests[t]
        BY <3>1, <2>3, <3>3 DEF DoorIInv
      <4>2. Activating(t)' => \A q \in Slot \ {t} : Activating(q)' =>
              requests'[q].user # requests'[t].user /\ requests'[q].code # requests'[t].code
        <5> SUFFICES ASSUME Activating(t)', NEW q \in Slot \ {t}, Activating(q)'
                     PROVE requests'[q].user # requests'[t].user /\ requests'[q].code # requests'[t].code
          OBVIOUS
        <5>1. CASE q = s
          BY <5>1, <3>1, <3>3, <4>1, <2>4, <2>7
        <5>2. CASE q # s
          BY <5>2, <3>3, <4>1, <2>3, <2>7 DEF Alone
        <5> QED
          BY <5>1, <5>2
      <4>3. Alone(t)'
        BY <4>1, <4>2, <2>1, <2>7, <3>3 DEF Alone
      <4>4. Invited(t)'
        BY <4>1, <2>1 DEF Invited, UsedBy
      <4> QED
        BY <4>3, <4>4
    <3> QED
      BY <3>2, <3>3
  <2>10. ~clash' => \A u \in User : LicenceFits(u)'
    BY <2>1 DEF DoorIInv, LicenceFits, UsedBy
  <2>11. ASSUME failures' = 0, NEW u \in (registered \ configured)' PROVE Configured(u)'
    <3>1. PICK t \in Slot : requests[t].user = u /\ requests[t].at = "default"
      BY <2>1, <2>11 DEF DoorIInv, Configured
    <3> QED
      BY <2>1, <2>3, <3>1 DEF Configured
  <2> QED
    BY <2>5, <2>8, <2>9, <2>10, <2>11 DEF DoorIInv
<1> QED
  BY <1>1, <1>2

\* What is read is so until the commit, since nobody else activates for that user.
LEMMA GetLicenseKeeps ==
  ASSUME DoorIInv, NEW s \in Slot, Door!get_user_license(s) PROVE DoorIInv'
<1>1. /\ requests[s].at = "licence"
      /\ requests' = [requests EXCEPT ![s].at = "activate", ![s].had = licence[requests[s].user]]
      /\ UNCHANGED <<registered, configured, licence, codes, now, failures, clash>>
  BY DEF Door!get_user_license, Door!Elsewhere, Door!Tables, Door!In
<1>2. /\ requests \in [Slot -> Request] /\ requests[s] \in Request /\ Sound(requests[s])
      /\ licence \in [User -> Nat \cup {None}]
  BY DEF DoorIInv, DoorTypes
<1>3. requests[s].user \in User
  BY <1>1, <1>2 DEF Sound
<1>4. /\ requests'[s].at = "activate" /\ requests'[s].had = licence[requests[s].user]
      /\ requests'[s].user = requests[s].user /\ requests'[s].code = requests[s].code
      /\ requests'[s].kind = requests[s].kind
      /\ requests'[s] \in Request
      /\ \A t \in Slot \ {s} : requests'[t] = requests[t]
  <2>1. licence[requests[s].user] \in Nat \cup {None}
    BY <1>2, <1>3
  <2> DEFINE h == licence[requests[s].user]
  <2>2. requests'[s] = [requests[s] EXCEPT !.at = "activate", !.had = h]
    BY <1>1, <1>2
  <2>3. \A t \in Slot \ {s} : requests'[t] = requests[t]
    BY <1>1, <1>2
  <2> HIDE DEF h
  <2>4. [requests[s] EXCEPT !.at = "activate", !.had = h] \in Request
    BY <1>2, <2>1, StopNames DEF Request, h
  <2>5. /\ requests'[s].at = "activate" /\ requests'[s].had = h
        /\ requests'[s].user = requests[s].user /\ requests'[s].code = requests[s].code
        /\ requests'[s].kind = requests[s].kind
    BY <1>2, <2>2 DEF Request
  <2> QED
    BY <2>2, <2>3, <2>4, <2>5 DEF h
<1>5. DoorTypes'
  <2>1. requests' \in [Slot -> Request]
    BY <1>1, <1>2, <1>4
  <2> QED
    BY <1>1, <2>1 DEF DoorIInv, DoorTypes
<1>6. \A t \in Slot : Activating(t)' <=> Activating(t)
  <2> SUFFICES ASSUME NEW t \in Slot PROVE Activating(t)' <=> Activating(t)
    OBVIOUS
  <2>1. CASE t = s
    BY <2>1, <1>1, <1>4 DEF Activating
  <2>2. CASE t # s
    BY <2>2, <1>4 DEF Activating
  <2> QED
    BY <2>1, <2>2
<1>7. \A t \in Slot : requests'[t].user = requests[t].user /\ requests'[t].code = requests[t].code
  BY <1>4
<1>8. \A t \in Slot : (Sound(requests[t]))' /\ (Activating(t)' => requests'[t].code \in Code)
  <2> SUFFICES ASSUME NEW t \in Slot
               PROVE (Sound(requests[t]))' /\ (Activating(t)' => requests'[t].code \in Code)
    OBVIOUS
  <2>1. CASE t = s
    BY <2>1, <1>1, <1>2, <1>4 DEF Sound, DoorIInv, Activating
  <2>2. CASE t # s
    BY <2>2, <1>4 DEF DoorIInv, Sound, Activating
  <2> QED
    BY <2>1, <2>2
<1>9. ASSUME ~clash', NEW t \in Slot PROVE Alone(t)' /\ Invited(t)'
  <2>1. Alone(t) /\ Invited(t)
    BY <1>1, <1>9 DEF DoorIInv
  <2>2. Alone(t)'
    <3>1. CASE t = s
      <4>1. Activating(s)
        BY <1>1 DEF Activating
      <4>2. codes'[requests'[s].code] = Door!Unused
        BY <2>1, <3>1, <4>1, <1>1, <1>7 DEF Alone
      <4>3. requests'[s].had = licence'[requests'[s].user]
        BY <1>1, <1>4
      <4>4. \A q \in Slot \ {s} : Activating(q)' =>
              requests'[q].user # requests'[s].user /\ requests'[q].code # requests'[s].code
        BY <2>1, <3>1, <4>1, <1>6, <1>7 DEF Alone
      <4> QED
        BY <3>1, <4>2, <4>3, <4>4 DEF Alone
    <3>2. CASE t # s
      BY <3>2, <2>1, <1>1, <1>4, <1>6, <1>7 DEF Alone
    <3> QED
      BY <3>1, <3>2
  <2>3. Invited(t)'
    BY <2>1, <1>1, <1>4 DEF Invited, UsedBy
  <2> QED
    BY <2>2, <2>3
<1>10. ~clash' => \A u \in User : LicenceFits(u)'
  BY <1>1 DEF DoorIInv, LicenceFits, UsedBy
<1>11. ASSUME failures' = 0, NEW u \in (registered \ configured)' PROVE Configured(u)'
  <2>1. PICK t \in Slot : requests[t].user = u /\ requests[t].at = "default"
    BY <1>1, <1>11 DEF DoorIInv, Configured
  <2> QED
    BY <1>1, <1>4, <2>1 DEF Configured
<1> QED
  BY <1>5, <1>8, <1>9, <1>10, <1>11 DEF DoorIInv

\* A commit counts the code for its user and adds its time to the licence.
LEMMA ActivateKeeps ==
  ASSUME DoorIInv, NEW s \in Slot, Door!activate_user(s) PROVE DoorIInv'
<1> USE DEF Door!Elsewhere, Door!Tables, Door!In
<1>0. PICK u, c, h : u = requests[s].user /\ c = requests[s].code /\ h = requests[s].had
  OBVIOUS
<1>1. /\ requests[s].at = "activate" /\ Activating(s)
      /\ requests \in [Slot -> Request] /\ requests[s] \in Request /\ Sound(requests[s])
      /\ licence \in [User -> Nat \cup {None}] /\ now \in Nat
      /\ codes \in [Code -> User \cup {None, Door!Unused}]
      /\ h \in Nat \cup {None}
  BY <1>0 DEF DoorIInv, DoorTypes, Door!activate_user, Activating, Request
<1>2. u \in User /\ c \in Code
  BY <1>0, <1>1 DEF Sound, DoorIInv
<1>3. CASE h = None /\ licence[u] # None
  BY <1>0, <1>1, <1>3, DoorGoes, StopNames DEF Door!activate_user
<1>4. CASE ~(h = None /\ licence[u] # None)
  <2> DEFINE l == IF h = None THEN now + Valid ELSE h + Valid
  <2>1. /\ codes' = [codes EXCEPT ![c] = u] /\ licence' = [licence EXCEPT ![u] = l]
        /\ Door!GoesOn(s, "activated")
        /\ UNCHANGED <<registered, configured, now, failures, clash>>
    BY <1>0, <1>4 DEF Door!activate_user
  <2>2. l \in Nat
    BY <1>1, BotAssumption
  <2>3. /\ requests'[s] \in Request /\ requests'[s].at = "activated"
        /\ requests'[s].user = u /\ requests'[s].code = c /\ requests'[s].kind = requests[s].kind
        /\ requests' \in [Slot -> Request]
        /\ \A t \in Slot \ {s} : requests'[t] = requests[t]
    <3>1. requests'[s] = [requests[s] EXCEPT !.at = "activated"] /\ requests'[s] \in Request
          /\ requests' \in [Slot -> Request]
      BY <1>1, <2>1, StopNames DEF Door!GoesOn, Request
    <3> QED
      BY <1>0, <1>1, <2>1, <3>1 DEF Door!GoesOn, Request
  <2> HIDE DEF l
  <2>4. /\ codes' \in [Code -> User \cup {None, Door!Unused}]
        /\ licence' \in [User -> Nat \cup {None}]
    BY <1>1, <1>2, <2>1, <2>2
  <2>5. DoorTypes'
    BY <2>1, <2>3, <2>4 DEF DoorIInv, DoorTypes
  <2>6. \A t \in Slot : Activating(t)' => Activating(t) /\ t # s
    BY <2>3 DEF Activating
  <2>7. \A t \in Slot : (Sound(requests[t]))' /\ (Activating(t)' => requests'[t].code \in Code)
    <3> SUFFICES ASSUME NEW t \in Slot
                 PROVE (Sound(requests[t]))' /\ (Activating(t)' => requests'[t].code \in Code)
      OBVIOUS
    <3>1. CASE t = s
      BY <3>1, <1>0, <1>1, <1>2, <2>3 DEF Sound, Activating
    <3>2. CASE t # s
      BY <3>2, <2>3 DEF DoorIInv, Sound, Activating
    <3> QED
      BY <3>1, <3>2
  <2>8. ASSUME ~clash'
        PROVE  /\ \A t \in Slot : Alone(t)' /\ Invited(t)'
               /\ \A v \in User : LicenceFits(v)'
    <3>1. /\ Alone(s) /\ h = licence[u] /\ codes[c] = Door!Unused
          /\ \A t \in Slot \ {s} : Activating(t) => requests[t].user # u /\ requests[t].code # c
          /\ LicenceFits(u)
      BY <2>8, <2>1, <1>0, <1>1, <1>2 DEF DoorIInv, Alone
    <3>2. \A v \in User : UsedBy(v)' = IF v = u THEN UsedBy(v) \cup {c} ELSE UsedBy(v)
      BY <3>1, <1>1, <1>2, <2>1, BotAssumption DEF UsedBy, Door!Unused
    <3>3. c \notin UsedBy(u)
      BY <3>1, <1>2, BotAssumption DEF UsedBy, Door!Unused
    <3>4. ASSUME NEW t \in Slot PROVE Alone(t)' /\ Invited(t)'
      <4>1. Alone(t) /\ Invited(t)
        BY <2>1, <2>8 DEF DoorIInv
      <4>2. Alone(t)'
        <5> SUFFICES ASSUME Activating(t)' PROVE Alone(t)'
          BY DEF Alone
        <5>1. Activating(t) /\ t # s /\ requests'[t] = requests[t]
              /\ requests[t].user # u /\ requests[t].code # c /\ requests[t].code \in Code
          BY <2>3, <2>6, <3>1 DEF DoorIInv
        <5>2. requests[t].user \in User
          BY <5>1 DEF DoorIInv, Sound, Activating
        <5>3. codes'[requests[t].code] = codes[requests[t].code]
              /\ licence'[requests[t].user] = licence[requests[t].user]
          BY <5>1, <5>2, <1>1, <2>1
        <5> QED
          BY <4>1, <5>1, <5>3, <2>3, <2>6 DEF Alone
      <4>3. Invited(t)'
        <5>1. CASE t = s
          BY <5>1, <2>3 DEF Invited
        <5>2. CASE t # s
          <6>1. requests[t].at = "handle" => requests[t].user \in User
            BY DEF DoorIInv, Sound
          <6> QED
            BY <5>2, <4>1, <6>1, <3>2, <2>3 DEF Invited
        <5> QED
          BY <5>1, <5>2
      <4> QED
        BY <4>2, <4>3
    <3>5. ASSUME NEW v \in User PROVE LicenceFits(v)'
      <4>1. CASE v # u
        BY <4>1, <3>2, <2>1, <1>1, <2>8 DEF DoorIInv, LicenceFits
      <4>2. CASE v = u
        <5> DEFINE n == Cardinality(UsedBy(u))
        <5>1. IsFiniteSet(UsedBy(u)) /\ n \in Nat
          BY BotAssumption, FS_Subset, FS_CardinalityType DEF UsedBy
        <5>2. Cardinality(UsedBy(u) \cup {c}) = n + 1
          BY <5>1, <3>3, FS_AddElement
        <5>3. UsedBy(u)' = UsedBy(u) \cup {c} /\ UsedBy(u)' # {}
          BY <3>2, <1>2
        <5>4. licence'[u] = l
          BY <1>1, <1>2, <2>1
        <5>5. l >= Valid * (n + 1) /\ l <= now + Valid * (n + 1)
          <6>1. CASE UsedBy(u) = {}
            <7>1. n = 0 /\ h = None
              BY <6>1, <3>1, FS_EmptySet DEF LicenceFits
            <7>2. l = now + Valid
              BY <7>1 DEF l
            <7>3. Valid * (n + 1) = Valid
              BY <7>1, BotAssumption
            <7> QED
              BY <7>2, <7>3, <1>1, BotAssumption
          <6>2. CASE UsedBy(u) # {}
            <7> DEFINE m == Valid * n
            <7>1. h \in Nat /\ h >= m /\ h <= now + m
              BY <6>2, <3>1 DEF LicenceFits
            <7>2. l = h + Valid
              BY <7>1, BotAssumption DEF l
            <7>3. Valid * (n + 1) = m + Valid /\ m \in Nat
              BY <5>1, BotAssumption
            <7> HIDE DEF m, n
            <7> QED
              BY <7>1, <7>2, <7>3, <1>1, BotAssumption
          <6> QED
            BY <6>1, <6>2
        <5>6. now' = now
          BY <2>1
        <5> HIDE DEF n
        <5>7. (Cardinality(UsedBy(u)))' = n + 1
          BY <5>2, <5>3
        <5> QED
          BY <4>2, <2>2, <5>3, <5>4, <5>5, <5>6, <5>7 DEF LicenceFits
      <4> QED
        BY <4>1, <4>2
    <3> QED
      BY <3>4, <3>5
  <2>9. ASSUME failures' = 0, NEW v \in (registered \ configured)' PROVE Configured(v)'
    <3>1. PICK t \in Slot : requests[t].user = v /\ requests[t].at = "default"
      BY <2>1, <2>9 DEF DoorIInv, Configured
    <3> QED
      BY <1>1, <2>3, <3>1 DEF Configured
  <2> QED
    BY <2>5, <2>7, <2>8, <2>9 DEF DoorIInv
<1> QED
  BY <1>3, <1>4

LEMMA DoorKeeps ==
  DoorIInv /\ ((\E s \in Slot : Door!AccessStep(s)) \/ Door!Tick) => DoorIInv'
BY ArriveKeeps, PassingKeeps, AuthorizationKeeps, RegisterKeeps, CreateDefaultKeeps, GenerateKeeps,
   HandleCodeKeeps, GetLicenseKeeps, ActivateKeeps, BrokenKeeps, TickKeeps DEF Door!AccessStep

LEMMA DoorUnchanged ==
  DoorIInv /\ UNCHANGED <<doorVars, failures, clash>> => DoorIInv'
<1> SUFFICES ASSUME DoorIInv, UNCHANGED <<doorVars, failures, clash>> PROVE DoorIInv'
  OBVIOUS
<1>1. UNCHANGED <<registered, configured, licence, codes, requests, now, failures, clash>>
  BY DEF doorVars
<1>2. DoorTypes'
  BY <1>1 DEF DoorIInv, DoorTypes
<1>3. \A s \in Slot : /\ (Sound(requests[s]))' /\ (Activating(s)' => requests'[s].code \in Code)
  BY <1>1 DEF DoorIInv, Sound, Activating
<1>4. ~clash' => \A s \in Slot : Alone(s)' /\ Invited(s)'
  <2>1. \A s \in Slot : Alone(s) => Alone(s)'
    BY <1>1 DEF Alone, Activating
  <2>2. \A s \in Slot : Invited(s) => Invited(s)'
    BY <1>1 DEF Invited, UsedBy
  <2> QED
    BY <1>1, <2>1, <2>2 DEF DoorIInv
<1>5. ~clash' => \A u \in User : LicenceFits(u)'
  BY <1>1 DEF DoorIInv, LicenceFits, UsedBy
<1>6. failures' = 0 => \A u \in (registered \ configured)' : Configured(u)'
  BY <1>1 DEF DoorIInv, Configured
<1> QED
  BY <1>2, <1>3, <1>4, <1>5, <1>6 DEF DoorIInv

LEMMA SameCardinality == \A S : Door!Cardinality(S) = Cardinality(S)
BY DEF Door!Cardinality, Cardinality

LEMMA DoorEnough == DoorIInv => Door!AccessInv /\ Door!ServedInvited
<1> SUFFICES ASSUME DoorIInv PROVE Door!AccessInv /\ Door!ServedInvited
  OBVIOUS
<1>1. \A u \in User : Door!Used(u) = UsedBy(u)
  BY DEF Door!Used, UsedBy
<1>2. ~clash => \A u \in User :
        IF Door!Used(u) = {} THEN licence[u] = None
        ELSE /\ licence[u] >= Valid * Door!Cardinality(Door!Used(u))
             /\ licence[u] <= now + Valid * Door!Cardinality(Door!Used(u))
  BY <1>1, SameCardinality DEF DoorIInv, LicenceFits
<1>3. failures = 0 => \A u \in registered \ configured :
        \E s \in Slot : requests[s].user = u /\ Door!In(s, "default")
  BY DEF DoorIInv, Configured, Door!In
<1>4. ASSUME ~clash, Private, NEW s \in Slot, requests[s].at = "handle",
             requests[s].kind \in {"/start", "command", "button"}, requests[s].user # Manager
      PROVE  Door!Used(requests[s].user) # {}
  BY <1>1, <1>4 DEF DoorIInv, Invited, Sound
<1> QED
  BY <1>2, <1>3, <1>4 DEF Door!AccessInv, Door!ServedInvited, Door!In

-----------------------------------------------------------------------------
(***************************************************************************)
(* The copy-trade and the monitor dialogue: both save forms with values in *)
(* a set V as rows of a table.  D are the steps their handlers take, N     *)
(* those of them that work on the form of the handler.                     *)
(***************************************************************************)
Word == {"copytrade", "monitor", "menu", "creating", "editing",
         "target", "alias", "amount", "priority", "slippage"}
Target == Seq(Word) \cup {None}

StepSeq(S) == Seq([do : S, to : Target])

Form(V) == [row : Nat \cup {None}, value : V]

\* Whatever row of the table it is written to, what is written makes a value of it.
Fits(V, W) == \A r \in Nat, row \in V : Written(r, row, W) \in V

CallFits(call, V, D, N) ==
  /\ DOMAIN call = {"seen", "todo", "on", "form", "write"}
  /\ call.form \in (1..Len(forms)) \cup {None}
  /\ call.todo \in StepSeq(IF call.form = None THEN D \ N ELSE D)
  /\ Fits(V, call.write)

Dialogue(V, D, N) ==
  /\ forms \in Seq(Form(V))
  /\ rows \in Seq(V \cup {None})
  /\ data \in [Keys -> (1..Len(forms)) \cup {None}]
  /\ calls = [c \in Slot |-> calls[c]]
  /\ \A c \in Slot : CallFits(calls[c], V, D, N)

\* What a set of values and the steps of a dialogue have to offer for that.
Suits(V, D, N) ==
  /\ N = {"insert", "read", "delete"}
  /\ {"tell", "tidy", "readAll", "commit", "insert", "read", "delete"} \subseteq D
  /\ Fits(V, {})
  /\ \A R \in SUBSET Nat : Fits(V, {<<r, "active", FALSE>> : r \in R})
  /\ \A r \in Nat, v \in V, w \in V :
       Fits(V, {<<r, f, v[f]>> : f \in {g \in DOMAIN v : v[g] # w[g]}})
  /\ \A v \in V : AsRow(v) \in V

LEMMA OneStep ==
  ASSUME NEW S, NEW d \in S, NEW t \in Target
  PROVE  <<[do |-> d, to |-> t]>> \in StepSeq(S)
BY DEF StepSeq

LEMMA TwoSteps ==
  ASSUME NEW S, NEW d \in S, NEW e \in S, NEW t \in Target, NEW u \in Target
  PROVE  <<[do |-> d, to |-> t], [do |-> e, to |-> u]>> \in StepSeq(S)
<1>1. PICK a, b : a = [do |-> d, to |-> t] /\ b = [do |-> e, to |-> u]
  OBVIOUS
<1>2. a \in [do : S, to : Target] /\ b \in [do : S, to : Target]
  BY <1>1
<1>3. <<a, b>> \in Seq([do : S, to : Target])
  BY <1>2
<1> QED
  BY <1>1, <1>3 DEF StepSeq

LEMMA MoreSteps ==
  ASSUME NEW S, NEW p \in StepSeq(S), NEW q \in StepSeq(S)
  PROVE  p \o q \in StepSeq(S)
BY DEF StepSeq

LEMMA NoSteps == \A S : <<>> \in StepSeq(S)
BY DEF StepSeq

LEMMA IdleFits ==
  ASSUME NEW V, NEW D, NEW N, Fits(V, {}) PROVE CallFits(Idle, V, D, N)
<1>1. Idle.form = None /\ Idle.todo = <<>> /\ Idle.write = {}
      /\ DOMAIN Idle = {"seen", "todo", "on", "form", "write"}
  BY DEF Idle
<1> QED
  BY <1>1, NoSteps DEF CallFits

\* Forms are only added, so that what a call refers to stays.
LEMMA StaysFit ==
  ASSUME NEW V, NEW D, NEW N, NEW call, CallFits(call, V, D, N),
         Len(forms) \in Nat, Len(forms') \in Nat, Len(forms') >= Len(forms)
  PROVE  CallFits(call, V, D, N)'
BY DEF CallFits

LEMMA CallMoves ==
  ASSUME NEW V, NEW D, NEW N, Dialogue(V, D, N), NEW c \in Slot, NEW call,
         calls' = [calls EXCEPT ![c] = call], CallFits(call, V, D, N)',
         forms' \in Seq(Form(V)), Len(forms') >= Len(forms),
         rows' \in Seq(V \cup {None}),
         data' \in [Keys -> (1..Len(forms')) \cup {None}]
  PROVE  Dialogue(V, D, N)'
<1>1. Len(forms) \in Nat /\ Len(forms') \in Nat
  BY DEF Dialogue
<1>2. calls'[c] = call /\ \A b \in Slot \ {c} : calls'[b] = calls[b]
  BY DEF Dialogue
<1>3. calls' = [b \in Slot |-> calls'[b]]
  BY DEF Dialogue
<1>4. ASSUME NEW b \in Slot PROVE (CallFits(calls[b], V, D, N))'
  <2>1. CASE b = c
    BY <2>1, <1>2
  <2>2. CASE b # c
    <3>1. PICK k : k = calls[b]
      OBVIOUS
    <3>2. CallFits(k, V, D, N)
      BY <3>1 DEF Dialogue
    <3>3. CallFits(k, V, D, N)'
      BY <3>2, <1>1, StaysFit
    <3>4. calls'[b] = k
      BY <3>1, <1>2, <2>2
    <3> QED
      BY <3>3, <3>4
  <2> QED
    BY <2>1, <2>2
<1> QED
  BY <1>3, <1>4 DEF Dialogue

\* What a call in hand is after its await.
LEMMA StepFacts ==
  ASSUME NEW V, NEW D, NEW N, NEW call, CallFits(call, V, D, N), call.todo # <<>>
  PROVE  /\ Len(call.todo) \in Nat \ {0}
         /\ Head(call.todo).do \in D /\ Head(call.todo).to \in Target
         /\ call.form = None => Head(call.todo).do \notin N
         /\ Tail(call.todo) \in StepSeq(IF call.form = None THEN D \ N ELSE D)
<1>1. PICK S : S = IF call.form = None THEN D \ N ELSE D
  OBVIOUS
<1>2. call.todo \in Seq([do : S, to : Target])
  BY <1>1 DEF CallFits, StepSeq
<1>3. /\ Len(call.todo) \in Nat \ {0} /\ Head(call.todo) \in [do : S, to : Target]
      /\ Tail(call.todo) \in Seq([do : S, to : Target])
  <2>1. PICK T : T = [do : S, to : Target]
    OBVIOUS
  <2>2. PICK q : q = call.todo
    OBVIOUS
  <2>3. q \in Seq(T) /\ q # <<>>
    BY <1>2, <2>1, <2>2
  <2>4. Len(q) \in Nat \ {0} /\ Head(q) \in T /\ Tail(q) \in Seq(T)
    BY <2>3
  <2> QED
    BY <2>1, <2>2, <2>4
<1>4. Head(call.todo).do \in S /\ Head(call.todo).to \in Target
  BY <1>3
<1> QED
  BY <1>1, <1>3, <1>4 DEF StepSeq

LEMMA RestFits ==
  ASSUME NEW V, NEW D, NEW N, NEW call, CallFits(call, V, D, N), call.todo # <<>>
  PROVE  CallFits([call EXCEPT !.todo = Tail(@)], V, D, N)
<1>1. Tail(call.todo) \in StepSeq(IF call.form = None THEN D \ N ELSE D)
  BY StepFacts
<1>2. DOMAIN call = {"seen", "todo", "on", "form", "write"}
  BY DEF CallFits
<1> DEFINE r == [call EXCEPT !.todo = Tail(@)]
<1>3. /\ DOMAIN r = {"seen", "todo", "on", "form", "write"}
      /\ r.todo = Tail(call.todo) /\ r.form = call.form /\ r.write = call.write
  BY <1>2
<1> HIDE DEF r
<1>4. CallFits(r, V, D, N)
  BY <1>1, <1>3 DEF CallFits
<1> QED
  BY <1>4 DEF r

\* Going on, while only the table, the forms or the data change.
LEMMA GoesOnFits ==
  ASSUME NEW V, NEW D, NEW N, Dialogue(V, D, N), Fits(V, {}), NEW c \in Slot, Running(c), Goes(c),
         forms' \in Seq(Form(V)), Len(forms') >= Len(forms),
         rows' \in Seq(V \cup {None}),
         data' \in [Keys -> (1..Len(forms')) \cup {None}]
  PROVE  Dialogue(V, D, N)'
<1> DEFINE r == IF Tail(calls[c].todo) = <<>> THEN Idle ELSE [calls[c] EXCEPT !.todo = Tail(@)]
<1>1. PICK k : k = r
  OBVIOUS
<1>2. CallFits(calls[c], V, D, N) /\ calls[c].todo # <<>>
  BY DEF Dialogue, Running
<1>3. CallFits(k, V, D, N)
  <2>1. CASE Tail(calls[c].todo) = <<>>
    BY <1>1, <2>1, IdleFits
  <2>2. CASE Tail(calls[c].todo) # <<>>
    BY <1>1, <1>2, <2>2, RestFits
  <2> QED
    BY <2>1, <2>2
<1>4. Len(forms) \in Nat /\ Len(forms') \in Nat
  BY DEF Dialogue
<1>5. CallFits(k, V, D, N)'
  BY <1>3, <1>4, StaysFit
<1>6. calls' = [calls EXCEPT ![c] = k]
  <2>1. calls' = [calls EXCEPT ![c] =
                    IF Tail(calls[c].todo) = <<>> THEN Idle ELSE [calls[c] EXCEPT !.todo = Tail(calls[c].todo)]]
    BY DEF Goes
  <2> QED
    BY <1>1, <2>1
<1> QED
  BY <1>5, <1>6, CallMoves

LEMMA EndsFits ==
  ASSUME NEW V, NEW D, NEW N, Dialogue(V, D, N), Fits(V, {}), NEW c \in Slot, Ends(c),
         forms' = forms, rows' = rows, data' = data
  PROVE  Dialogue(V, D, N)'
<1>1. CallFits(Idle, V, D, N)
  BY IdleFits
<1>2. Len(forms) \in Nat /\ Len(forms') \in Nat /\ Len(forms') >= Len(forms)
  BY DEF Dialogue
<1>3. CallFits(Idle, V, D, N)'
  <2>1. PICK k : k = Idle
    OBVIOUS
  <2>2. CallFits(k, V, D, N)'
    BY <1>1, <1>2, <2>1, StaysFit
  <2> QED
    BY <2>1, <2>2 DEF Idle
<1>4. forms' \in Seq(Form(V)) /\ rows' \in Seq(V \cup {None})
      /\ data' \in [Keys -> (1..Len(forms')) \cup {None}]
  BY DEF Dialogue
<1>5. PICK k : k = Idle
  OBVIOUS
<1>6. CallFits(k, V, D, N)' /\ calls' = [calls EXCEPT ![c] = k]
  BY <1>1, <1>2, <1>5, StaysFit DEF Ends
<1> QED
  BY <1>2, <1>4, <1>6, CallMoves

LEMMA SameRest ==
  ASSUME NEW V, NEW D, NEW N, Dialogue(V, D, N), forms' = forms, rows' = rows, data' = data
  PROVE  /\ forms' \in Seq(Form(V)) /\ Len(forms') >= Len(forms)
         /\ rows' \in Seq(V \cup {None})
         /\ data' \in [Keys -> (1..Len(forms')) \cup {None}]
         /\ Len(forms) \in Nat /\ Len(forms') \in Nat
BY DEF Dialogue

LEMMA ReceiveKeeps ==
  ASSUME NEW V, NEW D, NEW N, Dialogue(V, D, N), Suits(V, D, N), NEW c \in Slot, Receive(c)
  PROVE  Dialogue(V, D, N)'
<1>1. PICK k : k = [calls[c] EXCEPT !.seen = fsm]
  OBVIOUS
<1>2. CallFits(Idle, V, D, N) /\ DOMAIN Idle = {"seen", "todo", "on", "form", "write"}
  BY IdleFits DEF Suits, Idle
<1>3. calls[c] = Idle /\ calls' = [calls EXCEPT ![c] = k] /\ forms' = forms /\ rows' = rows /\ data' = data
  BY <1>1 DEF Receive, Dialogue
<1>4. /\ DOMAIN k = {"seen", "todo", "on", "form", "write"}
      /\ k.todo = Idle.todo /\ k.form = Idle.form /\ k.write = Idle.write
  BY <1>1, <1>2, <1>3
<1>5. CallFits(k, V, D, N)
  BY <1>2, <1>4 DEF CallFits
<1>6. CallFits(k, V, D, N)'
  BY <1>3, <1>5, SameRest, StaysFit
<1> QED
  BY <1>3, <1>6, SameRest, CallMoves

LEMMA MessageKeeps ==
  ASSUME NEW V, NEW D, NEW N, Dialogue(V, D, N), Suits(V, D, N), NEW c \in Slot, Message(c)
  PROVE  Dialogue(V, D, N)'
<1>1. Running(c) /\ Goes(c) /\ forms' = forms /\ rows' = rows /\ data' = data
  BY DEF Message, At
<1> QED
  BY <1>1, SameRest, GoesOnFits DEF Suits

LEMMA InsertKeeps ==
  ASSUME NEW V, NEW D, NEW N, Dialogue(V, D, N), Suits(V, D, N), NEW c \in Slot, Insert(c)
  PROVE  Dialogue(V, D, N)'
<1>1. Running(c) /\ Goes(c) /\ forms' = forms /\ data' = data
      /\ rows' = Append(rows, AsRow(forms[calls[c].form].value))
      /\ Head(calls[c].todo).do = "insert" /\ calls[c].todo # <<>>
  BY DEF Insert, At, Running
<1>2. CallFits(calls[c], V, D, N)
  BY DEF Dialogue
<1>3. calls[c].form \in 1..Len(forms)
  <2>1. calls[c].form = None => Head(calls[c].todo).do \notin N
    <3>1. PICK k : k = calls[c]
      OBVIOUS
    <3>2. CallFits(k, V, D, N) /\ k.todo # <<>>
      BY <1>1, <1>2, <3>1
    <3>3. k.form = None => Head(k.todo).do \notin N
      BY <3>2, StepFacts
    <3> QED
      BY <3>1, <3>3
  <2>2. "insert" \in N
    BY DEF Suits
  <2>3. calls[c].form # None
    BY <1>1, <2>1, <2>2
  <2> QED
    BY <1>2, <2>3 DEF CallFits
<1>4. AsRow(forms[calls[c].form].value) \in V
  <2>1. forms[calls[c].form] \in Form(V)
    BY <1>3 DEF Dialogue
  <2> QED
    BY <2>1 DEF Form, Suits
<1>5. rows' \in Seq(V \cup {None})
  BY <1>1, <1>4 DEF Dialogue
<1>6. /\ forms' \in Seq(Form(V)) /\ Len(forms') >= Len(forms)
      /\ data' \in [Keys -> (1..Len(forms')) \cup {None}]
  BY <1>1 DEF Dialogue
<1> QED
  BY <1>1, <1>5, <1>6, GoesOnFits DEF Suits

LEMMA DeleteKeeps ==
  ASSUME NEW V, NEW D, NEW N, Dialogue(V, D, N), Suits(V, D, N), NEW c \in Slot, Delete(c)
  PROVE  Dialogue(V, D, N)'
<1>1. Running(c) /\ Goes(c) /\ forms' = forms /\ data' = data
  BY DEF Delete, At
<1>2. PICK r : r = forms[calls[c].form].row
  OBVIOUS
<1>3. rows' = IF Exists(r) THEN [rows EXCEPT ![r] = None] ELSE rows
  BY <1>2 DEF Delete
<1>4. rows' \in Seq(V \cup {None})
  BY <1>3 DEF Dialogue, Exists
<1>5. /\ forms' \in Seq(Form(V)) /\ Len(forms') >= Len(forms)
      /\ data' \in [Keys -> (1..Len(forms')) \cup {None}]
  BY <1>1 DEF Dialogue
<1> QED
  BY <1>1, <1>4, <1>5, GoesOnFits DEF Suits

\* The row is read and what differs from the form will be written.
LEMMA ReadKeeps ==
  ASSUME NEW V, NEW D, NEW N, Dialogue(V, D, N), Suits(V, D, N), NEW c \in Slot, Read(c)
  PROVE  Dialogue(V, D, N)'
<1> DEFINE o == forms[calls[c].form]
<1>1. /\ calls[c].todo # <<>> /\ Head(calls[c].todo).do = "read"
      /\ forms' = forms /\ rows' = rows /\ data' = data
  BY DEF Read, At, Running
<1>2. CASE ~Exists(o.row)
  BY <1>1, <1>2, EndsFits DEF Read, Suits
<1>3. CASE Exists(o.row)
  <2>1. PICK k : k = calls[c]
    OBVIOUS
  <2>2. CallFits(k, V, D, N) /\ k.todo # <<>>
    BY <1>1, <2>1 DEF Dialogue
  <2>3. k.form # None
    <3>1. k.form = None => Head(k.todo).do \notin N
      BY <2>2, StepFacts
    <3> QED
      BY <3>1, <1>1, <2>1 DEF Suits
  <2>4. k.form \in 1..Len(forms)
    BY <2>2, <2>3 DEF CallFits
  <2>5. o \in Form(V)
    BY <2>1, <2>4 DEF Dialogue
  <2>6. o.value \in V /\ o.row \in 1..Len(rows) /\ rows[o.row] \in V
    BY <2>5, <1>3 DEF Form, Exists, Dialogue
  <2>7. PICK W : W = Changes(o, DOMAIN o.value)
    OBVIOUS
  <2>8. Fits(V, W)
    <3>1. PICK r \in Nat, v \in V, w \in V : r = o.row /\ v = AsRow(o.value) /\ w = rows[o.row]
      BY <2>6 DEF Dialogue, Suits
    <3>2. W = {<<r, f, v[f]>> : f \in {g \in DOMAIN v : v[g] # w[g]}}
      BY <2>7, <3>1 DEF Changes, AsRow
    <3> QED
      BY <3>2 DEF Suits
  <2>9. PICK q : q = [[k EXCEPT !.todo = Tail(@)] EXCEPT !.write = W]
    OBVIOUS
  <2>10. CallFits([k EXCEPT !.todo = Tail(@)], V, D, N)
    BY <2>2, RestFits
  <2>11. CallFits(q, V, D, N)
    <3>1. PICK p : p = [k EXCEPT !.todo = Tail(@)]
      OBVIOUS
    <3>2. CallFits(p, V, D, N) /\ q = [p EXCEPT !.write = W]
      BY <2>9, <2>10, <3>1
    <3>3. /\ DOMAIN q = {"seen", "todo", "on", "form", "write"}
          /\ q.todo = p.todo /\ q.form = p.form /\ q.write = W
      BY <3>2 DEF CallFits
    <3> QED
      BY <3>2, <3>3, <2>8 DEF CallFits
  <2>12. CallFits(q, V, D, N)'
    BY <1>1, <2>11, SameRest, StaysFit
  <2>13. calls' = [calls EXCEPT ![c] = q]
    <3>1. calls' = [calls EXCEPT ![c].todo = Tail(@), ![c].write = W]
      BY <1>3, <2>7 DEF Read
    <3> QED
      BY <3>1, <2>1, <2>9 DEF Dialogue
  <2> QED
    BY <1>1, <2>12, <2>13, SameRest, CallMoves
<1> QED
  BY <1>2, <1>3

LEMMA ReadAllKeeps ==
  ASSUME NEW V, NEW D, NEW N, Dialogue(V, D, N), Suits(V, D, N), NEW c \in Slot, ReadAll(c)
  PROVE  Dialogue(V, D, N)'
<1>1. /\ calls[c].todo # <<>> /\ forms' = forms /\ rows' = rows /\ data' = data
  BY DEF ReadAll, At, Running
<1>2. PICK R : R = {q \in DOMAIN rows : Exists(q) /\ rows[q].active}
  OBVIOUS
<1>3. R \in SUBSET Nat
  BY <1>2 DEF Dialogue
<1>4. PICK W : W = {<<r, "active", FALSE>> : r \in R}
  OBVIOUS
<1>5. Fits(V, W)
  BY <1>3, <1>4 DEF Suits
<1>6. PICK k : k = calls[c]
  OBVIOUS
<1>7. CallFits(k, V, D, N) /\ k.todo # <<>>
  BY <1>1, <1>6 DEF Dialogue
<1>8. PICK p : p = [k EXCEPT !.todo = Tail(@)]
  OBVIOUS
<1>9. CallFits(p, V, D, N)
  BY <1>7, <1>8, RestFits
<1>10. PICK q : q = [p EXCEPT !.write = W]
  OBVIOUS
<1>11. /\ DOMAIN q = {"seen", "todo", "on", "form", "write"}
       /\ q.todo = p.todo /\ q.form = p.form /\ q.write = W
  BY <1>9, <1>10 DEF CallFits
<1>12. CallFits(q, V, D, N)
  BY <1>5, <1>9, <1>11 DEF CallFits
<1>13. CallFits(q, V, D, N)'
  BY <1>1, <1>12, SameRest, StaysFit
<1>14. calls' = [calls EXCEPT ![c] = q]
  <2>1. calls' = [calls EXCEPT ![c].todo = Tail(@), ![c].write = W]
    BY <1>2, <1>4 DEF ReadAll
  <2> QED
    BY <2>1, <1>6, <1>8, <1>10 DEF Dialogue
<1> QED
  BY <1>1, <1>13, <1>14, SameRest, CallMoves

\* Each row that is there becomes a value with what is written to it.
LEMMA CommitKeeps ==
  ASSUME NEW V, NEW D, NEW N, Dialogue(V, D, N), Suits(V, D, N), NEW c \in Slot, Commit(c)
  PROVE  Dialogue(V, D, N)'
<1>1. Running(c) /\ forms' = forms /\ data' = data
  BY DEF Commit, At
<1>2. CASE ~(\A w \in calls[c].write : Exists(w[1]))
  <2>1. Ends(c) /\ rows' = rows
    BY <1>2 DEF Commit
  <2> QED
    BY <1>1, <2>1, EndsFits DEF Suits
<1>3. CASE \A w \in calls[c].write : Exists(w[1])
  <2>1. /\ rows' = [r \in DOMAIN rows |->
                      IF rows[r] = None THEN None ELSE Written(r, rows[r], calls[c].write)]
        /\ Goes(c)
    BY <1>3 DEF Commit
  <2>2. Fits(V, calls[c].write)
    BY DEF Dialogue, CallFits
  <2>3. rows \in Seq(V \cup {None})
    BY DEF Dialogue
  <2>4. \A r \in 1..Len(rows) : rows'[r] \in V \cup {None}
    <3> SUFFICES ASSUME NEW r \in 1..Len(rows) PROVE rows'[r] \in V \cup {None}
      OBVIOUS
    <3>1. rows'[r] = IF rows[r] = None THEN None ELSE Written(r, rows[r], calls[c].write)
      BY <2>1, <2>3
    <3>2. r \in Nat /\ rows[r] \in V \cup {None}
      BY <2>3
    <3> QED
      BY <3>1, <3>2, <2>2 DEF Fits
  <2>5. rows' \in Seq(V \cup {None})
    <3>1. rows' = [r \in 1..Len(rows) |-> rows'[r]]
      BY <2>1, <2>3
    <3>2. Len(rows) \in Nat
      BY <2>3
    <3> QED
      BY <3>1, <3>2, <2>4
  <2>6. /\ forms' \in Seq(Form(V)) /\ Len(forms') >= Len(forms)
        /\ data' \in [Keys -> (1..Len(forms')) \cup {None}]
    BY <1>1 DEF Dialogue
  <2>7. Fits(V, {})
    BY DEF Suits
  <2> QED
    BY <1>1, <2>1, <2>5, <2>6, <2>7, GoesOnFits
<1> QED
  BY <1>2, <1>3

\* A failure ends the handler, or leaves it its last step.
LEMMA FailKeeps ==
  ASSUME NEW V, NEW D, NEW N, Dialogue(V, D, N), Suits(V, D, N), NEW c \in Slot, Fail(c)
  PROVE  Dialogue(V, D, N)'
<1>1. /\ calls[c].todo # <<>> /\ forms' = forms /\ rows' = rows /\ data' = data
  BY DEF Fail, Running
<1>2. PICK k : k = calls[c]
  OBVIOUS
<1>3. CallFits(k, V, D, N) /\ k.todo # <<>>
  BY <1>1, <1>2 DEF Dialogue
<1>4. PICK last : last = <<k.todo[Len(k.todo)]>>
  OBVIOUS
<1>5. PICK q : q = IF k.form = None /\ (At(c, "readAll") \/ At(c, "commit"))
                   THEN [k EXCEPT !.todo = last] ELSE Idle
  OBVIOUS
<1>6. CallFits(q, V, D, N)
  <2>1. CASE ~(k.form = None /\ (At(c, "readAll") \/ At(c, "commit")))
    BY <1>5, <2>1, IdleFits DEF Suits
  <2>2. CASE k.form = None /\ (At(c, "readAll") \/ At(c, "commit"))
    <3>1. /\ DOMAIN q = {"seen", "todo", "on", "form", "write"}
          /\ q.todo = last /\ q.form = k.form /\ q.write = k.write
      BY <1>3, <1>5, <2>2 DEF CallFits
    <3>2. last \in StepSeq(IF k.form = None THEN D \ N ELSE D)
      <4>1. PICK T, s : T = [do : IF k.form = None THEN D \ N ELSE D, to : Target] /\ s = k.todo
        OBVIOUS
      <4>2. s \in Seq(T) /\ s # <<>>
        BY <4>1, <1>3 DEF CallFits, StepSeq
      <4>3. s[Len(s)] \in T
        BY <4>2
      <4>4. <<s[Len(s)]>> \in Seq(T)
        BY <4>3
      <4> QED
        BY <1>4, <4>1, <4>4 DEF StepSeq
    <3> QED
      BY <1>3, <3>1, <3>2 DEF CallFits
  <2> QED
    BY <2>1, <2>2
<1>7. CallFits(q, V, D, N)'
  BY <1>1, <1>6, SameRest, StaysFit
<1>8. calls' = [calls EXCEPT ![c] = q]
  <2>1. calls' = [calls EXCEPT ![c] =
          IF calls[c].form = None /\ (At(c, "readAll") \/ At(c, "commit"))
          THEN [calls[c] EXCEPT !.todo = <<calls[c].todo[Len(calls[c].todo)]>>] ELSE Idle]
    BY DEF Fail
  <2> QED
    BY <2>1, <1>2, <1>4, <1>5
<1> QED
  BY <1>1, <1>7, <1>8, SameRest, CallMoves

LEMMA TableKeeps ==
  ASSUME NEW V, NEW D, NEW N, Dialogue(V, D, N), Suits(V, D, N), NEW c \in Slot,
         TableStep(c) \/ Receive(c) \/ Message(c) \/ Fail(c)
  PROVE  Dialogue(V, D, N)'
BY ReadKeeps, CommitKeeps, InsertKeeps, DeleteKeeps, ReadAllKeeps, ReceiveKeeps, MessageKeeps,
   FailKeeps DEF TableStep

\* A handler runs to its first await.
Started(c, on, form, steps) ==
  calls' = [calls EXCEPT ![c] = [Idle EXCEPT !.todo = steps, !.on = on, !.form = form]]

LEMMA RunsFits ==
  ASSUME NEW V, NEW D, NEW N, Dialogue(V, D, N), Suits(V, D, N), NEW c \in Slot,
         NEW on, NEW form \in (1..Len(forms')) \cup {None},
         NEW steps \in StepSeq(IF form = None THEN D \ N ELSE D),
         Started(c, on, form, steps),
         forms' \in Seq(Form(V)), Len(forms') >= Len(forms), rows' = rows,
         data' \in [Keys -> (1..Len(forms')) \cup {None}]
  PROVE  Dialogue(V, D, N)'
<1>1. PICK k : k = [Idle EXCEPT !.todo = steps, !.on = on, !.form = form]
  OBVIOUS
<1>2. /\ DOMAIN k = {"seen", "todo", "on", "form", "write"}
      /\ k.todo = steps /\ k.form = form /\ k.write = {}
  BY <1>1 DEF Idle
<1>3. CallFits(k, V, D, N)'
  BY <1>2 DEF CallFits, Suits, StepSeq, Fits, Written
<1>4. rows' \in Seq(V \cup {None})
  BY DEF Dialogue
<1> QED
  BY <1>1, <1>3, <1>4, CallMoves DEF Started

\* It asks or shows something, and may set the data's key.
LEMMA ShowsFits ==
  ASSUME NEW V, NEW D, NEW N, Dialogue(V, D, N), Suits(V, D, N), NEW c \in Slot,
         NEW on, NEW steps \in StepSeq(D \ N), Started(c, on, None, steps),
         forms' = forms, rows' = rows, data' = data \/ \E k : data' = [data EXCEPT ![k] = None]
  PROVE  Dialogue(V, D, N)'
<1>1. /\ forms' \in Seq(Form(V)) /\ Len(forms') >= Len(forms)
      /\ None \in (1..Len(forms')) \cup {None}
      /\ data' \in [Keys -> (1..Len(forms')) \cup {None}]
  BY DEF Dialogue
<1>2. steps \in StepSeq(IF None = None THEN D \ N ELSE D)
  OBVIOUS
<1> QED
  BY <1>1, <1>2, RunsFits

\* It changes the form in the data.
LEMMA ChangesFit ==
  ASSUME NEW V, NEW D, NEW N, Dialogue(V, D, N), Suits(V, D, N), None \notin Nat, NEW c \in Slot,
         NEW on, NEW form \in 1..Len(forms), NEW value \in V,
         NEW steps \in StepSeq(D), Started(c, on, form, steps),
         forms' = [forms EXCEPT ![form].value = value], rows' = rows, data' = data
  PROVE  Dialogue(V, D, N)'
<1>1. forms \in Seq(Form(V)) /\ forms[form] \in Form(V)
  BY DEF Dialogue
<1>2. PICK o : o = [forms[form] EXCEPT !.value = value]
  OBVIOUS
<1>3. o \in Form(V) /\ forms' = [forms EXCEPT ![form] = o]
  BY <1>1, <1>2 DEF Form
<1>4. forms' \in Seq(Form(V)) /\ Len(forms') = Len(forms)
  BY <1>1, <1>3
<1>5. /\ Len(forms') >= Len(forms) /\ form \in (1..Len(forms')) \cup {None}
      /\ data' \in [Keys -> (1..Len(forms')) \cup {None}]
  BY <1>4 DEF Dialogue
<1>6. form # None
  OBVIOUS
<1>7. steps \in StepSeq(IF form = None THEN D \ N ELSE D)
  BY <1>6
<1> QED
  BY <1>4, <1>5, <1>7, RunsFits

\* It adds a form, to work on or to keep in the data.
LEMMA AddsFits ==
  ASSUME NEW V, NEW D, NEW N, Dialogue(V, D, N), Suits(V, D, N), None \notin Nat, NEW c \in Slot,
         NEW on, NEW o \in Form(V), NEW form \in {Len(forms) + 1, None},
         NEW steps \in StepSeq(IF form = None THEN D \ N ELSE D), Started(c, on, form, steps),
         forms' = Append(forms, o), rows' = rows,
         data' = data \/ \E k : data' = [data EXCEPT ![k] = Len(forms) + 1]
  PROVE  Dialogue(V, D, N)'
<1>1. /\ forms' \in Seq(Form(V)) /\ Len(forms') = Len(forms) + 1 /\ Len(forms) \in Nat
  BY DEF Dialogue
<1>2. (1..Len(forms)) \subseteq (1..Len(forms')) /\ Len(forms) + 1 \in 1..Len(forms')
  BY <1>1
<1>3. data' \in [Keys -> (1..Len(forms')) \cup {None}]
  BY <1>2 DEF Dialogue
<1>4. /\ Len(forms') >= Len(forms) /\ form \in (1..Len(forms')) \cup {None}
  BY <1>1, <1>2
<1> QED
  BY <1>1, <1>3, <1>4, RunsFits

-----------------------------------------------------------------------------
(***************************************************************************)
(* The copy trades                                                         *)
(***************************************************************************)
\* Following sales and holding exclude one another.
CopyValue == {v \in CopyTrade!Settings : v.noSell <=> ~v.follow}

CopyNeedy == {"insert", "read", "delete"}
CopyDo == {"tell", "tidy", "readAll", "commit", "newCopytrade", "insert", "loadCopytrade",
           "read", "delete", "deletedCopytrade"}

CopyIInv == Dialogue(CopyValue, CopyDo, CopyNeedy)

CopyField == {"target", "alias", "amount", "follow", "noSell", "priority", "sandwich",
              "autoSlippage", "slippage", "active"}
CopyFlag == {"follow", "noSell", "sandwich", "autoSlippage", "active"}
CopyMeasure == {"amount", "slippage"}

CopyTyped(f, x) ==
  /\ f \in CopyFlag => x \in BOOLEAN
  /\ f \in CopyMeasure => x \in Nat
  /\ f \notin CopyFlag \cup CopyMeasure => x \in CopyTrade!Number

LEMMA CopyValueFields ==
  ASSUME NEW v \in CopyValue
  PROVE  /\ DOMAIN v = CopyField
         /\ \A f \in CopyField : CopyTyped(f, v[f])
         /\ \A f \in CopyFlag : v[f] \in BOOLEAN
         /\ v["noSell"] <=> ~v["follow"]
BY DEF CopyValue, CopyField, CopyFlag, CopyMeasure, CopyTyped, CopyTrade!Settings

LEMMA CopyValueOf ==
  ASSUME NEW v, v = [f \in CopyField |-> v[f]],
         \A f \in CopyField : CopyTyped(f, v[f]),
         v["noSell"] <=> ~v["follow"]
  PROVE  v \in CopyValue
BY DEF CopyValue, CopyField, CopyFlag, CopyMeasure, CopyTyped, CopyTrade!Settings

\* What is stored of a field and what is read of a column have the type of the field.
LEMMA Stored ==
  \A f \in CopyField : \A x :
    CopyTyped(f, x) => CopyTyped(f, Column(f, x)) /\ CopyTyped(f, Field(f, x))
<1> SUFFICES ASSUME NEW f \in CopyField, NEW x, CopyTyped(f, x)
             PROVE  CopyTyped(f, Column(f, x)) /\ CopyTyped(f, Field(f, x))
  OBVIOUS
<1>1. CASE f = "slippage"
  <2>1. x \in Nat
    BY <1>1 DEF CopyTyped, CopyMeasure
  <2>2. Column(f, x) \in Nat
    <3>1. x \in Short => x % 10 = 0 /\ x > 0
      BY BotAssumption
    <3>2. x \in Short => x \div 10 >= 1
      BY <2>1, <3>1
    <3> QED
      BY <1>1, <2>1, <3>2 DEF Column
  <2>3. Field(f, x) \in Nat
    BY <1>1, <2>1 DEF Field
  <2> QED
    BY <1>1, <2>2, <2>3 DEF CopyTyped, CopyFlag, CopyMeasure
<1>2. CASE f = "amount"
  <2>1. x \in Nat
    BY <1>2 DEF CopyTyped, CopyMeasure
  <2> QED
    BY <1>2, <2>1 DEF CopyTyped, CopyFlag, CopyMeasure, Column, Field
<1>3. CASE f \notin {"slippage", "amount"}
  BY <1>3 DEF Column, Field
<1> QED
  BY <1>1, <1>2, <1>3

LEMMA CopyStored ==
  ASSUME NEW v \in CopyValue PROVE AsRow(v) \in CopyValue /\ AsForm(v) \in CopyValue
<1>1. PICK u, w : u = AsRow(v) /\ w = AsForm(v)
  OBVIOUS
<1>2. /\ u = [f \in CopyField |-> u[f]] /\ w = [f \in CopyField |-> w[f]]
      /\ \A f \in CopyField : u[f] = Column(f, v[f]) /\ w[f] = Field(f, v[f])
  BY <1>1, CopyValueFields DEF AsRow, AsForm
<1>3. \A f \in CopyField : CopyTyped(f, u[f]) /\ CopyTyped(f, w[f])
  BY <1>2, CopyValueFields, Stored
<1>4. /\ u["noSell"] = v["noSell"] /\ u["follow"] = v["follow"]
      /\ w["noSell"] = v["noSell"] /\ w["follow"] = v["follow"]
  BY <1>2 DEF CopyField, Column, Field
<1>5. (u["noSell"] <=> ~u["follow"]) /\ (w["noSell"] <=> ~w["follow"])
  BY <1>4, CopyValueFields
<1> QED
  BY <1>1, <1>2, <1>3, <1>5, CopyValueOf

\* What is written to a row: the field has its type, and of the two modes that exclude
\* one another both are written or none.
LEMMA WrittenFits ==
  ASSUME NEW W, NEW r, NEW row \in CopyValue,
         \A w \in W : w[1] = r => CopyTyped(w[2], w[3]),
         (\E w \in W : w[1] = r /\ w[2] = "follow") <=> (\E w \in W : w[1] = r /\ w[2] = "noSell"),
         \A w, x \in W : w[1] = r /\ x[1] = r /\ w[2] = "follow" /\ x[2] = "noSell" => (x[3] <=> ~w[3])
  PROVE  Written(r, row, W) \in CopyValue
<1> DEFINE e(f) == IF \E w \in W : w[1] = r /\ w[2] = f
                   THEN (CHOOSE w \in W : w[1] = r /\ w[2] = f)[3] ELSE row[f]
<1>1. PICK v : v = [f \in CopyField |-> e(f)]
  OBVIOUS
<1>2. Written(r, row, W) = v
  BY <1>1, CopyValueFields DEF Written
<1>3. ASSUME NEW f \in CopyField PROVE CopyTyped(f, v[f])
  <2>1. CASE \E w \in W : w[1] = r /\ w[2] = f
    <3>1. PICK w \in W : w[1] = r /\ w[2] = f /\ v[f] = w[3]
      <4>1. v[f] = (CHOOSE w \in W : w[1] = r /\ w[2] = f)[3]
        BY <1>1, <2>1
      <4> QED
        BY <4>1, <2>1
    <3> QED
      BY <3>1
  <2>2. CASE ~(\E w \in W : w[1] = r /\ w[2] = f)
    BY <1>1, <2>2, CopyValueFields
  <2> QED
    BY <2>1, <2>2
<1>4. v["noSell"] <=> ~v["follow"]
  <2>0. "follow" \in CopyField /\ "noSell" \in CopyField
    BY DEF CopyField
  <2>1. CASE \E w \in W : w[1] = r /\ w[2] = "follow"
    <3>1. PICK y \in W : y[1] = r /\ y[2] = "follow" /\ v["follow"] = y[3]
      <4>1. v["follow"] = (CHOOSE w \in W : w[1] = r /\ w[2] = "follow")[3]
        BY <1>1, <2>0, <2>1
      <4> QED
        BY <4>1, <2>1
    <3>2. PICK x \in W : x[1] = r /\ x[2] = "noSell" /\ v["noSell"] = x[3]
      <4>1. \E w \in W : w[1] = r /\ w[2] = "noSell"
        BY <2>1
      <4>2. v["noSell"] = (CHOOSE w \in W : w[1] = r /\ w[2] = "noSell")[3]
        BY <1>1, <2>0, <4>1
      <4> QED
        BY <4>1, <4>2
    <3> QED
      BY <3>1, <3>2
  <2>2. CASE ~(\E w \in W : w[1] = r /\ w[2] = "follow")
    <3>1. ~(\E w \in W : w[1] = r /\ w[2] = "noSell")
      BY <2>2
    <3>2. v["follow"] = row["follow"] /\ v["noSell"] = row["noSell"]
      BY <1>1, <2>0, <2>2, <3>1
    <3> QED
      BY <3>2, CopyValueFields
  <2> QED
    BY <2>1, <2>2
<1>5. v = [f \in CopyField |-> v[f]]
  BY <1>1
<1> HIDE DEF e
<1>6. v \in CopyValue
  BY <1>3, <1>4, <1>5, CopyValueOf
<1> QED
  BY <1>2, <1>6

LEMMA CopySuits == Suits(CopyValue, CopyDo, CopyNeedy)
<1>1. Fits(CopyValue, {})
  BY WrittenFits DEF Fits
<1>2. ASSUME NEW R \in SUBSET Nat PROVE Fits(CopyValue, {<<r, "active", FALSE>> : r \in R})
  <2>1. PICK W : W = {<<r, "active", FALSE>> : r \in R}
    OBVIOUS
  <2>2. \A w \in W : w[2] = "active" /\ w[3] \in BOOLEAN
    <3> SUFFICES ASSUME NEW w \in W PROVE w[2] = "active" /\ w[3] \in BOOLEAN
      OBVIOUS
    <3>1. PICK r \in R : w = <<r, "active", FALSE>>
      BY <2>1
    <3> QED
      BY <3>1
  <2>3. \A x \in BOOLEAN : CopyTyped("active", x)
    BY DEF CopyTyped, CopyFlag, CopyMeasure
  <2> SUFFICES ASSUME NEW q \in Nat, NEW row \in CopyValue PROVE Written(q, row, W) \in CopyValue
    BY <2>1 DEF Fits
  <2> QED
    BY <2>2, <2>3, WrittenFits
<1>3. ASSUME NEW q \in Nat, NEW v \in CopyValue, NEW u \in CopyValue
      PROVE  Fits(CopyValue, {<<q, f, v[f]>> : f \in {g \in DOMAIN v : v[g] # u[g]}})
  <2>1. PICK W : W = {<<q, f, v[f]>> : f \in {g \in DOMAIN v : v[g] # u[g]}}
    OBVIOUS
  <2>2. \A w \in W : w[1] = q /\ w[2] \in CopyField /\ w[3] = v[w[2]]
    BY <2>1, CopyValueFields
  <2>3. (\E w \in W : w[2] = "follow") <=> v["follow"] # u["follow"]
    <3>1. ASSUME v["follow"] # u["follow"] PROVE \E w \in W : w[2] = "follow"
      <4>1. "follow" \in DOMAIN v
        BY CopyValueFields DEF CopyField
      <4>2. <<q, "follow", v["follow"]>> \in W
        BY <2>1, <3>1, <4>1
      <4> QED
        BY <4>2
    <3>2. ASSUME NEW w \in W, w[2] = "follow" PROVE v["follow"] # u["follow"]
      <4>1. PICK g : g \in DOMAIN v /\ v[g] # u[g] /\ w = <<q, g, v[g]>>
        BY <2>1
      <4> QED
        BY <3>2, <4>1
    <3> QED
      BY <3>1, <3>2
  <2>4. (\E w \in W : w[2] = "noSell") <=> v["noSell"] # u["noSell"]
    <3>1. ASSUME v["noSell"] # u["noSell"] PROVE \E w \in W : w[2] = "noSell"
      <4>1. "noSell" \in DOMAIN v
        BY CopyValueFields DEF CopyField
      <4>2. <<q, "noSell", v["noSell"]>> \in W
        BY <2>1, <3>1, <4>1
      <4> QED
        BY <4>2
    <3>2. ASSUME NEW w \in W, w[2] = "noSell" PROVE v["noSell"] # u["noSell"]
      <4>1. PICK g : g \in DOMAIN v /\ v[g] # u[g] /\ w = <<q, g, v[g]>>
        BY <2>1
      <4> QED
        BY <3>2, <4>1
    <3> QED
      BY <3>1, <3>2
  <2>5. v["follow"] # u["follow"] <=> v["noSell"] # u["noSell"]
    BY CopyValueFields DEF CopyFlag
  <2> SUFFICES ASSUME NEW p \in Nat, NEW row \in CopyValue PROVE Written(p, row, W) \in CopyValue
    BY <2>1 DEF Fits
  <2>6. \A w \in W : w[1] = p => CopyTyped(w[2], w[3])
    BY <2>2, CopyValueFields
  <2>7. (\E w \in W : w[1] = p /\ w[2] = "follow") <=> (\E w \in W : w[1] = p /\ w[2] = "noSell")
    BY <2>2, <2>3, <2>4, <2>5
  <2>8. \A w, x \in W : w[2] = "follow" /\ x[2] = "noSell" => (x[3] <=> ~w[3])
    BY <2>2, CopyValueFields
  <2> QED
    BY <2>6, <2>7, <2>8, WrittenFits
<1> QED
  BY <1>1, <1>2, <1>3, CopyStored DEF Suits, CopyDo, CopyNeedy

\* What a handler that works on the form in the data does, in the end.
Handled(c, key, V, S) ==
  /\ rows' = rows /\ data' = data
  /\ \/ calls' = [calls EXCEPT ![c] = Idle] /\ forms' = forms
     \/ /\ data[key] # None
        /\ \E on, steps :
             /\ steps \in StepSeq(S)
             /\ Started(c, on, data[key], steps)
             /\ \/ forms' = forms
                \/ \E v \in V : forms' = [forms EXCEPT ![data[key]].value = v]

LEMMA HandledFits ==
  ASSUME NEW V, NEW D, NEW N, Dialogue(V, D, N), Suits(V, D, N), None \notin Nat, NEW c \in Slot,
         NEW key \in Keys, Handled(c, key, V, D)
  PROVE  Dialogue(V, D, N)'
<1>1. CASE calls' = [calls EXCEPT ![c] = Idle] /\ forms' = forms
  <2>1. Ends(c)
    BY <1>1 DEF Ends
  <2> QED
    BY <1>1, <2>1, EndsFits DEF Handled, Suits
<1>2. CASE ~(calls' = [calls EXCEPT ![c] = Idle] /\ forms' = forms)
  <2>1. PICK form : form = data[key]
    OBVIOUS
  <2>2. form \in 1..Len(forms) /\ form # None
    BY <1>2, <2>1 DEF Handled, Dialogue
  <2>3. PICK on, steps :
          /\ steps \in StepSeq(D)
          /\ Started(c, on, form, steps)
          /\ \/ forms' = forms
             \/ \E v \in V : forms' = [forms EXCEPT ![form].value = v]
    BY <1>2, <2>1 DEF Handled
  <2>4. rows' = rows /\ data' = data
    BY DEF Handled
  <2>5. CASE forms' = forms
    <3>1. steps \in StepSeq(IF form = None THEN D \ N ELSE D)
      BY <2>2, <2>3
    <3>2. form \in (1..Len(forms')) \cup {None}
      BY <2>2, <2>5
    <3> QED
      BY <2>3, <2>4, <2>5, <3>1, <3>2, SameRest, RunsFits
  <2>6. CASE \E v \in V : forms' = [forms EXCEPT ![form].value = v]
    BY <2>2, <2>3, <2>4, <2>6, ChangesFit
  <2> QED
    BY <2>3, <2>5, <2>6
<1> QED
  BY <1>1, <1>2

LEMMA CopyTargets ==
  /\ None \in Target /\ CopyTrade!Menu \in Target /\ CopyTrade!Creating \in Target
  /\ CopyTrade!Editing \in Target
  /\ \A f \in Word : Append(CopyTrade!Creating, f) \in Target /\ Append(CopyTrade!Editing, f) \in Target
<1>1. CopyTrade!Menu \in Seq(Word) /\ CopyTrade!Creating \in Seq(Word) /\ CopyTrade!Editing \in Seq(Word)
  BY DEF CopyTrade!Menu, CopyTrade!Creating, CopyTrade!Editing, Word
<1> QED
  BY <1>1 DEF Target

LEMMA CopyAwaits ==
  ASSUME NEW S, {"tell", "tidy", "readAll", "commit"} \subseteq S
  PROVE  /\ \A t \in Target : CopyTrade!Tell(t) \in StepSeq(S)
         /\ CopyTrade!TidyQuietly \in StepSeq(S) /\ CopyTrade!Tidy \in StepSeq(S)
         /\ CopyTrade!ShowMenu \in StepSeq(S)
         /\ \A d \in S : CopyTrade!Await(d) \in StepSeq(S)
BY OneStep, CopyTargets DEF CopyTrade!Tell, CopyTrade!TidyQuietly, CopyTrade!Tidy, CopyTrade!ShowMenu, CopyTrade!Await

LEMMA CopySeqs ==
  /\ CopyTrade!TidyQuietly \o CopyTrade!Tell(CopyTrade!Creating) \in StepSeq(CopyDo)
  /\ CopyTrade!Tell(None) \in StepSeq(CopyDo) /\ CopyTrade!Tidy \in StepSeq(CopyDo)
  /\ CopyTrade!SaveLast \in StepSeq(CopyDo) /\ CopyTrade!SaveFirst \in StepSeq(CopyDo)
  /\ CopyTrade!Save \o CopyTrade!Tell(None) \in StepSeq(CopyDo)
  /\ CopyTrade!Await("delete") \o CopyTrade!Await("deletedCopytrade") \in StepSeq(CopyDo)
  /\ CopyTrade!Await("insert") \o CopyTrade!ShowMenu \in StepSeq(CopyDo)
<1>1. {"tell", "tidy", "readAll", "commit"} \subseteq CopyDo /\ "delete" \in CopyDo
      /\ "deletedCopytrade" \in CopyDo /\ "insert" \in CopyDo /\ "read" \in CopyDo
  BY DEF CopyDo
<1>2. CopyTrade!Save \in StepSeq(CopyDo)
  <2>1. None \in Target
    BY CopyTargets
  <2> QED
    BY <1>1, <2>1, TwoSteps DEF CopyTrade!Save
<1> HIDE DEF CopyDo
<1>3. /\ CopyTrade!Tell(CopyTrade!Creating) \in StepSeq(CopyDo) /\ CopyTrade!Tell(CopyTrade!Editing) \in StepSeq(CopyDo)
      /\ CopyTrade!Tell(None) \in StepSeq(CopyDo) /\ CopyTrade!Tidy \in StepSeq(CopyDo)
      /\ CopyTrade!TidyQuietly \in StepSeq(CopyDo) /\ CopyTrade!ShowMenu \in StepSeq(CopyDo)
      /\ CopyTrade!Await("delete") \in StepSeq(CopyDo) /\ CopyTrade!Await("deletedCopytrade") \in StepSeq(CopyDo)
      /\ CopyTrade!Await("insert") \in StepSeq(CopyDo)
  BY <1>1, CopyAwaits, CopyTargets
<1> QED
  BY <1>2, <1>3, MoreSteps DEF CopyTrade!SaveLast, CopyTrade!SaveFirst

LEMMA CopyChanges ==
  ASSUME NEW v \in CopyValue
  PROVE  /\ \A f \in CopyField \ CopyFlag : \A n \in CopyTrade!Typed(f) : [v EXCEPT ![f] = n] \in CopyValue
         /\ CopyTrade!OwnSlippage(v) \in CopyValue
         /\ CopyTrade!Follow(v) \in CopyValue /\ CopyTrade!Hold(v) \in CopyValue
         /\ CopyTrade!FlipSandwich(v) \in CopyValue /\ CopyTrade!FlipSlippage(v) \in CopyValue
         /\ CopyTrade!FlipActive(v) \in CopyValue /\ [v EXCEPT !.active = TRUE] \in CopyValue
<1> USE DEF CopyValue, CopyTrade!Settings
<1>1. ASSUME NEW f \in CopyField \ CopyFlag, NEW n \in CopyTrade!Typed(f)
      PROVE  [v EXCEPT ![f] = n] \in CopyValue
  BY DEF CopyField, CopyFlag, CopyTrade!Typed, CopyTrade!Number, CopyTrade!Numbers
<1>2. CopyTrade!OwnSlippage(v) \in CopyValue
  BY DEF CopyTrade!OwnSlippage
<1>3. CopyTrade!Follow(v) \in CopyValue /\ CopyTrade!Hold(v) \in CopyValue
  BY DEF CopyTrade!Follow, CopyTrade!Hold
<1>4. CopyTrade!FlipSandwich(v) \in CopyValue /\ CopyTrade!FlipSlippage(v) \in CopyValue
  BY DEF CopyTrade!FlipSandwich, CopyTrade!FlipSlippage
<1>5. CopyTrade!FlipActive(v) \in CopyValue /\ [v EXCEPT !.active = TRUE] \in CopyValue
  BY DEF CopyTrade!FlipActive
<1> QED
  BY <1>1, <1>2, <1>3, <1>4, <1>5

LEMMA CopyNewForm == CopyTrade!NewForm \in CopyValue /\ CopyTrade!StoredRow \in CopyValue
<1>1. CopyTrade!NewForm \in CopyValue
  BY DEF CopyTrade!NewForm, CopyValue, CopyTrade!Settings, CopyTrade!Number, CopyTrade!Numbers
<1>2. PICK v : v = CopyTrade!NewForm
  OBVIOUS
<1>3. v \in CopyValue
  BY <1>1, <1>2
<1>4. ASSUME NEW u \in CopyValue, NEW f \in {"target", "amount"} PROVE [u EXCEPT ![f] = 1] \in CopyValue
  <2>1. \A n \in CopyTrade!Typed(f) : [u EXCEPT ![f] = n] \in CopyValue
    BY <1>4, CopyChanges DEF CopyField, CopyFlag
  <2>2. 1 \in CopyTrade!Typed(f)
    BY DEF CopyTrade!Typed, CopyTrade!Numbers
  <2> QED
    BY <2>1, <2>2
<1>5. PICK a : a = [v EXCEPT !.target = 1]
  OBVIOUS
<1>6. PICK b : b = [a EXCEPT !.amount = 1]
  OBVIOUS
<1>7. b \in CopyValue
  BY <1>3, <1>4, <1>5, <1>6
<1>8. [b EXCEPT !.slippage = 229] \in CopyValue
  BY <1>7 DEF CopyValue, CopyTrade!Settings
<1>9. CopyTrade!StoredRow = [b EXCEPT !.slippage = 229]
  BY <1>2, <1>5, <1>6 DEF CopyTrade!StoredRow
<1> QED
  BY <1>1, <1>8, <1>9

LEMMA CopyFormValue ==
  ASSUME CopyIInv, NEW key \in Keys, data[key] # None
  PROVE  forms[data[key]].value \in CopyValue
<1>1. forms \in Seq(Form(CopyValue)) /\ data[key] \in 1..Len(forms)
  BY DEF CopyIInv, Dialogue
<1>2. forms[data[key]] \in Form(CopyValue)
  BY <1>1
<1> QED
  BY <1>2 DEF Form

LEMMA CopyIdle == CopyTrade!Idle = Idle
BY DEF CopyTrade!Idle, Idle

LEMMA CreateAnswers ==
  ASSUME CopyIInv, NEW c \in Slot,
         \/ CopyTrade!create_set_address(c) \/ CopyTrade!create_set_alias(c)
         \/ CopyTrade!create_set_amount(c) \/ CopyTrade!create_set_priority(c)
         \/ CopyTrade!create_set_slippage(c)
  PROVE  Handled(c, "copytrade_settings", CopyValue, CopyDo)
<1> DEFINE key == "copytrade_settings"
           steps == CopyTrade!TidyQuietly \o CopyTrade!Tell(CopyTrade!Creating)
<1>1. key \in Keys /\ steps \in StepSeq(CopyDo)
  BY CopySeqs DEF Keys
<1> HIDE DEF steps
<1> USE DEF CopyTrade!CreateAnswer, CopyTrade!Answer, CopyTrade!Unchanged, CopyTrade!RunsIn,
            CopyTrade!Ends, CopyTrade!Key, Handled, Started, steps,
            CopyField, CopyFlag
<1> USE CopyIdle
<1>2. CASE CopyTrade!create_set_address(c)
  BY <1>1, <1>2, CopyFormValue, CopyChanges DEF CopyTrade!create_set_address
<1>3. CASE CopyTrade!create_set_alias(c)
  BY <1>1, <1>3, CopyFormValue, CopyChanges DEF CopyTrade!create_set_alias
<1>4. CASE CopyTrade!create_set_amount(c)
  BY <1>1, <1>4, CopyFormValue, CopyChanges DEF CopyTrade!create_set_amount
<1>5. CASE CopyTrade!create_set_priority(c)
  BY <1>1, <1>5, CopyFormValue, CopyChanges DEF CopyTrade!create_set_priority
<1>6. CASE CopyTrade!create_set_slippage(c)
  BY <1>1, <1>6, CopyFormValue, CopyChanges
  DEF CopyTrade!create_set_slippage, CopyTrade!OwnSlippage
<1> QED
  BY <1>2, <1>3, <1>4, <1>5, <1>6

LEMMA CopyPresses ==
  ASSUME CopyIInv, NEW c \in Slot,
         \/ CopyTrade!create_toggle_auto_follow(c) \/ CopyTrade!create_toggle_no_sell(c)
         \/ CopyTrade!create_toggle_anti_sandwich(c) \/ CopyTrade!create_toggle_auto_slippage(c)
  PROVE  Handled(c, "copytrade_settings", CopyValue, CopyDo)
<1>1. "copytrade_settings" \in Keys /\ CopyTrade!Tell(None) \in StepSeq(CopyDo)
  BY CopySeqs DEF Keys
<1> USE DEF CopyTrade!CreatePress, CopyTrade!Press, CopyTrade!RunsIn,
            CopyTrade!Ends, CopyTrade!Key, Handled, Started
<1> USE CopyIdle
<1>2. CASE CopyTrade!create_toggle_auto_follow(c)
  BY <1>1, <1>2, CopyFormValue, CopyChanges DEF CopyTrade!create_toggle_auto_follow
<1>3. CASE CopyTrade!create_toggle_no_sell(c)
  BY <1>1, <1>3, CopyFormValue, CopyChanges DEF CopyTrade!create_toggle_no_sell
<1>4. CASE CopyTrade!create_toggle_anti_sandwich(c)
  BY <1>1, <1>4, CopyFormValue, CopyChanges DEF CopyTrade!create_toggle_anti_sandwich
<1>5. CASE CopyTrade!create_toggle_auto_slippage(c)
  BY <1>1, <1>5, CopyFormValue, CopyChanges DEF CopyTrade!create_toggle_auto_slippage
<1> QED
  BY <1>2, <1>3, <1>4, <1>5

LEMMA EditAnswers ==
  ASSUME CopyIInv, NEW c \in Slot,
         \/ CopyTrade!edit_set_alias(c) \/ CopyTrade!edit_set_amount(c)
         \/ CopyTrade!edit_set_priority(c) \/ CopyTrade!edit_set_slippage(c)
  PROVE  Handled(c, "copytrade_settings", CopyValue, CopyDo)
<1>1. /\ "copytrade_settings" \in Keys /\ CopyTrade!SaveLast \in StepSeq(CopyDo)
      /\ CopyTrade!SaveFirst \in StepSeq(CopyDo) /\ CopyTrade!Tidy \in StepSeq(CopyDo)
  BY CopySeqs DEF Keys
<1> USE DEF CopyTrade!EditAnswer, CopyTrade!Answer, CopyTrade!Unchanged, CopyTrade!RunsIn,
            CopyTrade!Ends, CopyTrade!Key, Handled, Started,
            CopyField, CopyFlag
<1> USE CopyIdle
<1>2. CASE CopyTrade!edit_set_alias(c)
  BY <1>1, <1>2, CopyFormValue, CopyChanges DEF CopyTrade!edit_set_alias
<1>3. CASE CopyTrade!edit_set_amount(c)
  BY <1>1, <1>3, CopyFormValue, CopyChanges DEF CopyTrade!edit_set_amount
<1>4. CASE CopyTrade!edit_set_priority(c)
  BY <1>1, <1>4, CopyFormValue, CopyChanges DEF CopyTrade!edit_set_priority
<1>5. CASE CopyTrade!edit_set_slippage(c)
  BY <1>1, <1>5, CopyFormValue, CopyChanges
  DEF CopyTrade!edit_set_slippage, CopyTrade!OwnSlippage
<1> QED
  BY <1>2, <1>3, <1>4, <1>5

LEMMA EditPresses ==
  ASSUME CopyIInv, NEW c \in Slot,
         \/ CopyTrade!edit_toggle_auto_follow(c) \/ CopyTrade!edit_toggle_no_sell(c)
         \/ CopyTrade!edit_toggle_anti_sandwich(c) \/ CopyTrade!edit_toggle_auto_slippage(c)
         \/ CopyTrade!toggle_copytrade(c) \/ CopyTrade!confirm_delete_copytrade(c)
  PROVE  Handled(c, "copytrade_settings", CopyValue, CopyDo)
<1>1. /\ "copytrade_settings" \in Keys
      /\ CopyTrade!Save \o CopyTrade!Tell(None) \in StepSeq(CopyDo)
      /\ CopyTrade!Await("delete") \o CopyTrade!Await("deletedCopytrade") \in StepSeq(CopyDo)
  BY CopySeqs DEF Keys
<1> USE DEF CopyTrade!EditPress, CopyTrade!Press, CopyTrade!RunsIn,
            CopyTrade!Ends, CopyTrade!Key, Handled, Started
<1> USE CopyIdle
<1>2. CASE CopyTrade!edit_toggle_auto_follow(c)
  BY <1>1, <1>2, CopyFormValue, CopyChanges DEF CopyTrade!edit_toggle_auto_follow
<1>3. CASE CopyTrade!edit_toggle_no_sell(c)
  BY <1>1, <1>3, CopyFormValue, CopyChanges DEF CopyTrade!edit_toggle_no_sell
<1>4. CASE CopyTrade!edit_toggle_anti_sandwich(c)
  BY <1>1, <1>4, CopyFormValue, CopyChanges DEF CopyTrade!edit_toggle_anti_sandwich
<1>5. CASE CopyTrade!edit_toggle_auto_slippage(c)
  BY <1>1, <1>5, CopyFormValue, CopyChanges DEF CopyTrade!edit_toggle_auto_slippage
<1>6. CASE CopyTrade!toggle_copytrade(c)
  BY <1>1, <1>6, CopyFormValue, CopyChanges DEF CopyTrade!toggle_copytrade
<1>7. CASE CopyTrade!confirm_delete_copytrade(c)
  BY <1>1, <1>7, CopyFormValue, CopyChanges DEF CopyTrade!confirm_delete_copytrade, CopyTrade!Unchanged
<1> QED
  BY <1>2, <1>3, <1>4, <1>5, <1>6, <1>7

\* The handlers that show a menu or a prompt, or only ask the database.
LEMMA CopyShows ==
  ASSUME CopyIInv, None \notin Nat, NEW c \in Slot,
         \/ CopyTrade!start_copytrade(c) \/ CopyTrade!stop_all_copytrade(c)
         \/ CopyTrade!start_create_copytrade(c) \/ CopyTrade!cancel_copytrade(c)
         \/ CopyTrade!handle_copytrade_selection(c) \/ CopyTrade!delete_copytrade(c)
         \/ CopyTrade!back_to_copytrade(c)
         \/ CopyTrade!create_start_set_address(c) \/ CopyTrade!create_start_set_alias(c)
         \/ CopyTrade!create_start_set_amount(c) \/ CopyTrade!create_start_set_priority(c)
         \/ CopyTrade!create_start_set_slippage(c)
         \/ CopyTrade!edit_start_set_alias(c) \/ CopyTrade!edit_start_set_amount(c)
         \/ CopyTrade!edit_start_set_priority(c) \/ CopyTrade!edit_start_set_slippage(c)
  PROVE  CopyIInv'
<1> DEFINE S == StepSeq(CopyDo \ CopyNeedy)
<1>1. {"tell", "tidy", "readAll", "commit"} \subseteq CopyDo \ CopyNeedy
      /\ "newCopytrade" \in CopyDo \ CopyNeedy /\ "loadCopytrade" \in CopyDo \ CopyNeedy
  BY DEF CopyDo, CopyNeedy
<1>2. /\ \A t \in Target : CopyTrade!Tell(t) \in S
      /\ CopyTrade!ShowMenu \in S /\ CopyTrade!Await("readAll") \in S /\ CopyTrade!Await("commit") \in S
      /\ CopyTrade!Await("newCopytrade") \in S /\ CopyTrade!Await("loadCopytrade") \in S
  BY <1>1, CopyAwaits
<1>3. /\ \A f \in Word : /\ CopyTrade!Tell(Append(CopyTrade!Creating, f)) \in S
                         /\ CopyTrade!Tell(Append(CopyTrade!Editing, f)) \in S
      /\ CopyTrade!Tell(None) \in S /\ CopyTrade!Tell(CopyTrade!Creating) \in S
      /\ CopyTrade!Tell(CopyTrade!Editing) \in S
  BY <1>2, CopyTargets
<1>4. /\ CopyTrade!Await("readAll") \o CopyTrade!Await("commit") \o CopyTrade!ShowMenu \in S
      /\ CopyTrade!Await("newCopytrade") \o CopyTrade!Tell(CopyTrade!Creating) \in S
      /\ CopyTrade!Await("loadCopytrade") \o CopyTrade!Tell(CopyTrade!Editing) \in S
  <2>1. CopyTrade!Await("readAll") \o CopyTrade!Await("commit") \in S
    BY <1>2, MoreSteps
  <2> QED
    BY <2>1, <1>2, <1>3, MoreSteps
<1>5. \A f \in {"target", "alias", "amount", "priority", "slippage"} : f \in Word
  BY DEF Word
<1>6. /\ rows' = rows /\ forms' = forms /\ (data' = data \/ \E k : data' = [data EXCEPT ![k] = None])
      /\ \E on, steps : steps \in S /\ Started(c, on, None, steps)
  <2> USE DEF Started
  <2> USE CopyIdle
  <2> HIDE DEF S
  <2>1. CASE CopyTrade!start_copytrade(c)
    BY <2>1, <1>2 DEF CopyTrade!start_copytrade, CopyTrade!Runs
  <2>2. CASE CopyTrade!stop_all_copytrade(c)
    BY <2>2, <1>4 DEF CopyTrade!stop_all_copytrade, CopyTrade!Runs
  <2>3. CASE CopyTrade!start_create_copytrade(c)
    BY <2>3, <1>4 DEF CopyTrade!start_create_copytrade, CopyTrade!Runs
  <2>4. CASE CopyTrade!cancel_copytrade(c)
    BY <2>4, <1>2 DEF CopyTrade!cancel_copytrade, CopyTrade!Runs
  <2>5. CASE CopyTrade!handle_copytrade_selection(c)
    BY <2>5, <1>4 DEF CopyTrade!handle_copytrade_selection, CopyTrade!Runs
  <2>6. CASE CopyTrade!delete_copytrade(c)
    BY <2>6, <1>3 DEF CopyTrade!delete_copytrade, CopyTrade!Runs
  <2>7. CASE CopyTrade!back_to_copytrade(c)
    BY <2>7, <1>2 DEF CopyTrade!back_to_copytrade, CopyTrade!Runs
  <2>8. CASE \/ CopyTrade!create_start_set_address(c) \/ CopyTrade!create_start_set_alias(c)
             \/ CopyTrade!create_start_set_amount(c) \/ CopyTrade!create_start_set_priority(c)
             \/ CopyTrade!create_start_set_slippage(c)
             \/ CopyTrade!edit_start_set_alias(c) \/ CopyTrade!edit_start_set_amount(c)
             \/ CopyTrade!edit_start_set_priority(c) \/ CopyTrade!edit_start_set_slippage(c)
    <3>1. PICK f \in {"target", "alias", "amount", "priority", "slippage"} :
            CopyTrade!Ask(c, CopyTrade!Creating, f) \/ CopyTrade!Ask(c, CopyTrade!Editing, f)
      BY <2>8 DEF CopyTrade!create_start_set_address, CopyTrade!create_start_set_alias,
                  CopyTrade!create_start_set_amount, CopyTrade!create_start_set_priority,
                  CopyTrade!create_start_set_slippage, CopyTrade!edit_start_set_alias,
                  CopyTrade!edit_start_set_amount, CopyTrade!edit_start_set_priority,
                  CopyTrade!edit_start_set_slippage
    <3>2. CopyTrade!Tell(Append(CopyTrade!Creating, f)) \in S /\ CopyTrade!Tell(Append(CopyTrade!Editing, f)) \in S
      BY <1>3, <1>5
    <3> QED
      BY <3>1, <3>2 DEF CopyTrade!Ask, CopyTrade!RunsIn
  <2> QED
    BY <2>1, <2>2, <2>3, <2>4, <2>5, <2>6, <2>7, <2>8
<1>7. PICK on, steps : steps \in S /\ Started(c, on, None, steps)
  BY <1>6
<1> QED
  BY <1>6, <1>7, CopySuits, ShowsFits DEF CopyIInv

LEMMA SubmitKeeps ==
  ASSUME CopyIInv, None \notin Nat, NEW c \in Slot, CopyTrade!submit_copytrade(c) PROVE CopyIInv'
<1>1. rows' = rows /\ data' = data /\ "copytrade_settings" \in Keys
  BY DEF CopyTrade!submit_copytrade, Keys
<1>2. CASE Ends(c) /\ forms' = forms
  BY <1>1, <1>2, CopySuits, EndsFits DEF CopyIInv, Suits
<1>3. CASE ~(Ends(c) /\ forms' = forms)
  <2> DEFINE o == forms[data["copytrade_settings"]]
  <2>1. /\ data["copytrade_settings"] # None
        /\ forms' = Append(forms, [o EXCEPT !.value.active = TRUE])
        /\ Started(c, "", Len(forms) + 1, CopyTrade!Await("insert") \o CopyTrade!ShowMenu)
    BY <1>3, CopyIdle DEF CopyTrade!submit_copytrade, CopyTrade!Key, CopyTrade!Ends, Ends,
                          CopyTrade!Runs, Started
  <2>2. o \in Form(CopyValue)
    <3>1. forms \in Seq(Form(CopyValue)) /\ data["copytrade_settings"] \in 1..Len(forms)
      BY <1>1, <2>1 DEF CopyIInv, Dialogue
    <3> QED
      BY <3>1
  <2>3. [o.value EXCEPT !.active = TRUE] \in CopyValue
    BY <2>2, CopyChanges DEF Form
  <2>4. PICK p, v : p = [o EXCEPT !.value.active = TRUE] /\ v = [o.value EXCEPT !.active = TRUE]
    OBVIOUS
  <2>5. p = [o EXCEPT !.value = v]
    BY <2>2, <2>4 DEF Form
  <2>6. p \in Form(CopyValue)
    BY <2>2, <2>3, <2>4, <2>5 DEF Form
  <2>7. CopyTrade!Await("insert") \o CopyTrade!ShowMenu \in StepSeq(CopyDo)
    BY CopySeqs
  <2>8. Len(forms) + 1 # None
    BY DEF CopyIInv, Dialogue
  <2>9. CopyTrade!Await("insert") \o CopyTrade!ShowMenu
          \in StepSeq(IF Len(forms) + 1 = None THEN CopyDo \ CopyNeedy ELSE CopyDo)
    BY <2>7, <2>8
  <2>10. forms' = Append(forms, p)
    BY <2>1, <2>4
  <2> HIDE DEF o
  <2> QED
    BY <1>1, <2>1, <2>6, <2>9, <2>10, CopySuits, AddsFits DEF CopyIInv
<1> QED
  BY <1>2, <1>3

\* A form comes up under a key: a new one, or that of a row.
LEMMA AppendFits ==
  ASSUME NEW V, NEW D, NEW N, Dialogue(V, D, N), Suits(V, D, N), NEW c \in Slot,
         Running(c), Goes(c), NEW o \in Form(V), forms' = Append(forms, o), rows' = rows,
         NEW key, data' = [data EXCEPT ![key] = Len(forms) + 1]
  PROVE  Dialogue(V, D, N)'
<1>1. /\ forms' \in Seq(Form(V)) /\ Len(forms') = Len(forms) + 1 /\ Len(forms) \in Nat
      /\ rows' \in Seq(V \cup {None})
  BY DEF Dialogue
<1>2. (1..Len(forms)) \subseteq (1..Len(forms')) /\ Len(forms) + 1 \in 1..Len(forms')
  BY <1>1
<1>3. data' \in [Keys -> (1..Len(forms')) \cup {None}]
  BY <1>2 DEF Dialogue
<1> QED
  BY <1>1, <1>3, GoesOnFits DEF Suits

LEMMA ForgetsFit ==
  ASSUME NEW V, NEW D, NEW N, Dialogue(V, D, N), Suits(V, D, N), NEW c \in Slot,
         Running(c), Goes(c), forms' = forms, rows' = rows,
         NEW key, data' = [data EXCEPT ![key] = None]
  PROVE  Dialogue(V, D, N)'
<1>1. PICK K : K = (1..Len(forms)) \cup {None}
  OBVIOUS
<1>2. data \in [Keys -> K] /\ None \in K
  BY <1>1 DEF Dialogue
<1>3. data' \in [Keys -> K]
  BY <1>2
<1>4. forms' \in Seq(Form(V)) /\ Len(forms') >= Len(forms) /\ rows' \in Seq(V \cup {None})
  BY DEF Dialogue
<1> QED
  BY <1>1, <1>3, <1>4, GoesOnFits DEF Suits

LEMMA CopyLoads ==
  ASSUME CopyIInv, NEW c \in Slot,
         CopyTrade!NewCopytrade(c) \/ CopyTrade!LoadCopytrade(c) \/ CopyTrade!ForgetCopytrade(c)
  PROVE  CopyIInv'
<1> USE DEF CopyTrade!At, CopyTrade!Running, Running, CopyTrade!Goes, Goes, CopyTrade!Key
<1> USE CopyIdle
<1>1. CASE CopyTrade!NewCopytrade(c)
  <2>1. Running(c) /\ Goes(c) /\ rows' = rows
        /\ forms' = Append(forms, [row |-> None, value |-> CopyTrade!NewForm])
        /\ data' = [data EXCEPT !["copytrade_settings"] = Len(forms) + 1]
    BY <1>1 DEF CopyTrade!NewCopytrade
  <2>2. [row |-> None, value |-> CopyTrade!NewForm] \in Form(CopyValue)
    BY CopyNewForm DEF Form
  <2> QED
    BY <2>1, <2>2, CopySuits, AppendFits DEF CopyIInv
<1>2. CASE CopyTrade!LoadCopytrade(c)
  <2>1. PICK r \in DOMAIN rows :
          CopyTrade!Load(c, r, "loadCopytrade", "copytrade_settings", CopyTrade!AsForm(rows[r]))
    BY <1>2 DEF CopyTrade!LoadCopytrade
  <2>2. CASE ~Exists(r)
    <3>1. Ends(c) /\ forms' = forms /\ rows' = rows /\ data' = data
      BY <2>1, <2>2 DEF CopyTrade!Load, CopyTrade!Exists, Exists, CopyTrade!Ends, Ends
    <3> QED
      BY <3>1, CopySuits, EndsFits DEF CopyIInv, Suits
  <2>3. CASE Exists(r)
    <3>1. Running(c) /\ Goes(c) /\ rows' = rows
          /\ forms' = Append(forms, [row |-> r, value |-> CopyTrade!AsForm(rows[r])])
          /\ data' = [data EXCEPT !["copytrade_settings"] = Len(forms) + 1]
      BY <2>1, <2>3 DEF CopyTrade!Load, CopyTrade!Exists, Exists
    <3>2. r \in Nat /\ rows[r] \in CopyValue
      BY <2>3 DEF Exists, CopyIInv, Dialogue
    <3>3. CopyTrade!AsForm(rows[r]) = AsForm(rows[r])
      BY DEF CopyTrade!AsForm, AsForm, CopyTrade!Field, Field
    <3>4. [row |-> r, value |-> CopyTrade!AsForm(rows[r])] \in Form(CopyValue)
      BY <3>2, <3>3, CopyStored DEF Form
    <3> QED
      BY <3>1, <3>4, CopySuits, AppendFits DEF CopyIInv
  <2> QED
    BY <2>2, <2>3
<1>3. CASE CopyTrade!ForgetCopytrade(c)
  <2>1. Running(c) /\ Goes(c) /\ rows' = rows /\ forms' = forms
        /\ data' = [data EXCEPT !["copytrade_settings"] = None]
    BY <1>3 DEF CopyTrade!ForgetCopytrade, CopyTrade!Forget
  <2> QED
    BY <2>1, CopySuits, ForgetsFit DEF CopyIInv
<1> QED
  BY <1>1, <1>2, <1>3

LEMMA CopyKeeps ==
  ASSUME CopyIInv, None \notin Nat, NEW c \in Slot, CopyTrade!CopyTradeStep(c) PROVE CopyIInv'
<1>1. "copytrade_settings" \in Keys
  BY DEF Keys
<1>2. Handled(c, "copytrade_settings", CopyValue, CopyDo) => CopyIInv'
  BY <1>1, CopySuits, HandledFits DEF CopyIInv
<1> QED
  BY <1>2, CreateAnswers, CopyPresses, EditAnswers, EditPresses, CopyShows, SubmitKeeps, CopyLoads
  DEF CopyTrade!CopyTradeStep, CopyTrade!MenuHandlers, CopyTrade!CreateHandlers, CopyTrade!EditHandlers,
      CopyTrade!refresh_copytrade, CopyTrade!cancel_delete_copytrade

-----------------------------------------------------------------------------
(***************************************************************************)
(* The monitors                                                            *)
(***************************************************************************)
Alias == {None, 1, 2}
MonitorValue == [target : Alias, alias : Alias, active : BOOLEAN]

MonitorNeedy == {"insert", "read", "delete"}
MonitorDo == {"tell", "tidy", "readAll", "commit", "insert", "loadMonitor", "read", "delete",
              "deletedMonitor"}

MonitorIInv == Dialogue(MonitorValue, MonitorDo, MonitorNeedy)

LEMMA MonitorValueFields ==
  ASSUME NEW v \in MonitorValue
  PROVE  /\ DOMAIN v = {"target", "alias", "active"} /\ v["active"] \in BOOLEAN
         /\ v["target"] \in Alias /\ v["alias"] \in Alias
BY DEF MonitorValue

LEMMA MonitorValueOf ==
  ASSUME NEW v, v = [f \in {"target", "alias", "active"} |-> v[f]], v["active"] \in BOOLEAN,
         v["target"] \in Alias, v["alias"] \in Alias
  PROVE  v \in MonitorValue
BY DEF MonitorValue

LEMMA MonitorWrittenFits ==
  ASSUME NEW W, NEW r, NEW row \in MonitorValue,
         \A w \in W : (w[2] = "active" => w[3] \in BOOLEAN)
                      /\ (w[2] \in {"target", "alias"} => w[3] \in Alias)
  PROVE  Written(r, row, W) \in MonitorValue
<1> DEFINE e(f) == IF \E w \in W : w[1] = r /\ w[2] = f
                   THEN (CHOOSE w \in W : w[1] = r /\ w[2] = f)[3] ELSE row[f]
<1>1. PICK v : v = [f \in {"target", "alias", "active"} |-> e(f)]
  OBVIOUS
<1>2. Written(r, row, W) = v
  BY <1>1, MonitorValueFields DEF Written
<1>3. ASSUME NEW f \in {"target", "alias", "active"}
      PROVE  /\ f = "active" => v[f] \in BOOLEAN
             /\ f # "active" => v[f] \in Alias
  <2>1. CASE \E w \in W : w[1] = r /\ w[2] = f
    <3>1. PICK w \in W : w[1] = r /\ w[2] = f /\ v[f] = w[3]
      <4>1. v[f] = (CHOOSE w \in W : w[1] = r /\ w[2] = f)[3]
        BY <1>1, <2>1
      <4> QED
        BY <4>1, <2>1
    <3> QED
      BY <3>1
  <2>2. CASE ~(\E w \in W : w[1] = r /\ w[2] = f)
    BY <1>1, <2>2, MonitorValueFields
  <2> QED
    BY <2>1, <2>2
<1>4. v = [f \in {"target", "alias", "active"} |-> v[f]]
  BY <1>1
<1> HIDE DEF e
<1>5. v["active"] \in BOOLEAN /\ v["target"] \in Alias /\ v["alias"] \in Alias
  BY <1>3
<1>6. v \in MonitorValue
  BY <1>4, <1>5, MonitorValueOf
<1> QED
  BY <1>2, <1>6

LEMMA MonitorSuits == Suits(MonitorValue, MonitorDo, MonitorNeedy)
<1>1. Fits(MonitorValue, {})
  BY MonitorWrittenFits DEF Fits
<1>2. ASSUME NEW R \in SUBSET Nat PROVE Fits(MonitorValue, {<<r, "active", FALSE>> : r \in R})
  <2>1. PICK W : W = {<<r, "active", FALSE>> : r \in R}
    OBVIOUS
  <2>2. \A w \in W : w[2] = "active" /\ w[3] \in BOOLEAN
    <3> SUFFICES ASSUME NEW w \in W PROVE w[2] = "active" /\ w[3] \in BOOLEAN
      OBVIOUS
    <3>1. PICK r \in R : w = <<r, "active", FALSE>>
      BY <2>1
    <3> QED
      BY <3>1
  <2> QED
    BY <2>1, <2>2, MonitorWrittenFits DEF Fits
<1>3. ASSUME NEW q \in Nat, NEW v \in MonitorValue, NEW u \in MonitorValue
      PROVE  Fits(MonitorValue, {<<q, f, v[f]>> : f \in {g \in DOMAIN v : v[g] # u[g]}})
  <2>1. PICK W : W = {<<q, f, v[f]>> : f \in {g \in DOMAIN v : v[g] # u[g]}}
    OBVIOUS
  <2>2. \A w \in W : w[3] = v[w[2]]
    BY <2>1
  <2>3. \A w \in W : (w[2] = "active" => w[3] \in BOOLEAN)
                     /\ (w[2] \in {"target", "alias"} => w[3] \in Alias)
    BY <2>2, MonitorValueFields
  <2> QED
    BY <2>1, <2>3, MonitorWrittenFits DEF Fits
<1>4. ASSUME NEW v \in MonitorValue PROVE AsRow(v) \in MonitorValue
  BY MonitorValueFields, MonitorValueOf DEF AsRow, Column
<1> QED
  BY <1>1, <1>2, <1>3, <1>4 DEF Suits, MonitorDo, MonitorNeedy

LEMMA MonitorTargets ==
  /\ None \in Target /\ Monitor!Menu \in Target /\ Monitor!Creating \in Target
  /\ Monitor!Editing \in Target
  /\ \A f \in Word : Append(Monitor!Creating, f) \in Target /\ Append(Monitor!Editing, f) \in Target
<1>1. Monitor!Menu \in Seq(Word) /\ Monitor!Creating \in Seq(Word) /\ Monitor!Editing \in Seq(Word)
  BY DEF Monitor!Menu, Monitor!Creating, Monitor!Editing, Word
<1> QED
  BY <1>1 DEF Target

LEMMA MonitorAwaits ==
  ASSUME NEW S, {"tell", "tidy", "readAll", "commit"} \subseteq S
  PROVE  /\ \A t \in Target : Monitor!Tell(t) \in StepSeq(S)
         /\ Monitor!TidyQuietly \in StepSeq(S) /\ Monitor!ShowMenu \in StepSeq(S)
         /\ \A d \in S : Monitor!Await(d) \in StepSeq(S)
BY OneStep, MonitorTargets DEF Monitor!Tell, Monitor!TidyQuietly, Monitor!ShowMenu, Monitor!Await

LEMMA MonitorSeqs ==
  /\ Monitor!TidyQuietly \o Monitor!Tell(Monitor!Creating) \in StepSeq(MonitorDo)
  /\ Monitor!TidyQuietly \o Monitor!Save \o Monitor!Tell(Monitor!Editing) \in StepSeq(MonitorDo)
  /\ Monitor!Save \o Monitor!Tell(None) \in StepSeq(MonitorDo)
  /\ Monitor!Await("delete") \o Monitor!Await("deletedMonitor") \in StepSeq(MonitorDo)
  /\ Monitor!Await("insert") \o Monitor!Tell(Monitor!Menu) \o Monitor!Tell(None) \in StepSeq(MonitorDo)
<1>1. {"tell", "tidy", "readAll", "commit"} \subseteq MonitorDo /\ "delete" \in MonitorDo
      /\ "deletedMonitor" \in MonitorDo /\ "insert" \in MonitorDo /\ "read" \in MonitorDo
  BY DEF MonitorDo
<1>2. Monitor!Save \in StepSeq(MonitorDo)
  BY <1>1, TwoSteps, MonitorTargets DEF Monitor!Save
<1> HIDE DEF MonitorDo
<1>3. /\ Monitor!Tell(Monitor!Creating) \in StepSeq(MonitorDo) /\ Monitor!Tell(Monitor!Editing) \in StepSeq(MonitorDo)
      /\ Monitor!Tell(None) \in StepSeq(MonitorDo) /\ Monitor!Tell(Monitor!Menu) \in StepSeq(MonitorDo)
      /\ Monitor!TidyQuietly \in StepSeq(MonitorDo)
      /\ Monitor!Await("delete") \in StepSeq(MonitorDo) /\ Monitor!Await("deletedMonitor") \in StepSeq(MonitorDo)
      /\ Monitor!Await("insert") \in StepSeq(MonitorDo)
  BY <1>1, MonitorAwaits, MonitorTargets
<1>4. /\ Monitor!TidyQuietly \o Monitor!Save \in StepSeq(MonitorDo)
      /\ Monitor!Await("insert") \o Monitor!Tell(Monitor!Menu) \in StepSeq(MonitorDo)
  BY <1>2, <1>3, MoreSteps
<1> QED
  BY <1>2, <1>3, <1>4, MoreSteps

LEMMA MonitorChanges ==
  ASSUME NEW v \in MonitorValue
  PROVE  /\ \A f \in {"target", "alias"}, n \in {1, 2} : [v EXCEPT ![f] = n] \in MonitorValue
         /\ Monitor!FlipActive(v) \in MonitorValue
BY DEF MonitorValue, Alias, Monitor!FlipActive

LEMMA MonitorNewForm == Monitor!NewForm \in MonitorValue /\ Monitor!StoredRow \in MonitorValue
BY DEF Monitor!NewForm, Monitor!StoredRow, MonitorValue, Alias

LEMMA MonitorFormValue ==
  ASSUME MonitorIInv, NEW key \in Keys, data[key] # None
  PROVE  /\ forms[data[key]].value \in MonitorValue
         /\ forms[data[key]] \in Form(MonitorValue)
<1>1. forms \in Seq(Form(MonitorValue)) /\ data[key] \in 1..Len(forms)
  BY DEF MonitorIInv, Dialogue
<1>2. forms[data[key]] \in Form(MonitorValue)
  BY <1>1
<1> QED
  BY <1>2 DEF Form

LEMMA MonitorIdle == Monitor!Idle = Idle
BY DEF Monitor!Idle, Idle

LEMMA MonitorAnswers ==
  ASSUME MonitorIInv, NEW c \in Slot, Monitor!create_set_address(c) \/ Monitor!create_set_alias(c)
  PROVE  Handled(c, "monitor_settings", MonitorValue, MonitorDo)
<1>1. "monitor_settings" \in Keys
      /\ Monitor!TidyQuietly \o Monitor!Tell(Monitor!Creating) \in StepSeq(MonitorDo)
  BY MonitorSeqs DEF Keys
<1> USE DEF Monitor!CreateAnswer, Monitor!Answer, Monitor!Unchanged, Monitor!RunsIn,
            Monitor!Ends, Monitor!NewKey, Handled, Started, Monitor!Names
<1> USE MonitorIdle
<1>2. CASE Monitor!create_set_address(c)
  BY <1>1, <1>2, MonitorFormValue, MonitorChanges DEF Monitor!create_set_address
<1>3. CASE Monitor!create_set_alias(c)
  BY <1>1, <1>3, MonitorFormValue, MonitorChanges DEF Monitor!create_set_alias
<1> QED
  BY <1>2, <1>3

LEMMA MonitorEdits ==
  ASSUME MonitorIInv, NEW c \in Slot,
         Monitor!edit_set_alias(c) \/ Monitor!toggle_monitor(c) \/ Monitor!confirm_delete_monitor(c)
  PROVE  Handled(c, "monitor", MonitorValue, MonitorDo)
<1>1. /\ "monitor" \in Keys
      /\ Monitor!TidyQuietly \o Monitor!Save \o Monitor!Tell(Monitor!Editing) \in StepSeq(MonitorDo)
      /\ Monitor!Save \o Monitor!Tell(None) \in StepSeq(MonitorDo)
      /\ Monitor!Await("delete") \o Monitor!Await("deletedMonitor") \in StepSeq(MonitorDo)
  BY MonitorSeqs DEF Keys
<1> USE DEF Monitor!Answer, Monitor!Unchanged, Monitor!RunsIn, Monitor!Press,
            Monitor!Ends, Monitor!Key, Handled, Started, Monitor!Names
<1> USE MonitorIdle
<1>2. CASE Monitor!edit_set_alias(c)
  BY <1>1, <1>2, MonitorFormValue, MonitorChanges DEF Monitor!edit_set_alias
<1>3. CASE Monitor!toggle_monitor(c)
  BY <1>1, <1>3, MonitorFormValue, MonitorChanges DEF Monitor!toggle_monitor
<1>4. CASE Monitor!confirm_delete_monitor(c)
  BY <1>1, <1>4, MonitorFormValue, MonitorChanges DEF Monitor!confirm_delete_monitor
<1> QED
  BY <1>2, <1>3, <1>4

LEMMA MonitorShows ==
  ASSUME MonitorIInv, None \notin Nat, NEW c \in Slot,
         \/ Monitor!enter_monitor_menu(c) \/ Monitor!stop_all_monitor(c) \/ Monitor!back_parent(c)
         \/ Monitor!handle_monitor_selection(c) \/ Monitor!delete_monitor(c)
         \/ Monitor!back_to_monitor(c) \/ Monitor!create_start_set_address(c)
         \/ Monitor!create_start_set_alias(c) \/ Monitor!edit_start_set_alias(c)
  PROVE  MonitorIInv'
<1> DEFINE S == StepSeq(MonitorDo \ MonitorNeedy)
<1>1. {"tell", "tidy", "readAll", "commit"} \subseteq MonitorDo \ MonitorNeedy
      /\ "loadMonitor" \in MonitorDo \ MonitorNeedy
  BY DEF MonitorDo, MonitorNeedy
<1>2. /\ \A t \in Target : Monitor!Tell(t) \in S
      /\ Monitor!ShowMenu \in S /\ Monitor!Await("readAll") \in S /\ Monitor!Await("commit") \in S
      /\ Monitor!Await("loadMonitor") \in S
  BY <1>1, MonitorAwaits
<1>3. /\ \A f \in Word : /\ Monitor!Tell(Append(Monitor!Creating, f)) \in S
                         /\ Monitor!Tell(Append(Monitor!Editing, f)) \in S
      /\ Monitor!Tell(None) \in S /\ Monitor!Tell(Monitor!Editing) \in S
  BY <1>2, MonitorTargets
<1>4. /\ Monitor!Await("readAll") \o Monitor!Await("commit") \o Monitor!ShowMenu \in S
      /\ Monitor!Await("loadMonitor") \o Monitor!Tell(Monitor!Editing) \in S
  <2>1. Monitor!Await("readAll") \o Monitor!Await("commit") \in S
    BY <1>2, MoreSteps
  <2> QED
    BY <2>1, <1>2, <1>3, MoreSteps
<1>5. "target" \in Word /\ "alias" \in Word
  BY DEF Word
<1>6. /\ rows' = rows /\ forms' = forms /\ (data' = data \/ \E k : data' = [data EXCEPT ![k] = None])
      /\ \E on, steps : steps \in S /\ Started(c, on, None, steps)
  <2> USE DEF Started
  <2> USE MonitorIdle
  <2> HIDE DEF S
  <2>1. CASE Monitor!enter_monitor_menu(c)
    BY <2>1, <1>2 DEF Monitor!enter_monitor_menu, Monitor!Runs
  <2>2. CASE Monitor!stop_all_monitor(c)
    BY <2>2, <1>4 DEF Monitor!stop_all_monitor, Monitor!Runs
  <2>3. CASE Monitor!back_parent(c)
    BY <2>3, <1>2 DEF Monitor!back_parent, Monitor!Runs
  <2>4. CASE Monitor!handle_monitor_selection(c)
    BY <2>4, <1>4 DEF Monitor!handle_monitor_selection, Monitor!Runs
  <2>5. CASE Monitor!delete_monitor(c)
    BY <2>5, <1>3 DEF Monitor!delete_monitor, Monitor!Runs
  <2>6. CASE Monitor!back_to_monitor(c)
    BY <2>6, <1>2 DEF Monitor!back_to_monitor, Monitor!Runs
  <2>7. CASE \/ Monitor!create_start_set_address(c) \/ Monitor!create_start_set_alias(c)
             \/ Monitor!edit_start_set_alias(c)
    <3>1. PICK f \in {"target", "alias"} :
            Monitor!Ask(c, Monitor!Creating, f) \/ Monitor!Ask(c, Monitor!Editing, f)
      BY <2>7 DEF Monitor!create_start_set_address, Monitor!create_start_set_alias, Monitor!edit_start_set_alias
    <3>2. Monitor!Tell(Append(Monitor!Creating, f)) \in S /\ Monitor!Tell(Append(Monitor!Editing, f)) \in S
      BY <1>3, <1>5
    <3> QED
      BY <3>1, <3>2 DEF Monitor!Ask, Monitor!RunsIn
  <2> QED
    BY <2>1, <2>2, <2>3, <2>4, <2>5, <2>6, <2>7
<1>7. PICK on, steps : steps \in S /\ Started(c, on, None, steps)
  BY <1>6
<1> QED
  BY <1>6, <1>7, MonitorSuits, ShowsFits DEF MonitorIInv

LEMMA MonitorAdds ==
  ASSUME MonitorIInv, None \notin Nat, NEW c \in Slot,
         Monitor!create_new_monitor(c) \/ Monitor!submit_monitor(c)
  PROVE  MonitorIInv'
<1>1. "monitor_settings" \in Keys
  BY DEF Keys
<1>2. CASE Monitor!create_new_monitor(c)
  <2>1. /\ forms' = Append(forms, [row |-> None, value |-> Monitor!NewForm])
        /\ data' = [data EXCEPT !["monitor_settings"] = Len(forms) + 1]
        /\ Started(c, "", None, Monitor!Tell(Monitor!Creating)) /\ rows' = rows
    BY <1>2, MonitorIdle DEF Monitor!create_new_monitor, Monitor!NewKey, Monitor!Runs, Started
  <2>2. Monitor!Tell(Monitor!Creating) \in StepSeq(MonitorDo \ MonitorNeedy)
    BY MonitorAwaits, MonitorTargets DEF MonitorDo, MonitorNeedy
  <2>3. Monitor!Tell(Monitor!Creating) \in StepSeq(IF None = None THEN MonitorDo \ MonitorNeedy ELSE MonitorDo)
    BY <2>2
  <2>4. [row |-> None, value |-> Monitor!NewForm] \in Form(MonitorValue)
    BY MonitorNewForm DEF Form
  <2> QED
    BY <2>1, <2>3, <2>4, MonitorSuits, AddsFits DEF MonitorIInv
<1>3. CASE Monitor!submit_monitor(c)
  <2>1. rows' = rows /\ data' = data
    BY <1>3 DEF Monitor!submit_monitor
  <2>2. CASE Ends(c) /\ forms' = forms
    BY <2>1, <2>2, MonitorSuits, EndsFits DEF MonitorIInv, Suits
  <2>3. CASE ~(Ends(c) /\ forms' = forms)
    <3> DEFINE o == forms[data["monitor_settings"]]
               steps == Monitor!Await("insert") \o Monitor!Tell(Monitor!Menu) \o Monitor!Tell(None)
    <3>1. /\ data["monitor_settings"] # None /\ forms' = Append(forms, o)
          /\ Started(c, "", Len(forms) + 1, steps)
      BY <1>3, <2>3, MonitorIdle DEF Monitor!submit_monitor, Monitor!NewKey, Monitor!Ends, Ends,
                                     Monitor!Runs, Started
    <3>2. o \in Form(MonitorValue)
      BY <1>1, <3>1, MonitorFormValue
    <3>3. Len(forms) + 1 # None
      BY DEF MonitorIInv, Dialogue
    <3>4. steps \in StepSeq(MonitorDo)
      BY MonitorSeqs
    <3> HIDE DEF o, steps
    <3>5. steps \in StepSeq(IF Len(forms) + 1 = None THEN MonitorDo \ MonitorNeedy ELSE MonitorDo)
      BY <3>3, <3>4
    <3> QED
      BY <2>1, <3>1, <3>2, <3>5, MonitorSuits, AddsFits DEF MonitorIInv
  <2> QED
    BY <2>2, <2>3
<1> QED
  BY <1>2, <1>3

LEMMA MonitorLoads ==
  ASSUME MonitorIInv, NEW c \in Slot, Monitor!LoadMonitor(c) \/ Monitor!ForgetMonitor(c)
  PROVE  MonitorIInv'
<1> USE DEF Monitor!At, Monitor!Running, Running, Monitor!Goes, Goes, Monitor!Key
<1> USE MonitorIdle
<1>1. CASE Monitor!LoadMonitor(c)
  <2>1. PICK r \in DOMAIN rows : Monitor!Load(c, r, "loadMonitor", "monitor", rows[r])
    BY <1>1 DEF Monitor!LoadMonitor
  <2>2. CASE ~Exists(r)
    <3>1. Ends(c) /\ forms' = forms /\ rows' = rows /\ data' = data
      BY <2>1, <2>2 DEF Monitor!Load, Monitor!Exists, Exists, Monitor!Ends, Ends
    <3> QED
      BY <3>1, MonitorSuits, EndsFits DEF MonitorIInv, Suits
  <2>3. CASE Exists(r)
    <3>1. Running(c) /\ Goes(c) /\ rows' = rows
          /\ forms' = Append(forms, [row |-> r, value |-> rows[r]])
          /\ data' = [data EXCEPT !["monitor"] = Len(forms) + 1]
      BY <2>1, <2>3 DEF Monitor!Load, Monitor!Exists, Exists
    <3>2. r \in Nat /\ rows[r] \in MonitorValue
      BY <2>3 DEF Exists, MonitorIInv, Dialogue
    <3>3. [row |-> r, value |-> rows[r]] \in Form(MonitorValue)
      BY <3>2 DEF Form
    <3> QED
      BY <3>1, <3>3, MonitorSuits, AppendFits DEF MonitorIInv
  <2> QED
    BY <2>2, <2>3
<1>2. CASE Monitor!ForgetMonitor(c)
  <2>1. Running(c) /\ Goes(c) /\ rows' = rows /\ forms' = forms
        /\ data' = [data EXCEPT !["monitor"] = None]
    BY <1>2 DEF Monitor!ForgetMonitor, Monitor!Forget
  <2> QED
    BY <2>1, MonitorSuits, ForgetsFit DEF MonitorIInv
<1> QED
  BY <1>1, <1>2

LEMMA MonitorKeeps ==
  ASSUME MonitorIInv, None \notin Nat, NEW c \in Slot, Monitor!MonitorStep(c) PROVE MonitorIInv'
<1>1. "monitor_settings" \in Keys /\ "monitor" \in Keys
  BY DEF Keys
<1>2. Handled(c, "monitor_settings", MonitorValue, MonitorDo) \/ Handled(c, "monitor", MonitorValue, MonitorDo)
        => MonitorIInv'
  BY <1>1, MonitorSuits, HandledFits DEF MonitorIInv
<1> QED
  BY <1>2, MonitorAnswers, MonitorEdits, MonitorShows, MonitorAdds, MonitorLoads
  DEF Monitor!MonitorStep, Monitor!cancel_delete_monitor

-----------------------------------------------------------------------------
(***************************************************************************)
(* Trading                                                                 *)
(*                                                                         *)
(* What is left of a handler is a sequence of steps, and a step relies on  *)
(* facts that the ones before it establish.  Fact "form": the call has an  *)
(* object; "wallet", "token", "key", "mode": it carries one; "answer": it  *)
(* answers a prompt.  Without a clash more                                 *)
(* is true while the call is the one that works on the setting:            *)
(* "saved": its object is the active wallet's setting as saved, "wallet":  *)
(* it carries the active wallet, "pair": its object and that in the data   *)
(* are alike, "noted": it carries the token of the data, "answer": that of *)
(* the prompt, "data": the setting in the data is as saved, "kept": the    *)
(* wallet in the data is the active one, "asked": the token there is that  *)
(* of the prompt, "mode": the mode it carries is that of the active        *)
(* wallet's setting.                                                       *)
(***************************************************************************)
Facts == {"form", "wallet", "token", "key", "saved", "pair", "noted", "answer", "data", "kept",
          "asked", "mode"}

TradeDo == {"tell", "owner", "fetch", "keep", "resume", "set", "token", "keepBoth", "setAuto",
            "setSandwich", "decide", "order", "orderAsked", "remember", "askBuy", "askSell",
            "newDefault", "register", "clear"}

Needs(d) ==
  CASE d \in {"owner", "token"}               -> {"data", "kept", "asked"}
    [] d = "fetch"                            -> {"wallet", "data", "kept", "asked"}
    [] d \in {"keep", "setAuto", "setSandwich", "resume"} -> {"form", "saved", "kept", "asked"}
    [] d \in {"keepBoth", "decide"}           -> {"form", "saved", "wallet", "kept", "asked"}
    [] d = "set"                              -> {"form", "pair", "kept", "asked"}
    [] d = "remember"                         -> {"form", "saved", "wallet", "token", "kept", "asked"}
    [] d = "order"                            -> {"mode", "wallet", "token", "kept", "asked"}
    [] d = "orderAsked"                       -> {"mode", "wallet", "token", "answer", "kept", "asked"}
    [] d \in {"askBuy", "askSell"}            -> {"token", "noted", "data", "kept"}
    [] d \in {"newDefault", "register"}       -> {"key", "wallet", "data", "kept", "asked"}
    [] OTHER                                  -> {}

Gives(d) ==
  CASE d = "owner"                            -> {"wallet"}
    [] d = "fetch"                            -> {"form", "saved"}
    [] d \in {"keep", "resume", "set"}        -> {"data"}
    [] d = "keepBoth"                         -> {"data", "kept"}
    [] d = "decide"                           -> {"mode"}
    [] d = "remember"                         -> {"data", "kept", "noted"}
    [] d \in {"askBuy", "askSell"}            -> {"asked"}
    [] d = "clear"                            -> {"data", "kept", "asked"}
    [] OTHER                                  -> {}

Kills(d) ==
  CASE d \in {"tell", "owner", "token", "decide", "order", "orderAsked"} -> {}
    [] d = "fetch"                            -> {"pair"}
    [] d \in {"setAuto", "setSandwich"}       -> {"data", "pair", "mode"}
    [] d = "remember"                         -> {"asked", "pair", "mode"}
    [] d \in {"askBuy", "askSell"}            -> {"answer", "pair", "mode"}
    [] d = "register"                         -> {"data", "kept", "wallet", "saved", "pair", "mode"}
    [] d = "clear"                            -> {"noted", "pair", "mode"}
    [] OTHER                                  -> {"pair", "mode"}

After(K, d) == (K \ Kills(d)) \cup Gives(d)

TradeWord == {"setting", "swap", "wallet", "token", "menu", "key", "buyAmount", "sellPct",
              "sellAmount", "quick", "sandwichBps", "buyFee", "sellFee"}
TradeTarget == Seq(TradeWord) \cup {None}
TradeStepOf == [do : TradeDo, to : TradeTarget]

\* The facts along the steps: those in K hold before the first, and those in L after
\* the last.
Annotates(A, s, K, L) ==
  /\ A \in [1..(Len(s) + 1) -> SUBSET Facts]
  /\ A[1] \subseteq K /\ L \subseteq A[Len(s) + 1]
  /\ \A i \in 1..Len(s) : Needs(s[i].do) \subseteq A[i] /\ A[i + 1] \subseteq After(A[i], s[i].do)

Sure(s, K, L) == s \in Seq(TradeStepOf) /\ \E A : Annotates(A, s, K, L)

LEMMA SureNone == \A K \in SUBSET Facts : Sure(<<>>, K, K)
<1> SUFFICES ASSUME NEW K \in SUBSET Facts PROVE Sure(<<>>, K, K)
  OBVIOUS
<1>1. Annotates([i \in 1..1 |-> K], <<>>, K, K)
  BY DEF Annotates
<1> QED
  BY <1>1 DEF Sure

LEMMA SureOne ==
  ASSUME NEW d \in TradeDo, NEW t \in TradeTarget, NEW K \in SUBSET Facts, NEW L \in SUBSET Facts,
         Needs(d) \subseteq K, L \subseteq After(K, d)
  PROVE  Sure(<<[do |-> d, to |-> t]>>, K, L)
<1>1. PICK e : e = [do |-> d, to |-> t]
  OBVIOUS
<1>2. e \in TradeStepOf /\ e.do = d
  BY <1>1 DEF TradeStepOf
<1>3. PICK A : A = [i \in 1..2 |-> IF i = 1 THEN K ELSE L]
  OBVIOUS
<1>4. A[1] = K /\ A[2] = L /\ A \in [1..2 -> SUBSET Facts]
  BY <1>3
<1>5. Len(<<e>>) = 1 /\ <<e>>[1] = e /\ <<e>> \in Seq(TradeStepOf)
  BY <1>2
<1>6. Annotates(A, <<e>>, K, L)
  BY <1>2, <1>4, <1>5 DEF Annotates
<1> QED
  BY <1>1, <1>5, <1>6 DEF Sure

LEMMA SureMore ==
  ASSUME NEW s, NEW t, NEW K, NEW L, NEW M, Sure(s, K, L), Sure(t, L, M)
  PROVE  Sure(s \o t, K, M)
<1>1. PICK A : Annotates(A, s, K, L)
  BY DEF Sure
<1>2. PICK B : Annotates(B, t, L, M)
  BY DEF Sure
<1>3. PICK n, m : n = Len(s) /\ m = Len(t) /\ n \in Nat /\ m \in Nat
  BY DEF Sure
<1>4. PICK u : u = s \o t
  OBVIOUS
<1>5. /\ u \in Seq(TradeStepOf) /\ Len(u) = n + m
      /\ \A i \in 1..n : u[i] = s[i]
      /\ \A i \in (n + 1)..(n + m) : u[i] = t[i - n]
  BY <1>3, <1>4 DEF Sure
<1>6. PICK C : C = [i \in 1..(n + m + 1) |-> IF i <= n THEN A[i] ELSE B[i - n]]
  OBVIOUS
<1>7. /\ \A i \in 1..n : C[i] = A[i]
      /\ \A i \in (n + 1)..(n + m + 1) : C[i] = B[i - n]
  BY <1>3, <1>6
<1>8. C \in [1..(n + m + 1) -> SUBSET Facts]
  <2>1. \A i \in 1..n : A[i] \in SUBSET Facts
    BY <1>1, <1>3 DEF Annotates
  <2>2. \A i \in (n + 1)..(n + m + 1) : i - n \in 1..(m + 1)
    BY <1>3
  <2>3. \A i \in (n + 1)..(n + m + 1) : B[i - n] \in SUBSET Facts
    BY <1>2, <1>3, <2>2 DEF Annotates
  <2>4. \A i \in 1..(n + m + 1) : i \in 1..n \/ i \in (n + 1)..(n + m + 1)
    BY <1>3
  <2>5. \A i \in 1..(n + m + 1) : C[i] \in SUBSET Facts
    BY <1>7, <2>1, <2>3, <2>4
  <2> QED
    BY <1>6, <2>5
<1>9. C[n + 1] = B[1] /\ B[1] \subseteq L /\ L \subseteq A[n + 1]
  <2>1. n + 1 \in (n + 1)..(n + m + 1) /\ (n + 1) - n = 1
    BY <1>3
  <2> QED
    BY <1>1, <1>2, <1>3, <1>7, <2>1 DEF Annotates
<1>10. C[1] \subseteq K
  <2>1. CASE n = 0
    BY <1>1, <1>3, <1>9, <2>1 DEF Annotates
  <2>2. CASE n # 0
    <3>1. 1 \in 1..n
      BY <1>3, <2>2
    <3> QED
      BY <1>1, <1>7, <3>1 DEF Annotates
  <2> QED
    BY <2>1, <2>2
<1>11. M \subseteq C[n + m + 1]
  <2>1. n + m + 1 \in (n + 1)..(n + m + 1) /\ (n + m + 1) - n = m + 1
    BY <1>3
  <2> QED
    BY <1>2, <1>3, <1>7, <2>1 DEF Annotates
<1>12. ASSUME NEW i \in 1..(n + m)
       PROVE  Needs(u[i].do) \subseteq C[i] /\ C[i + 1] \subseteq After(C[i], u[i].do)
  <2>1. CASE i < n
    <3>1. i \in 1..n /\ i + 1 \in 1..n
      BY <1>3, <2>1
    <3> QED
      BY <1>1, <1>3, <1>5, <1>7, <3>1 DEF Annotates
  <2>2. CASE i = n
    <3>1. i \in 1..n
      BY <1>3, <2>2
    <3>2. C[i] = A[i] /\ u[i] = s[i] /\ C[i + 1] \subseteq A[i + 1]
      BY <1>5, <1>7, <1>9, <2>2, <3>1
    <3> QED
      BY <1>1, <1>3, <3>1, <3>2 DEF Annotates
  <2>3. CASE i > n
    <3>1. i \in (n + 1)..(n + m) /\ i \in (n + 1)..(n + m + 1) /\ i + 1 \in (n + 1)..(n + m + 1)
          /\ i - n \in 1..m /\ (i + 1) - n = (i - n) + 1
      BY <1>3, <2>3
    <3>2. C[i] = B[i - n] /\ u[i] = t[i - n] /\ C[i + 1] = B[(i - n) + 1]
      BY <1>5, <1>7, <3>1
    <3> QED
      BY <1>2, <1>3, <3>1, <3>2 DEF Annotates
  <2> QED
    BY <1>3, <2>1, <2>2, <2>3
<1>13. Annotates(C, u, K, M)
  BY <1>5, <1>8, <1>10, <1>11, <1>12 DEF Annotates
<1> QED
  BY <1>4, <1>5, <1>13 DEF Sure

LEMMA SureFirst ==
  ASSUME NEW s, NEW K, NEW L, Sure(s, K, L), s # <<>>
  PROVE  /\ Head(s).do \in TradeDo /\ Needs(Head(s).do) \subseteq K
         /\ \E M \in SUBSET Facts : M \subseteq After(K, Head(s).do) /\ Sure(Tail(s), M, L)
<1>1. PICK A : Annotates(A, s, K, L)
  BY DEF Sure
<1>2. PICK n : n = Len(s) /\ n \in Nat \ {0} /\ s \in Seq(TradeStepOf)
  BY DEF Sure
<1>3. PICK t : t = Tail(s)
  OBVIOUS
<1>4. /\ t \in Seq(TradeStepOf) /\ Len(t) = n - 1 /\ \A i \in 1..(n - 1) : t[i] = s[i + 1]
      /\ Head(s) = s[1] /\ s[1] \in TradeStepOf
  BY <1>2, <1>3
<1>5. /\ Needs(s[1].do) \subseteq A[1] /\ A[2] \subseteq After(A[1], s[1].do) /\ A[1] \subseteq K
      /\ A[2] \in SUBSET Facts
  BY <1>1, <1>2 DEF Annotates
<1>6. PICK B : B = [i \in 1..n |-> A[i + 1]]
  OBVIOUS
<1>7. Annotates(B, t, A[2], L)
  <2>1. \A i \in 1..n : i + 1 \in 1..(n + 1) /\ B[i] = A[i + 1]
    BY <1>2, <1>6
  <2>2. \A i \in 1..n : B[i] \in SUBSET Facts
    BY <1>1, <1>2, <2>1 DEF Annotates
  <2>3. B \in [1..(Len(t) + 1) -> SUBSET Facts] /\ (n - 1) + 1 = n
    BY <1>2, <1>4, <1>6, <2>2
  <2>4. B[1] = A[2] /\ B[Len(t) + 1] = A[n + 1]
    BY <1>2, <1>4, <2>1
  <2>5. ASSUME NEW i \in 1..(n - 1)
        PROVE  Needs(t[i].do) \subseteq B[i] /\ B[i + 1] \subseteq After(B[i], t[i].do)
    <3>1. i \in 1..n /\ i + 1 \in 1..n
      BY <1>2
    <3>2. B[i] = A[i + 1] /\ B[i + 1] = A[(i + 1) + 1] /\ t[i] = s[i + 1]
      BY <1>4, <2>1, <3>1
    <3> QED
      BY <1>1, <1>2, <3>1, <3>2 DEF Annotates
  <2> QED
    BY <1>1, <1>2, <1>4, <2>3, <2>4, <2>5 DEF Annotates
<1>8. A[2] \subseteq After(K, s[1].do)
  BY <1>5 DEF After
<1> QED
  BY <1>3, <1>4, <1>5, <1>7, <1>8 DEF Sure, TradeStepOf

LEMMA SureEnd == ASSUME NEW K, NEW L, Sure(<<>>, K, L) PROVE L \subseteq K
BY DEF Sure, Annotates

LEMMA SureWeaker ==
  ASSUME NEW s, NEW K, NEW L, NEW M, Sure(s, K, L), K \subseteq M PROVE Sure(s, M, L)
BY DEF Sure, Annotates

Settled == {"data", "kept", "asked"}
Ready == {"data", "kept", "asked", "form", "saved", "wallet"}

LEMMA TradeAwaits ==
  ASSUME NEW K \in SUBSET Facts
  PROVE  /\ \A t \in TradeTarget : Sure(Trade!Tell(t), K, K)
         /\ \A d \in TradeDo, L \in SUBSET Facts :
              Needs(d) \subseteq K /\ L \subseteq After(K, d) => Sure(Trade!Await(d), K, L)
<1>1. ASSUME NEW t \in TradeTarget PROVE Sure(Trade!Tell(t), K, K)
  <2>1. "tell" \in TradeDo /\ Needs("tell") = {} /\ After(K, "tell") = K
    BY DEF TradeDo, Needs, After, Kills, Gives
  <2> QED
    BY <2>1, SureOne DEF Trade!Tell
<1>2. None \in TradeTarget
  BY DEF TradeTarget
<1>3. ASSUME NEW d \in TradeDo, NEW L \in SUBSET Facts, Needs(d) \subseteq K, L \subseteq After(K, d)
      PROVE  Sure(Trade!Await(d), K, L)
  BY <1>2, <1>3, SureOne DEF Trade!Await
<1> QED
  BY <1>1, <1>3

LEMMA TradeTargets ==
  /\ None \in TradeTarget /\ <<>> \in TradeTarget /\ Trade!MenuOfWallet \in TradeTarget
  /\ <<"swap", "token">> \in TradeTarget /\ <<"wallet", "key">> \in TradeTarget
  /\ \A f \in {"quick", "sandwichBps", "buyFee", "sellFee", "buyAmount", "sellAmount"} :
       Trade!InState(f) \in TradeTarget
<1>1. <<>> \in Seq(TradeWord)
  OBVIOUS
<1>2. <<"swap", "token">> \in Seq(TradeWord) /\ <<"wallet", "key">> \in Seq(TradeWord)
      /\ Trade!MenuOfWallet \in Seq(TradeWord)
  BY DEF TradeWord, Trade!MenuOfWallet
<1>3. \A f \in {"quick", "sandwichBps", "buyFee", "sellFee", "buyAmount", "sellAmount"} :
        Trade!InState(f) \in Seq(TradeWord)
  BY DEF TradeWord, Trade!InState
<1> QED
  BY <1>1, <1>2, <1>3 DEF TradeTarget

\* The setting and the wallet are read.
LEMMA GetsSetting ==
  ASSUME NEW K \in SUBSET Facts, Settled \subseteq K, "pair" \notin K
  PROVE  Sure(Trade!get_setting_from_db, K, K \cup Ready)
<1>1. K \cup {"wallet"} \in SUBSET Facts /\ K \cup Ready \in SUBSET Facts
  BY DEF Facts, Ready
<1>2. Needs("owner") \subseteq K /\ K \cup {"wallet"} \subseteq After(K, "owner") /\ "owner" \in TradeDo
  BY DEF Needs, After, Kills, Gives, TradeDo, Settled
<1>3. Needs("fetch") \subseteq K \cup {"wallet"} /\ "fetch" \in TradeDo
      /\ K \cup Ready \subseteq After(K \cup {"wallet"}, "fetch")
  BY DEF Needs, After, Kills, Gives, TradeDo, Settled, Ready
<1>4. Sure(Trade!Await("owner"), K, K \cup {"wallet"})
  BY <1>1, <1>2, TradeAwaits
<1>5. Sure(Trade!Await("fetch"), K \cup {"wallet"}, K \cup Ready)
  BY <1>1, <1>3, TradeAwaits
<1> QED
  BY <1>4, <1>5, SureMore DEF Trade!get_setting_from_db

LEMMA FactSets ==
  /\ Settled \in SUBSET Facts /\ Ready \in SUBSET Facts
  /\ Settled \subseteq Ready /\ Settled \cup Ready = Ready
BY DEF Settled, Ready, Facts

LEMMA ShownSeqs ==
  /\ \A t \in TradeTarget : Sure(Trade!Tell(t), Settled, Settled)
  /\ Sure(Trade!Tidy, Settled, Settled)
  /\ \A t \in TradeTarget : Sure(Trade!Tell(None) \o Trade!Tell(t), Settled, Settled)
  /\ Sure(Trade!Tell(None) \o <<>>, Settled, Settled)
<1>1. \A t \in TradeTarget : Sure(Trade!Tell(t), Settled, Settled)
  BY FactSets, TradeAwaits
<1>2. Sure(<<>>, Settled, Settled) /\ None \in TradeTarget
  BY FactSets, SureNone, TradeTargets
<1> QED
  BY <1>1, <1>2, SureMore DEF Trade!Tidy

LEMMA SettingSeqs ==
  /\ Sure(Trade!get_setting_from_db \o Trade!Await("keep") \o Trade!Tell(None), Settled, Settled)
  /\ Sure(Trade!get_setting_from_db \o Trade!Await("resume"), Settled, Settled)
<1>1. Sure(Trade!get_setting_from_db, Settled, Ready)
  BY FactSets, GetsSetting DEF Settled
<1>2. "keep" \in TradeDo /\ Needs("keep") \subseteq Ready /\ Settled \subseteq After(Ready, "keep")
      /\ "resume" \in TradeDo /\ Needs("resume") \subseteq Ready /\ Settled \subseteq After(Ready, "resume")
  BY DEF TradeDo, Needs, Ready, Settled, After, Kills, Gives
<1>3. Sure(Trade!Await("keep"), Ready, Settled) /\ Sure(Trade!Await("resume"), Ready, Settled)
  BY <1>2, FactSets, TradeAwaits
<1>4. Sure(Trade!get_setting_from_db \o Trade!Await("keep"), Settled, Settled)
  BY <1>1, <1>3, SureMore
<1> QED
  BY <1>1, <1>3, <1>4, SureMore, ShownSeqs, TradeTargets

LEMMA ChangeSeqs ==
  ASSUME NEW after, Sure(after, Settled, Settled)
  PROVE  Sure(Trade!Await("set") \o after, {"form", "pair", "kept", "asked"}, Settled)
<1>1. "set" \in TradeDo /\ Needs("set") \subseteq {"form", "pair", "kept", "asked"}
      /\ Settled \subseteq After({"form", "pair", "kept", "asked"}, "set") /\ {"form", "pair", "kept", "asked"} \in SUBSET Facts
  BY DEF TradeDo, Needs, Settled, After, Kills, Gives, Facts
<1>2. Sure(Trade!Await("set"), {"form", "pair", "kept", "asked"}, Settled)
  BY <1>1, FactSets, TradeAwaits
<1> QED
  BY <1>2, SureMore

LEMMA TokenSure ==
  ASSUME NEW K \in SUBSET Facts, Settled \subseteq K PROVE Sure(Trade!Await("token"), K, K)
<1>1. "token" \in TradeDo /\ Needs("token") \subseteq K /\ K \subseteq After(K, "token")
  BY DEF TradeDo, Needs, Settled, After, Kills, Gives
<1> QED
  BY <1>1, TradeAwaits

LEMMA MenuSeqs ==
  /\ Sure(Trade!get_setting_from_db \o Trade!Await("token") \o Trade!Await("keepBoth") \o Trade!Tell(None),
          Settled, Settled)
  /\ Sure(Trade!Await("token") \o Trade!get_setting_from_db \o Trade!Tell(None), Settled, Settled)
  /\ \A what \in {"setAuto", "setSandwich"} :
       Sure(Trade!get_setting_from_db \o Trade!Await("token") \o Trade!Await(what) \o Trade!Await("keep")
              \o Trade!Tell(None), Settled, Settled)
<1>1. Sure(Trade!get_setting_from_db, Settled, Ready) /\ Sure(Trade!Tell(None), Settled, Settled)
  BY FactSets, GetsSetting, ShownSeqs, TradeTargets DEF Settled
<1>2. Sure(Trade!Await("token"), Ready, Ready) /\ Sure(Trade!Await("token"), Settled, Settled)
  BY FactSets, TokenSure
<1>3. Sure(Trade!get_setting_from_db \o Trade!Await("token"), Settled, Ready)
  BY <1>1, <1>2, SureMore
<1>4. Sure(Trade!Await("keepBoth"), Ready, Settled)
  <2>1. "keepBoth" \in TradeDo /\ Needs("keepBoth") \subseteq Ready /\ Settled \subseteq After(Ready, "keepBoth")
    BY DEF TradeDo, Needs, Ready, Settled, After, Kills, Gives
  <2> QED
    BY <2>1, FactSets, TradeAwaits
<1>5. Sure(Trade!get_setting_from_db \o Trade!Await("token") \o Trade!Await("keepBoth"), Settled, Settled)
  BY <1>3, <1>4, SureMore
<1>6. Sure(Trade!get_setting_from_db \o Trade!Tell(None), Settled, Settled)
  <2>1. Sure(Trade!Tell(None), Ready, Ready)
    BY FactSets, TradeAwaits, TradeTargets
  <2>2. Sure(Trade!Tell(None), Ready, Settled)
    BY <1>1, FactSets, SureWeaker
  <2> QED
    BY <1>1, <2>2, SureMore
<1>7. Sure(Trade!Await("token") \o Trade!get_setting_from_db \o Trade!Tell(None), Settled, Settled)
  <2>1. Sure(Trade!Await("token") \o Trade!get_setting_from_db, Settled, Ready)
    BY <1>1, <1>2, SureMore
  <2>2. Sure(Trade!Tell(None), Ready, Settled)
    BY <1>1, FactSets, SureWeaker
  <2> QED
    BY <2>1, <2>2, SureMore
<1>8. ASSUME NEW what \in {"setAuto", "setSandwich"}
      PROVE  Sure(Trade!get_setting_from_db \o Trade!Await("token") \o Trade!Await(what) \o Trade!Await("keep")
                    \o Trade!Tell(None), Settled, Settled)
  <2> DEFINE K == {"kept", "asked", "form", "saved", "wallet"}
  <2>1. what \in TradeDo /\ Needs(what) \subseteq Ready /\ K \subseteq After(Ready, what) /\ K \in SUBSET Facts
        /\ "keep" \in TradeDo /\ Needs("keep") \subseteq K /\ Settled \subseteq After(K, "keep")
    BY DEF TradeDo, Needs, Ready, Settled, After, Kills, Gives, Facts
  <2> HIDE DEF K
  <2>2. Sure(Trade!Await(what), Ready, K) /\ Sure(Trade!Await("keep"), K, Settled)
    BY <2>1, FactSets, TradeAwaits
  <2>3. Sure(Trade!get_setting_from_db \o Trade!Await("token") \o Trade!Await(what), Settled, K)
    BY <1>3, <2>2, SureMore
  <2>4. Sure(Trade!get_setting_from_db \o Trade!Await("token") \o Trade!Await(what) \o Trade!Await("keep"),
             Settled, Settled)
    BY <2>2, <2>3, SureMore
  <2> QED
    BY <1>1, <2>4, SureMore
<1> QED
  BY <1>1, <1>5, <1>7, <1>8, SureMore

\* What a call knows when it starts, from the data.
Given == (IF data["setting"] = None THEN {} ELSE {"form", "saved"})
         \cup (IF data["wallet"] = None THEN {} ELSE {"wallet"})

\* What is missing in the data is read.
LEMMA MissingSure ==
  ASSUME NEW K \in SUBSET Facts, Settled \subseteq K, "pair" \notin K, Given \subseteq K
  PROVE  Sure(Trade!Missing, K, K \cup Ready)
<1>1. K \cup Ready \in SUBSET Facts /\ K \cup {"form", "saved"} \in SUBSET Facts
      /\ (K \cup {"form", "saved"}) \cup {"wallet"} = K \cup Ready
  BY DEF Facts, Ready, Settled
<1> DEFINE p == IF data["setting"] = None THEN Trade!get_setting_from_db ELSE <<>>
           q == IF data["wallet"] = None THEN Trade!Await("owner") ELSE <<>>
           L == IF data["setting"] = None THEN K \cup Ready ELSE K
<1>2. Sure(p, K, L) /\ L \in SUBSET Facts /\ K \subseteq L /\ {"form", "saved"} \subseteq L
  <2>1. CASE data["setting"] = None
    BY <2>1, <1>1, GetsSetting DEF Ready
  <2>2. CASE data["setting"] # None
    BY <2>2, SureNone DEF Given
  <2> QED
    BY <2>1, <2>2
<1>3. Sure(q, L, K \cup Ready)
  <2>1. CASE data["wallet"] = None
    <3>1. "owner" \in TradeDo /\ Needs("owner") \subseteq L
      BY <1>2 DEF TradeDo, Needs, Settled
    <3>2. K \cup Ready \subseteq After(L, "owner")
      BY <1>2 DEF After, Kills, Gives, Ready, Settled
    <3> HIDE DEF L
    <3> QED
      BY <2>1, <3>1, <3>2, <1>1, <1>2, TradeAwaits
  <2>2. CASE data["wallet"] # None
    <3>1. K \cup Ready \subseteq L
      BY <1>2, <2>2 DEF Given, Ready, Settled
    <3>2. L \subseteq K \cup Ready
      BY DEF Ready
    <3>3. L = K \cup Ready
      BY <3>1, <3>2
    <3> QED
      BY <1>2, <2>2, <3>3, SureNone
  <2> QED
    BY <2>1, <2>2
<1>4. Trade!Missing = p \o q
  BY DEF Trade!Missing, Trade!Setting
<1> HIDE DEF p, q, L
<1> QED
  BY <1>2, <1>3, <1>4, SureMore

Carrying == Settled \cup {"token"} \cup Given

LEMMA CarryingFacts ==
  /\ Carrying \in SUBSET Facts /\ Carrying \cup {"answer"} \in SUBSET Facts
  /\ Settled \subseteq Carrying /\ Given \subseteq Carrying
  /\ "pair" \notin Carrying \cup {"answer"} /\ "token" \in Carrying
BY DEF Carrying, Settled, Facts, Given

\* The mode is decided and the order goes out.
LEMMA ProduceSure ==
  ASSUME NEW L \in SUBSET Facts, Settled \cup {"form", "saved", "wallet", "token"} \subseteq L,
         NEW d \in {"order", "orderAsked"}, d = "orderAsked" => "answer" \in L
  PROVE  Sure(Trade!Produce(d), L, Settled)
<1>1. PICK M : M = L \cup {"mode"}
  OBVIOUS
<1>2. M \in SUBSET Facts
  BY <1>1 DEF Facts
<1>3. "decide" \in TradeDo /\ Needs("decide") \subseteq L /\ M \subseteq After(L, "decide")
  BY <1>1 DEF TradeDo, Needs, After, Kills, Gives, Settled
<1>4. d \in TradeDo /\ Needs(d) \subseteq M /\ Settled \subseteq After(M, d)
  BY <1>1 DEF TradeDo, Needs, After, Kills, Gives, Settled
<1>5. Sure(Trade!Await("decide"), L, M) /\ Sure(Trade!Await(d), M, Settled)
  BY <1>2, <1>3, <1>4, FactSets, TradeAwaits
<1> QED
  BY <1>5, SureMore DEF Trade!Produce

LEMMA OrderSeqs ==
  ASSUME NEW X \in SUBSET {"answer"}, NEW d \in {"order", "orderAsked"},
         d = "orderAsked" => X = {"answer"}, NEW t \in TradeTarget
  PROVE  /\ Sure(Trade!Await("token") \o Trade!Missing \o Trade!Produce(d) \o Trade!Tell(t),
                 Carrying \cup X, Settled)
         /\ Sure(Trade!Await("token") \o Trade!Missing \o Trade!Await("token") \o Trade!Produce(d) \o Trade!Tell(t),
                 Carrying \cup X, Settled)
<1> DEFINE K == Carrying \cup X
           L == K \cup Ready
<1>1. K \in SUBSET Facts /\ L \in SUBSET Facts /\ Settled \subseteq K /\ Settled \subseteq L
      /\ "pair" \notin K /\ Given \subseteq K
  BY CarryingFacts, FactSets DEF Facts
<1>2. Settled \cup {"form", "saved", "wallet", "token"} \subseteq L /\ (d = "orderAsked" => "answer" \in L)
  BY CarryingFacts DEF Ready, Settled
<1> HIDE DEF K, L
<1>3. Sure(Trade!Await("token"), K, K) /\ Sure(Trade!Await("token"), L, L)
  BY <1>1, TokenSure
<1>4. Sure(Trade!Missing, K, L)
  BY <1>1, MissingSure DEF L
<1>5. Sure(Trade!Produce(d), L, Settled) /\ Sure(Trade!Tell(t), Settled, Settled)
  BY <1>1, <1>2, ProduceSure, ShownSeqs
<1>6. Sure(Trade!Await("token") \o Trade!Missing, K, L)
  BY <1>3, <1>4, SureMore
<1>7. Sure(Trade!Await("token") \o Trade!Missing \o Trade!Await("token"), K, L)
  BY <1>3, <1>6, SureMore
<1>8. /\ Sure(Trade!Await("token") \o Trade!Missing \o Trade!Produce(d), K, Settled)
      /\ Sure(Trade!Await("token") \o Trade!Missing \o Trade!Await("token") \o Trade!Produce(d), K, Settled)
  BY <1>5, <1>6, <1>7, SureMore
<1> QED
  BY <1>5, <1>8, SureMore DEF K

LEMMA SwapSeqs ==
  Sure(Trade!get_setting_from_db \o Trade!Await("token") \o Trade!Produce("order") \o Trade!Tell(None),
       Carrying, Settled)
<1> DEFINE L == Carrying \cup Ready
<1>1. L \in SUBSET Facts /\ Settled \subseteq L /\ Settled \cup {"form", "saved", "wallet", "token"} \subseteq L
  BY CarryingFacts, FactSets DEF Ready
<1>2. Sure(Trade!get_setting_from_db, Carrying, L)
  BY CarryingFacts, GetsSetting
<1> HIDE DEF L
<1>3. Sure(Trade!Await("token"), L, L)
  BY <1>1, TokenSure
<1>4. PICK d : d = "order" /\ d \in {"order", "orderAsked"} /\ d # "orderAsked"
  OBVIOUS
<1>5. Sure(Trade!Produce(d), L, Settled) /\ Sure(Trade!Tell(None), Settled, Settled)
  BY <1>1, <1>4, ProduceSure, ShownSeqs, TradeTargets
<1>6. Sure(Trade!get_setting_from_db \o Trade!Await("token"), Carrying, L)
  BY <1>2, <1>3, SureMore
<1>7. Sure(Trade!get_setting_from_db \o Trade!Await("token") \o Trade!Produce(d), Carrying, Settled)
  BY <1>5, <1>6, SureMore
<1> QED
  BY <1>4, <1>5, <1>7, SureMore

LEMMA StartSeqs ==
  ASSUME NEW ask \in {"askBuy", "askSell"}
  PROVE  Sure(Trade!Await("token") \o Trade!Missing \o Trade!Await("remember") \o Trade!Await(ask),
              Carrying, Settled)
<1> DEFINE L == Carrying \cup Ready
           M == {"data", "kept", "noted", "token"}
<1>1. L \in SUBSET Facts /\ Settled \subseteq L /\ M \in SUBSET Facts
  BY CarryingFacts, FactSets DEF Facts
<1>2. "remember" \in TradeDo /\ Needs("remember") \subseteq L /\ M \subseteq After(L, "remember")
  BY CarryingFacts DEF TradeDo, Needs, After, Kills, Gives, Ready, Settled
<1>3. ask \in TradeDo /\ Needs(ask) \subseteq M /\ Settled \subseteq After(M, ask)
  BY DEF TradeDo, Needs, After, Kills, Gives, Settled
<1> HIDE DEF M
<1>4. Sure(Trade!Missing, Carrying, L) /\ Sure(Trade!Await("token"), Carrying, Carrying)
  BY CarryingFacts, MissingSure, TokenSure
<1> HIDE DEF L
<1>5. Sure(Trade!Await("remember"), L, M) /\ Sure(Trade!Await(ask), M, Settled)
  BY <1>1, <1>2, <1>3, FactSets, TradeAwaits
<1>6. Sure(Trade!Await("token") \o Trade!Missing, Carrying, L)
  BY <1>4, SureMore
<1>7. Sure(Trade!Await("token") \o Trade!Missing \o Trade!Await("remember"), Carrying, M)
  BY <1>5, <1>6, SureMore
<1> QED
  BY <1>5, <1>7, SureMore

LEMMA KeySeqs ==
  Sure(Trade!Await("owner") \o Trade!Await("newDefault") \o Trade!Await("register") \o Trade!Tell(None)
         \o Trade!Await("clear"), Settled \cup {"key"}, Settled)
<1> DEFINE K == Settled \cup {"key"}
           L == Settled \cup {"key", "wallet"}
           M == {"asked"}
<1>1. K \in SUBSET Facts /\ L \in SUBSET Facts /\ M \in SUBSET Facts
  BY DEF Facts, Settled
<1>2. /\ "owner" \in TradeDo /\ Needs("owner") \subseteq K /\ L \subseteq After(K, "owner")
      /\ "newDefault" \in TradeDo /\ Needs("newDefault") \subseteq L /\ L \subseteq After(L, "newDefault")
      /\ "register" \in TradeDo /\ Needs("register") \subseteq L /\ M \subseteq After(L, "register")
      /\ "clear" \in TradeDo /\ Needs("clear") \subseteq M /\ Settled \subseteq After(M, "clear")
  BY DEF TradeDo, Needs, After, Kills, Gives, Settled
<1> HIDE DEF K, L, M
<1>3. /\ Sure(Trade!Await("owner"), K, L) /\ Sure(Trade!Await("newDefault"), L, L)
      /\ Sure(Trade!Await("register"), L, M) /\ Sure(Trade!Tell(None), M, M)
      /\ Sure(Trade!Await("clear"), M, Settled)
  BY <1>1, <1>2, FactSets, TradeAwaits, TradeTargets
<1>4. Sure(Trade!Await("owner") \o Trade!Await("newDefault"), K, L)
  BY <1>3, SureMore
<1>5. Sure(Trade!Await("owner") \o Trade!Await("newDefault") \o Trade!Await("register"), K, M)
  BY <1>3, <1>4, SureMore
<1>6. Sure(Trade!Await("owner") \o Trade!Await("newDefault") \o Trade!Await("register") \o Trade!Tell(None), K, M)
  BY <1>3, <1>5, SureMore
<1> QED
  BY <1>3, <1>6, SureMore DEF K

(***************************************************************************)
(* The state of the trading part.                                          *)
(***************************************************************************)
\* The wallet of a call was the chat's, and the token of an answer that of a prompt.
Vouched(k) ==
  \A w \in k.write :
    /\ w[1] = "wallet" => \E r \in k.write : r[1] = "was" /\ r[2] = w[2]
    /\ w[1] = "token" /\ (\E r \in k.write : r[1] = "prompt")
         => \E r \in k.write : r[1] = "prompt" /\ r[2] = w[2]

\* Automatic slippage and the sandwich mode exclude one another.
TradeValue ==
  {v \in [auto : BOOLEAN, quick : {1, 2}, sandwich : BOOLEAN, sandwichBps : {1, 2},
          buyFee : {1, 2}, sellFee : {1, 2}, autoBuy : BOOLEAN, autoSell : BOOLEAN,
          buyAmount : {1, 2}, sellAmount : {1, 2}] : ~(v.auto /\ v.sandwich)}

TradeForm == [row : Wallet, value : TradeValue]
TradeMode == {"sandwich", "auto", "quick"}
TradeWrite ==
  ({"wallet", "key", "was", "replaced"} \X Wallet) \cup ({"token", "prompting"} \X {1, 2})
  \cup ({"prompt"} \X ({1, 2} \cup {None})) \cup ({"mode"} \X TradeMode)
TradeOrder ==
  [wallet : Wallet, were : SUBSET Wallet, token : {1, 2}, prompts : SUBSET ({1, 2} \cup {None}),
   mode : TradeMode, answer : BOOLEAN]

TradeTypes ==
  /\ forms \in Seq(TradeForm) /\ rows \in [Wallet -> TradeValue \cup {None}]
  /\ DOMAIN data = Keys /\ data["setting"] \in (1..Len(forms)) \cup {None}
  /\ data["wallet"] \in Wallet \cup {None} /\ data["token"] \in {1, 2} \cup {None}
  /\ \A k \in {"copytrade_settings", "monitor_settings", "monitor"} : data[k] = None
  /\ wallet \in Wallet /\ orders \in Seq(TradeOrder) /\ asked \in {1, 2} \cup {None}

\* The steps of a handler that works on nothing others work on.
Lightly == {"tell", "owner", "fetch", "token"}
Light(s) == \A i \in 1..Len(s) : s[i].do \in Lightly

Works(k) == k.todo # <<>> /\ k.on = "setting"

Has(k, name) == \E w \in k.write : w[1] = name

\* No import is to be finished and no prompt to be shown.
Unmarked(k) == ~Has(k, "replaced") /\ ~Has(k, "prompting")

Single(W) == \A w, x \in W : w[1] = "token" /\ x[1] = "token" => w[2] = x[2]

Shaped(k) ==
  /\ DOMAIN k = {"seen", "todo", "on", "form", "write"}
  /\ k.form \in (1..Len(forms)) \cup {None} /\ k.write \subseteq TradeWrite
  /\ Single(k.write)
  /\ k.on # "setting" => Light(k.todo) /\ Unmarked(k)

Typed(k, K) ==
  /\ "form" \in K => k.form # None
  /\ "wallet" \in K => Has(k, "wallet")
  /\ "mode" \in K => Has(k, "mode")
  /\ "answer" \in K => Has(k, "prompt")
  /\ "kept" \in K => ~Has(k, "replaced")
  /\ "asked" \in K => ~Has(k, "prompting")
  /\ "token" \in K => Has(k, "token") /\ k.on = "setting"
  /\ "key" \in K => Has(k, "key")

Saved(f) == forms[f].row = wallet /\ forms[f].value = rows[wallet]

DataSaved == data["setting"] # None => Saved(data["setting"])
WalletKept == data["wallet"] # None => data["wallet"] = wallet

AskedSame == data["token"] # None => data["token"] = asked
SettledNow == DataSaved /\ WalletKept /\ AskedSame

Means(k, K) ==
  /\ "saved" \in K => k.form # None /\ Saved(k.form)
  /\ "wallet" \in K => \A w \in k.write : w[1] = "wallet" => w[2] = wallet
  /\ "mode" \in K => \A w \in k.write : w[1] = "mode" => w[2] = Trade!Mode(rows[wallet])
  /\ "pair" \in K => /\ k.form # None /\ data["setting"] # None
                     /\ forms[k.form] = forms[data["setting"]] /\ forms[k.form].row = wallet
  /\ "noted" \in K => \A w \in k.write : w[1] = "token" => w[2] = data["token"]
  /\ "answer" \in K => \A w \in k.write : w[1] = "token" => w[2] = asked
  /\ "data" \in K => DataSaved
  /\ "kept" \in K => WalletKept
  /\ "asked" \in K => AskedSame

Prepared(k) ==
  \E K \in SUBSET Facts :
    /\ Sure(k.todo, K, Settled) /\ Typed(k, K)
    /\ ~clash /\ Works(k) => Means(k, K)

TradeIInv ==
  /\ TradeTypes /\ clash \in BOOLEAN
  /\ calls = [c \in Slot |-> calls[c]]
  /\ \A c \in Slot : Shaped(calls[c]) /\ Prepared(calls[c])
  /\ ~clash => /\ \A c, d \in Slot : Works(calls[c]) /\ Works(calls[d]) => c = d
               /\ (\A c \in Slot : ~Works(calls[c])) => SettledNow

\* What a step that works on nothing others work on leaves alone.
Calm ==
  /\ rows' = rows /\ wallet' = wallet /\ asked' = asked
  /\ data'["setting"] = data["setting"] /\ data'["wallet"] = data["wallet"]
  /\ data'["token"] = data["token"]
  /\ \A i \in 1..Len(forms) : forms'[i] = forms[i]

ByItself(c) == \A d \in Slot : Works(calls[d]) => d = c

LEMMA CalmMeans ==
  ASSUME TradeTypes, Calm, NEW k, Shaped(k), NEW K, Means(k, K) PROVE Means(k, K)'
<1>1. k.form # None => forms'[k.form] = forms[k.form]
  BY DEF Calm, Shaped
<1>2. data["setting"] # None => forms'[data["setting"]] = forms[data["setting"]]
  BY DEF Calm, TradeTypes
<1>3. /\ data'["setting"] = data["setting"] /\ data'["wallet"] = data["wallet"]
      /\ data'["token"] = data["token"] /\ rows' = rows /\ wallet' = wallet /\ asked' = asked
  BY DEF Calm
<1>4. DataSaved => DataSaved'
  BY <1>2, <1>3 DEF DataSaved, Saved
<1>5. (AskedSame => AskedSame') /\ (WalletKept => WalletKept')
  BY <1>3 DEF AskedSame, WalletKept
<1>6. k.form # None /\ Saved(k.form) => Saved(k.form)'
  BY <1>1, <1>3 DEF Saved
<1> HIDE DEF Saved, DataSaved, WalletKept, AskedSame
<1> QED
  BY <1>1, <1>2, <1>3, <1>4, <1>5, <1>6 DEF Means

LEMMA CalmSettled ==
  ASSUME TradeTypes, Calm PROVE SettledNow => SettledNow'
<1>1. data["setting"] # None => forms'[data["setting"]] = forms[data["setting"]]
  BY DEF Calm, TradeTypes
<1> QED
  BY <1>1 DEF Calm, SettledNow, DataSaved, Saved, WalletKept, AskedSame

\* One call becomes k.  Either nothing the others rely on changes and it does not work on
\* the setting, or no other call does.
LEMMA TradeMoves ==
  ASSUME TradeIInv, NEW c \in Slot, NEW k, calls' = [calls EXCEPT ![c] = k],
         TradeTypes', clash' \in BOOLEAN, clash => clash', Len(forms') >= Len(forms),
         Shaped(k)', NEW K \in SUBSET Facts, Sure(k.todo, K, Settled), Typed(k, K),
         \/ clash'
         \/ Calm /\ ~Works(calls[c]) /\ ~Works(k)
         \/ /\ ByItself(c)
            /\ Works(k) => Means(k, K)'
            /\ ~Works(k) => SettledNow'
  PROVE  TradeIInv'
<1>1. calls' = [d \in Slot |-> calls'[d]] /\ calls'[c] = k
      /\ \A d \in Slot : d # c => calls'[d] = calls[d]
  BY DEF TradeIInv
<1>2. ASSUME NEW d \in Slot PROVE Shaped(calls[d])'
  <2>1. PICK m : m = calls[d]
    OBVIOUS
  <2>2. Shaped(m)
    BY <2>1 DEF TradeIInv
  <2>3. (1..Len(forms)) \subseteq (1..Len(forms'))
    <3>1. Len(forms) \in Nat /\ Len(forms') \in Nat
      BY DEF TradeIInv, TradeTypes
    <3> QED
      BY <3>1
  <2>4. Shaped(m)'
    BY <2>2, <2>3 DEF Shaped
  <2>5. CASE d = c
    BY <1>1, <2>5 DEF Shaped
  <2>6. CASE d # c
    <3>1. calls'[d] = m
      BY <1>1, <2>1, <2>6
    <3> QED
      BY <2>4, <3>1 DEF Shaped
  <2> QED
    BY <2>5, <2>6
<1>3. ASSUME NEW d \in Slot PROVE Prepared(calls[d])'
  <2>1. CASE d = c
    <3>1. ~clash' /\ Works(k) => Means(k, K)'
      OBVIOUS
    <3>2. Prepared(k)'
      BY <3>1 DEF Prepared, Works, Typed, Has
    <3>3. calls'[d] = k
      BY <1>1, <2>1
    <3> QED
      BY <3>2, <3>3 DEF Prepared, Works, Typed, Has, Means
  <2>2. CASE d # c
    <3>1. PICK m : m = calls[d]
      OBVIOUS
    <3>2. Shaped(m) /\ Prepared(m) /\ TradeTypes
      BY <3>1 DEF TradeIInv
    <3>3. PICK M \in SUBSET Facts : /\ Sure(m.todo, M, Settled) /\ Typed(m, M)
                                    /\ ~clash /\ Works(m) => Means(m, M)
      BY <3>2 DEF Prepared
    <3>4. ASSUME ~clash', Works(m) PROVE Means(m, M)'
      <4>1. ~ByItself(c)
        BY <2>2, <3>1, <3>4 DEF ByItself
      <4>2. Calm
        BY <3>4, <4>1
      <4> QED
        BY <3>2, <3>3, <3>4, <4>2, CalmMeans
    <3>5. Prepared(m)'
      BY <3>3, <3>4 DEF Prepared, Works, Typed, Has
    <3>6. calls'[d] = m
      BY <1>1, <2>2, <3>1
    <3> QED
      BY <3>5, <3>6 DEF Prepared, Works, Typed, Has, Means
  <2> QED
    BY <2>1, <2>2
<1>4. ASSUME ~clash', NEW a \in Slot, NEW d \in Slot, Works(calls[a])', Works(calls[d])'
      PROVE  a = d
  <2>1. PICK x, y : x = calls'[a] /\ y = calls'[d]
    OBVIOUS
  <2>2. Works(x) /\ Works(y)
    BY <1>4, <2>1 DEF Works
  <2>3. (a = c \/ x = calls[a]) /\ (d = c \/ y = calls[d]) /\ (a = c => x = k) /\ (d = c => y = k)
    BY <1>1, <2>1
  <2>4. CASE Calm /\ ~Works(calls[c]) /\ ~Works(k)
    <3>1. Works(calls[a]) /\ Works(calls[d])
      BY <2>2, <2>3, <2>4
    <3> QED
      BY <1>4, <3>1 DEF TradeIInv
  <2>5. CASE ByItself(c)
    BY <2>2, <2>3, <2>5 DEF ByItself
  <2> QED
    BY <1>4, <2>4, <2>5
<1>5. ASSUME ~clash', \A d \in Slot : ~Works(calls[d])' PROVE SettledNow'
  <2>1. ~Works(k)
    <3>1. ~Works(calls[c])'
      BY <1>5
    <3> QED
      BY <1>1, <3>1 DEF Works
  <2>2. CASE Calm /\ ~Works(calls[c]) /\ ~Works(k)
    <3>1. \A d \in Slot : ~Works(calls[d])
      <4> SUFFICES ASSUME NEW d \in Slot PROVE ~Works(calls[d])
        OBVIOUS
      <4>1. ~Works(calls[d])'
        BY <1>5
      <4>2. CASE d = c
        BY <2>2, <4>2
      <4>3. CASE d # c
        BY <1>1, <4>1, <4>3 DEF Works
      <4> QED
        BY <4>2, <4>3
    <3>2. SettledNow /\ TradeTypes
      BY <1>5, <3>1 DEF TradeIInv
    <3> QED
      BY <2>2, <3>2, CalmSettled
  <2> QED
    BY <1>5, <2>1, <2>2
<1> QED
  BY <1>1, <1>2, <1>3, <1>4, <1>5 DEF TradeIInv

\* The call of a running handler is ready for the next of its steps.
LEMMA NextStep ==
  ASSUME TradeIInv, NEW c \in Slot, Running(c)
  PROVE  \E K \in SUBSET Facts, M \in SUBSET Facts :
           /\ Head(calls[c].todo).do \in TradeDo /\ Needs(Head(calls[c].todo).do) \subseteq K
           /\ M \subseteq After(K, Head(calls[c].todo).do)
           /\ Sure(Tail(calls[c].todo), M, Settled) /\ Typed(calls[c], K)
           /\ ~clash /\ Works(calls[c]) => Means(calls[c], K)
<1>1. PICK K \in SUBSET Facts : /\ Sure(calls[c].todo, K, Settled) /\ Typed(calls[c], K)
                                /\ ~clash /\ Works(calls[c]) => Means(calls[c], K)
  BY DEF TradeIInv, Prepared
<1>2. calls[c].todo # <<>>
  BY DEF Running
<1>3. /\ Head(calls[c].todo).do \in TradeDo /\ Needs(Head(calls[c].todo).do) \subseteq K
      /\ \E M \in SUBSET Facts : M \subseteq After(K, Head(calls[c].todo).do)
                                 /\ Sure(Tail(calls[c].todo), M, Settled)
  BY <1>1, <1>2, SureFirst
<1> QED
  BY <1>1, <1>3

\* A handler that does not work on the setting takes light steps only.
LEMMA OthersLight ==
  ASSUME TradeIInv, NEW c \in Slot, Running(c), ~Works(calls[c])
  PROVE  Head(calls[c].todo).do \in Lightly /\ calls[c].on # "setting"
<1>1. calls[c].todo # <<>> /\ calls[c].on # "setting"
  BY DEF Running, Works
<1>2. Light(calls[c].todo)
  BY <1>1 DEF TradeIInv, Shaped
<1>3. calls[c].todo \in Seq(TradeStepOf)
  BY DEF TradeIInv, Prepared, Sure
<1> QED
  BY <1>1, <1>2, <1>3 DEF Light

LEMMA TradeIdle ==
  /\ Trade!Idle = Idle /\ Shaped(Idle)' /\ ~Works(Idle) /\ Idle.todo = <<>>
  /\ Idle.write = {} /\ Typed(Idle, Settled) /\ Sure(Idle.todo, Settled, Settled)
<1>1. PICK k : k = Idle
  OBVIOUS
<1>2. /\ DOMAIN k = {"seen", "todo", "on", "form", "write"}
      /\ k.todo = <<>> /\ k.on = "" /\ k.form = None /\ k.write = {}
  BY <1>1 DEF Idle
<1>3. Light(k.todo) /\ Sure(k.todo, Settled, Settled)
  <2>1. Light(<<>>) /\ Sure(<<>>, Settled, Settled)
    BY FactSets, SureNone DEF Light
  <2> QED
    BY <1>2, <2>1
<1>4. Shaped(k)' /\ ~Works(k) /\ Typed(k, Settled)
  BY <1>2, <1>3 DEF Shaped, Single, Unmarked, Has, Works, Typed, Settled, Light
<1>5. Trade!Idle = Idle
  BY DEF Trade!Idle, Idle
<1> QED
  BY <1>1, <1>2, <1>3, <1>4, <1>5

\* A handler that ends leaves the data as it is saved.
LEMMA TradeStops ==
  ASSUME TradeIInv, NEW c \in Slot, Running(c), NEW k, calls' = [calls EXCEPT ![c] = k],
         TradeTypes', clash' = clash, Len(forms') >= Len(forms),
         Shaped(k)', k.todo = <<>>, k.write = {},
         NEW d, d = Head(calls[c].todo).do, d \notin Lightly \/ Calm,
         \A K \in SUBSET Facts : ~clash /\ Needs(d) \subseteq K /\ Typed(calls[c], K) /\ Means(calls[c], K)
                                   => SettledNow'
  PROVE  TradeIInv'
<1>1. PICK K \in SUBSET Facts : /\ Needs(d) \subseteq K /\ Typed(calls[c], K)
                                /\ ~clash /\ Works(calls[c]) => Means(calls[c], K)
  BY NextStep
<1>2. Sure(k.todo, Settled, Settled) /\ Typed(k, Settled) /\ ~Works(k) /\ Settled \in SUBSET Facts
  BY FactSets, SureNone DEF Typed, Settled, Works, Has
<1>3. clash' \in BOOLEAN /\ (clash => clash')
  BY DEF TradeIInv
<1>4. CASE Works(calls[c])
  <2>1. ~clash => ByItself(c)
    BY <1>4 DEF TradeIInv, ByItself
  <2>2. ~clash => SettledNow'
    BY <1>1, <1>4
  <2> QED
    BY <1>2, <1>3, <2>1, <2>2, TradeMoves
<1>5. CASE ~Works(calls[c])
  <2>1. Calm
    BY <1>5, OthersLight
  <2> QED
    BY <1>2, <1>3, <1>5, <2>1, TradeMoves
<1> QED
  BY <1>4, <1>5

\* What a step d of the call o, m afterwards, has to keep and to give.
KeepsTypes(o, m, d) ==
  \A K, M \in SUBSET Facts :
    Needs(d) \subseteq K /\ M \subseteq After(K, d) /\ Typed(o, K) => Typed(m, M)

KeepsMeaning(o, m, d) ==
  \A K, M \in SUBSET Facts :
    ~clash /\ Needs(d) \subseteq K /\ M \subseteq After(K, d) /\ Typed(o, K) /\ Means(o, K) => Means(m, M)'

\* A handler goes on: what its step gives is true afterwards.
LEMMA TradeGoesOn ==
  ASSUME TradeIInv, NEW c \in Slot, Running(c), NEW k, calls' = [calls EXCEPT ![c] = k],
         TradeTypes', clash' = clash, Len(forms') >= Len(forms),
         NEW m, Shaped(m)', m.todo = Tail(calls[c].todo), m.on = calls[c].on,
         k = m \/ (m.todo = <<>> /\ k = Idle),
         NEW d, d = Head(calls[c].todo).do, d \notin Lightly \/ Calm,
         NEW o, o = calls[c], KeepsTypes(o, m, d), KeepsMeaning(o, m, d)
  PROVE  TradeIInv'
<1>1. PICK K \in SUBSET Facts, M \in SUBSET Facts :
        /\ Needs(d) \subseteq K /\ M \subseteq After(K, d)
        /\ Sure(m.todo, M, Settled) /\ Typed(calls[c], K)
        /\ ~clash /\ Works(calls[c]) => Means(calls[c], K)
  BY NextStep
<1>2. Typed(m, M)
  BY <1>1 DEF KeepsTypes
<1>3. ~clash /\ Works(calls[c]) => Means(m, M)'
  BY <1>1 DEF KeepsMeaning
<1>4. m.todo = <<>> => Settled \subseteq M
  BY <1>1, SureEnd
<1>5. ~clash /\ Works(calls[c]) /\ m.todo = <<>> => SettledNow'
  BY <1>3, <1>4 DEF Means, Settled, SettledNow
<1>6. clash' \in BOOLEAN /\ (clash => clash')
  BY DEF TradeIInv
<1>7. Works(calls[c]) /\ ~clash => ByItself(c)
  BY DEF TradeIInv, ByItself
<1>8. ~Works(calls[c]) => Calm /\ ~Works(m)
  BY OthersLight DEF Works
<1>9. m.todo # <<>> /\ Works(calls[c]) => Works(m)
  BY DEF Works
<1>10. m.todo = <<>> => ~Works(m)
  BY DEF Works
<1>11. CASE k = m
  <2>1. \/ clash'
        \/ Calm /\ ~Works(calls[c]) /\ ~Works(k)
        \/ /\ ByItself(c)
           /\ Works(k) => Means(k, M)'
           /\ ~Works(k) => SettledNow'
    BY <1>3, <1>5, <1>7, <1>8, <1>9, <1>11
  <2> QED
    BY <1>1, <1>2, <1>6, <1>11, <2>1, TradeMoves
<1>12. CASE k = Idle /\ m.todo = <<>>
  <2>1. Shaped(k)' /\ Sure(k.todo, Settled, Settled) /\ Typed(k, Settled) /\ ~Works(k)
        /\ Settled \in SUBSET Facts
    BY <1>12, TradeIdle, FactSets
  <2>2. \/ clash'
        \/ Calm /\ ~Works(calls[c]) /\ ~Works(k)
        \/ /\ ByItself(c)
           /\ Works(k) => Means(k, Settled)'
           /\ ~Works(k) => SettledNow'
    BY <1>5, <1>7, <1>8, <1>12, <2>1
  <2> QED
    BY <1>6, <2>1, <2>2, TradeMoves
<1> QED
  BY <1>11, <1>12

\* A handler that works on nothing others work on starts.
LEMMA TradeStartsLight ==
  ASSUME TradeIInv, NEW c \in Slot, ~Works(calls[c]), NEW k, calls' = [calls EXCEPT ![c] = k],
         TradeTypes', clash' \in BOOLEAN, clash => clash', Len(forms') >= Len(forms), Shaped(k)',
         k.on # "setting", k.write = {}, Sure(k.todo, Settled, Settled), Calm
  PROVE  TradeIInv'
<1>1. Settled \in SUBSET Facts /\ Typed(k, Settled) /\ ~Works(k)
  BY FactSets DEF Typed, Settled, Works, Has
<1> QED
  BY <1>1, TradeMoves

\* A handler that works on the setting starts.  Without a clash nobody else does.
LEMMA TradeStarts ==
  ASSUME TradeIInv, NEW c \in Slot, NEW k, calls' = [calls EXCEPT ![c] = k],
         TradeTypes', clash' \in BOOLEAN, clash \/ Meets("setting") => clash',
         Len(forms') >= Len(forms), Shaped(k)', k.on = "setting",
         NEW K \in SUBSET Facts, Sure(k.todo, K, Settled), Typed(k, K),
         ~clash /\ SettledNow => Means(k, K)'
  PROVE  TradeIInv'
<1>1. ASSUME ~clash' PROVE \A d \in Slot : ~Works(calls[d])
  <2>1. ~clash /\ ~Meets("setting")
    BY <1>1
  <2>2. ASSUME NEW d \in Slot, Works(calls[d]) PROVE Meets("setting")
    BY <2>2 DEF Works, Meets, Running
  <2> QED
    BY <2>1, <2>2
<1>2. ASSUME ~clash' PROVE ByItself(c) /\ Means(k, K)'
  <2>1. ~clash /\ SettledNow
    BY <1>1, <1>2 DEF TradeIInv
  <2> QED
    BY <1>1, <1>2, <2>1 DEF ByItself
<1>3. ASSUME ~Works(k), ~clash' PROVE SettledNow'
  <2>1. k.todo = <<>>
    BY <1>3 DEF Works
  <2>2. Settled \subseteq K
    BY <2>1, SureEnd
  <2> QED
    BY <1>2, <1>3, <2>2 DEF Means, Settled, SettledNow
<1> QED
  BY <1>2, <1>3, TradeMoves

-----------------------------------------------------------------------------
(* The steps of running trade handlers. *)

LEMMA TailLight ==
  ASSUME NEW s \in Seq(TradeStepOf), s # <<>>, Light(s) PROVE Light(Tail(s))
<1>1. PICK n : n = Len(s) /\ n \in Nat \ {0}
  <2>1. Len(s) \in Nat /\ (Len(s) = 0 => s = <<>>)
    OBVIOUS
  <2> QED
    BY <2>1
<1>2. PICK t : t = Tail(s)
  OBVIOUS
<1>3. Len(t) = n - 1 /\ \A i \in 1..(n - 1) : t[i] = s[i + 1]
  BY <1>1, <1>2
<1>4. \A i \in 1..(n - 1) : i + 1 \in 1..n
  BY <1>1
<1> QED
  BY <1>1, <1>2, <1>3, <1>4 DEF Light

LEMMA LongerForms ==
  ASSUME TradeTypes, TradeTypes', Len(forms') >= Len(forms)
  PROVE  1..Len(forms) \subseteq 1..Len(forms')
<1>1. Len(forms) \in Nat /\ Len(forms') \in Nat
  BY DEF TradeTypes
<1> QED
  BY <1>1

\* The step leaves the call's object and what it carries alone.
LEMMA GoesKeeps ==
  ASSUME TradeIInv, NEW c \in Slot, Running(c), Goes(c) \/ Trade!Goes(c),
         TradeTypes', clash' = clash, Len(forms') >= Len(forms),
         NEW o, o = calls[c], NEW d, d = Head(o.todo).do, d \notin Lightly \/ Calm,
         KeepsTypes(o, o, d), KeepsMeaning(o, o, d)
  PROVE  TradeIInv'
<1>1. /\ DOMAIN o = {"seen", "todo", "on", "form", "write"} /\ o.todo # <<>>
      /\ o.form \in (1..Len(forms)) \cup {None} /\ o.write \subseteq TradeWrite
      /\ o.on # "setting" => Light(o.todo) /\ Unmarked(o)
      /\ Single(o.write) /\ o.todo \in Seq(TradeStepOf)
  BY DEF TradeIInv, Shaped, Prepared, Sure, Running
<1>2. PICK m : m = [o EXCEPT !.todo = Tail(o.todo)]
  OBVIOUS
<1>3. /\ DOMAIN m = {"seen", "todo", "on", "form", "write"} /\ m.todo = Tail(o.todo)
      /\ m.on = o.on /\ m.form = o.form /\ m.write = o.write
  BY <1>1, <1>2
<1>4. Shaped(m)'
  <2>1. m.form \in (1..Len(forms')) \cup {None}
    BY <1>1, <1>3, LongerForms DEF TradeIInv
  <2>2. m.on # "setting" => Light(m.todo) /\ Unmarked(m)
    BY <1>1, <1>3, TailLight DEF Unmarked, Has
  <2> QED
    BY <1>1, <1>3, <2>1, <2>2 DEF Shaped, Light, Single, Unmarked, Has
<1>5. PICK k : k = IF m.todo = <<>> THEN Idle ELSE m
  OBVIOUS
<1>6. calls' = [calls EXCEPT ![c] = k]
  <2>1. CASE Goes(c)
    BY <2>1, <1>2, <1>3, <1>5 DEF Goes, TradeIInv
  <2>2. CASE Trade!Goes(c)
    BY <2>2, <1>2, <1>3, <1>5, TradeIdle DEF Trade!Goes, TradeIInv
  <2> QED
    BY <2>1, <2>2
<1>7. \A K : Typed(o, K) => Typed(m, K)
  BY <1>3 DEF Typed, Has
<1>8. \A K : Means(o, K)' => Means(m, K)'
  BY <1>3 DEF Means
<1>9. KeepsTypes(o, m, d)
  BY <1>7 DEF KeepsTypes
<1>10. KeepsMeaning(o, m, d)
  BY <1>8 DEF KeepsMeaning
<1>11. m.todo = Tail(calls[c].todo) /\ m.on = calls[c].on /\ d = Head(calls[c].todo).do
       /\ (k = m \/ (m.todo = <<>> /\ k = Idle))
  BY <1>3, <1>5
<1> QED
  BY <1>4, <1>6, <1>9, <1>10, <1>11, TradeGoesOn

LEMMA Unmoved ==
  ASSUME TradeTypes, UNCHANGED <<data, forms, rows, wallet, asked>>
  PROVE  Calm /\ Len(forms') >= Len(forms) /\ (orders' = orders => TradeTypes')
<1>1. Len(forms) \in Nat
  BY DEF TradeTypes
<1> QED
  BY <1>1 DEF Calm, TradeTypes

LEMMA TradeMessage ==
  ASSUME TradeIInv, NEW c \in Slot, Message(c), UNCHANGED tradeVars PROVE TradeIInv'
<1>1. TradeTypes /\ UNCHANGED <<data, forms, rows, wallet, asked, orders, clash>> /\ Running(c) /\ Goes(c)
  BY DEF TradeIInv, Message, tradeVars, At
<1>2. PICK o, d : o = calls[c] /\ d = Head(o.todo).do
  OBVIOUS
<1>3. d = "tell"
  <2>1. d \in {"tell", "tidy"} /\ d \in TradeDo
    BY <1>1, <1>2, NextStep DEF Message, At
  <2> QED
    BY <2>1 DEF TradeDo
<1>4. Calm /\ Len(forms') >= Len(forms) /\ TradeTypes'
  BY <1>1, Unmoved
<1>5. Needs(d) = {} /\ \A K : After(K, d) = K
  BY <1>3 DEF Needs, After, Kills, Gives
<1>6. \A K, M : M \subseteq K /\ Typed(o, K) => Typed(o, M)
  BY DEF Typed
<1>7. \A K, M : M \subseteq K /\ Means(o, K) => Means(o, M)
  BY DEF Means
<1>8. Shaped(o)
  BY <1>2 DEF TradeIInv
<1>9. \A K : Means(o, K) => Means(o, K)'
  BY <1>1, <1>4, <1>8, CalmMeans
<1>10. KeepsTypes(o, o, d)
  BY <1>5, <1>6 DEF KeepsTypes
<1>11. KeepsMeaning(o, o, d)
  BY <1>5, <1>7, <1>9 DEF KeepsMeaning
<1> QED
  BY <1>1, <1>2, <1>4, <1>10, <1>11, GoesKeeps

LEMMA TradeFail ==
  ASSUME TradeIInv, NEW c \in Slot, Fail(c), UNCHANGED tradeVars PROVE TradeIInv'
<1>1. TradeTypes /\ UNCHANGED <<data, forms, rows, wallet, asked, orders>> /\ Running(c) /\ clash' = TRUE
  BY DEF TradeIInv, Fail, tradeVars
<1>2. Head(calls[c].todo).do \in TradeDo
  BY <1>1, NextStep
<1>3. ~(At(c, "readAll") \/ At(c, "commit"))
  BY <1>2 DEF At, TradeDo
<1>4. calls' = [calls EXCEPT ![c] = Idle]
  BY <1>3 DEF Fail, TradeIInv
<1>5. Calm /\ Len(forms') >= Len(forms) /\ TradeTypes'
  BY <1>1, Unmoved
<1> QED
  BY <1>1, <1>4, <1>5, TradeIdle, TradeMoves, FactSets

LEMMA TradeReceive ==
  ASSUME TradeIInv, NEW c \in Slot, Receive(c), UNCHANGED tradeVars PROVE TradeIInv'
<1>1. TradeTypes /\ UNCHANGED <<data, forms, rows, wallet, asked, orders, clash>> /\ calls[c] = Idle
  BY DEF TradeIInv, Receive, tradeVars
<1>2. PICK k : k = [Idle EXCEPT !.seen = fsm]
  OBVIOUS
<1>3. Shaped(k)' /\ k.on # "setting" /\ k.write = {} /\ Sure(k.todo, Settled, Settled)
  <2>1. /\ DOMAIN k = {"seen", "todo", "on", "form", "write"}
        /\ k.todo = <<>> /\ k.on = "" /\ k.form = None /\ k.write = {}
    BY <1>2 DEF Idle
  <2>2. Light(k.todo) /\ Sure(k.todo, Settled, Settled)
    <3>1. Light(<<>>) /\ Sure(<<>>, Settled, Settled)
      BY FactSets, SureNone DEF Light
    <3> QED
      BY <2>1, <3>1
  <2>3. Shaped(k)'
    BY <2>1, <2>2 DEF Shaped, Single, Unmarked, Has
  <2> QED
    BY <2>1, <2>2, <2>3
<1>4. calls' = [calls EXCEPT ![c] = k]
  BY <1>1, <1>2 DEF Receive
<1>5. Calm /\ Len(forms') >= Len(forms) /\ TradeTypes'
  BY <1>1, Unmoved
<1>6. clash \in BOOLEAN
  BY DEF TradeIInv
<1> QED
  BY <1>1, <1>3, <1>4, <1>5, <1>6, TradeIdle, TradeStartsLight

LEMMA NoTableStep ==
  ASSUME TradeIInv, NEW c \in Slot PROVE ~TableStep(c)
<1>1. ASSUME Running(c) PROVE Head(calls[c].todo).do \in TradeDo
  BY <1>1, NextStep
<1> QED
  BY <1>1 DEF TableStep, Read, Commit, Insert, Delete, ReadAll, At, TradeDo

LEMMA CarriedIs ==
  ASSUME NEW c \in Slot, NEW name, Has(calls[c], name)
  PROVE  Trade!Carried(c, name) \in calls[c].write /\ Trade!Carried(c, name)[1] = name
BY DEF Has, Trade!Carried

LEMMA CarriedFits ==
  ASSUME TradeIInv, NEW c \in Slot
  PROVE  /\ Has(calls[c], "wallet") => Trade!Carried(c, "wallet")[2] \in Wallet
         /\ Has(calls[c], "key") => Trade!Carried(c, "key")[2] \in Wallet
         /\ Has(calls[c], "token") => Trade!Carried(c, "token")[2] \in {1, 2}
         /\ Has(calls[c], "mode") => Trade!Carried(c, "mode")[2] \in TradeMode
<1>1. calls[c].write \subseteq TradeWrite
  BY DEF TradeIInv, Shaped
<1>2. ASSUME NEW w \in TradeWrite
      PROVE  /\ w[1] \in {"wallet", "key"} => w[2] \in Wallet
             /\ w[1] = "token" => w[2] \in {1, 2}
             /\ w[1] = "mode" => w[2] \in TradeMode
  BY DEF TradeWrite
<1> QED
  BY <1>1, <1>2, CarriedIs

\* What NextStep says, by the name of the step.
LEMMA StepReady ==
  ASSUME TradeIInv, NEW c \in Slot, Running(c), NEW o, o = calls[c], NEW d, d = Head(o.todo).do
  PROVE  \E K \in SUBSET Facts :
           /\ Needs(d) \subseteq K /\ Typed(o, K)
           /\ ~clash /\ Works(o) => Means(o, K)
BY NextStep

LEMMA TradeToken ==
  ASSUME TradeIInv, NEW c \in Slot, Trade!Token(c) PROVE TradeIInv'
<1>1. TradeTypes /\ UNCHANGED <<data, forms, rows, wallet, asked, orders, clash>> /\ Running(c)
      /\ (Trade!Goes(c) \/ calls' = [calls EXCEPT ![c] = Idle])
  BY TradeIdle DEF TradeIInv, Trade!Token, Trade!tradeVars, Trade!At, Trade!Running, Running, Trade!Ends
<1>2. PICK o, d : o = calls[c] /\ d = Head(o.todo).do
  OBVIOUS
<1>3. d = "token"
  BY <1>2 DEF Trade!Token, Trade!At
<1>4. Calm /\ Len(forms') >= Len(forms) /\ TradeTypes'
  BY <1>1, Unmoved
<1>5. Needs(d) = {"data", "kept", "asked"} /\ \A K : After(K, d) = K
  BY <1>3 DEF Needs, After, Kills, Gives
<1>6. Shaped(o)
  BY <1>2 DEF TradeIInv
<1>7. \A K : Means(o, K) => Means(o, K)'
  BY <1>1, <1>4, <1>6, CalmMeans
<1>8. CASE Trade!Goes(c)
  <2>1. KeepsTypes(o, o, d)
    BY <1>5 DEF KeepsTypes, Typed
  <2>2. \A K, M : M \subseteq K /\ Means(o, K) => Means(o, M)
    BY DEF Means
  <2>3. KeepsMeaning(o, o, d)
    BY <1>5, <1>7, <2>2 DEF KeepsMeaning
  <2> QED
    BY <1>1, <1>2, <1>4, <1>8, <2>1, <2>3, GoesKeeps
<1>9. CASE calls' = [calls EXCEPT ![c] = Idle]
  <2>1. ASSUME NEW K \in SUBSET Facts, Needs(d) \subseteq K, Means(o, K)
        PROVE  SettledNow'
    <3>1. SettledNow
      BY <1>5, <2>1 DEF Means, SettledNow
    <3> QED
      BY <1>1, <1>4, <3>1, CalmSettled
  <2> QED
    BY <1>1, <1>2, <1>4, <1>9, <2>1, TradeIdle, TradeStops
<1> QED
  BY <1>1, <1>8, <1>9

LEMMA TradeOwner ==
  ASSUME TradeIInv, NEW c \in Slot, Trade!Owner(c) PROVE TradeIInv'
<1>1. TradeTypes /\ UNCHANGED <<data, forms, rows, wallet, asked, orders, clash>> /\ Running(c)
  BY DEF TradeIInv, Trade!Owner, Trade!tradeVars, Trade!At, Trade!Running, Running
<1>2. PICK o, d : o = calls[c] /\ d = Head(o.todo).do
  OBVIOUS
<1>3. d = "owner"
  BY <1>2 DEF Trade!Owner, Trade!At
<1>4. Calm /\ Len(forms') >= Len(forms) /\ TradeTypes'
  BY <1>1, Unmoved
<1>5. PICK W, p, q : /\ p = <<"wallet", wallet>> /\ q = <<"was", wallet>>
                     /\ W = {w \in o.write : w[1] # "wallet"} \cup {p} \cup {q}
  OBVIOUS
<1>20. p[1] = "wallet" /\ p[2] = wallet /\ q[1] = "was" /\ q[2] = wallet
  BY <1>5
<1>6. PICK m : m = [o EXCEPT !.todo = Tail(o.todo), !.write = W]
  OBVIOUS
<1>7. /\ DOMAIN o = {"seen", "todo", "on", "form", "write"} /\ o.todo # <<>>
      /\ o.form \in (1..Len(forms)) \cup {None} /\ o.write \subseteq TradeWrite
      /\ o.on # "setting" => Light(o.todo) /\ Unmarked(o)
      /\ o.todo \in Seq(TradeStepOf) /\ Shaped(o)
  BY <1>1, <1>2 DEF TradeIInv, Shaped, Prepared, Sure, Running
<1>8. /\ DOMAIN m = {"seen", "todo", "on", "form", "write"} /\ m.todo = Tail(o.todo)
      /\ m.on = o.on /\ m.form = o.form /\ m.write = W
  BY <1>6, <1>7
<1>9. calls' = [calls EXCEPT ![c] = m]
  BY <1>2, <1>5, <1>6 DEF Trade!Owner, Trade!Carry, TradeIInv
<1>10. W \subseteq TradeWrite
  <2>1. wallet \in Wallet
    BY <1>1 DEF TradeTypes
  <2>2. p \in TradeWrite /\ q \in TradeWrite
    BY <1>5, <2>1 DEF TradeWrite
  <2> QED
    BY <1>5, <1>7, <2>2
<1>21. \A w \in W : (w \in o.write /\ w[1] # "wallet") \/ w = p \/ w = q
  BY <1>5
<1>19. Single(W)
  BY <1>7, <1>20, <1>21 DEF Shaped, Single
<1>12. /\ Has(m, "wallet") /\ (\A w \in W : w[1] = "wallet" => w[2] = wallet)
       /\ \A w \in o.write : w[1] # "wallet" => w \in W
       /\ \A w \in W : w[1] \notin {"wallet", "was"} => w \in o.write
  <2>1. p \in W /\ \A w \in o.write : w[1] # "wallet" => w \in W
    BY <1>5
  <2> QED
    BY <1>8, <1>20, <1>21, <2>1 DEF Has
<1>13. /\ Has(o, "token") => Has(m, "token")
       /\ Has(o, "key") => Has(m, "key")
       /\ Has(o, "mode") => Has(m, "mode")
       /\ Has(o, "prompt") => Has(m, "prompt")
       /\ Has(m, "replaced") => Has(o, "replaced")
       /\ Has(m, "prompting") => Has(o, "prompting")
  BY <1>8, <1>12 DEF Has
<1>11. Shaped(m)'
  <2>1. m.on # "setting" => Light(m.todo) /\ Unmarked(m)
    BY <1>7, <1>8, <1>13, TailLight DEF Unmarked
  <2> QED
    BY <1>1, <1>7, <1>8, <1>10, <1>19, <2>1 DEF Shaped, Light, Single, Unmarked, Has
<1>14. Needs(d) = {"data", "kept", "asked"} /\ \A K : After(K, d) = K \cup {"wallet"}
  BY <1>3 DEF Needs, After, Kills, Gives
<1>15. KeepsTypes(o, m, d)
  BY <1>8, <1>12, <1>13, <1>14 DEF KeepsTypes, Typed
<1>16. ASSUME NEW K, NEW M, M \subseteq K \cup {"wallet"}, Means(o, K) PROVE Means(m, M)
  BY <1>8, <1>12, <1>16 DEF Means
<1>17. ASSUME NEW K, NEW M, M \subseteq K \cup {"wallet"}, Means(o, K) PROVE Means(m, M)'
  <2>1. Shaped(m)
    BY <1>7, <1>8, <1>10, <1>13, <1>19, TailLight DEF Shaped, Unmarked
  <2> QED
    BY <1>1, <1>4, <1>16, <1>17, <2>1, CalmMeans
<1>18. KeepsMeaning(o, m, d)
  BY <1>14, <1>17 DEF KeepsMeaning
<1> QED
  BY <1>1, <1>2, <1>4, <1>8, <1>9, <1>11, <1>15, <1>18, TradeGoesOn

LEMMA TradeFetch ==
  ASSUME TradeIInv, NEW c \in Slot, Trade!Fetch(c) PROVE TradeIInv'
<1>1. TradeTypes /\ UNCHANGED <<data, rows, wallet, asked, orders, clash>> /\ Running(c)
  BY DEF TradeIInv, Trade!Fetch, Trade!tradeVars, Trade!At, Trade!Running, Running
<1>2. PICK o, d : o = calls[c] /\ d = Head(o.todo).do
  OBVIOUS
<1>3. d = "fetch"
  BY <1>2 DEF Trade!Fetch, Trade!At
<1>4. Needs(d) = {"wallet", "data", "kept", "asked"} /\ \A K : After(K, d) = (K \ {"pair"}) \cup {"form", "saved"}
  BY <1>3 DEF Needs, After, Kills, Gives
<1>5. PICK w : w = Trade!Carried(c, "wallet")[2]
  OBVIOUS
<1>6. Has(o, "wallet") /\ w \in Wallet
  <2>1. Has(o, "wallet")
    BY <1>1, <1>2, <1>4, StepReady DEF Typed
  <2> QED
    BY <1>2, <1>5, <2>1, CarriedFits
<1>7. ASSUME NEW K, "wallet" \in K, Means(o, K) PROVE w = wallet
  BY <1>2, <1>5, <1>6, <1>7, CarriedIs DEF Means
<1>8. Len(forms) \in Nat
  BY <1>1 DEF TradeTypes
<1>9. CASE rows[w] = None
  <2>1. forms' = forms /\ calls' = [calls EXCEPT ![c] = Idle]
    BY <1>5, <1>9, TradeIdle DEF Trade!Fetch, Trade!Ends
  <2>2. Calm /\ Len(forms') >= Len(forms) /\ TradeTypes'
    BY <1>1, <2>1, Unmoved
  <2>3. ASSUME NEW K \in SUBSET Facts, Needs(d) \subseteq K, Means(o, K)
        PROVE  SettledNow'
    <3>1. SettledNow
      BY <1>4, <2>3 DEF Means, SettledNow
    <3> QED
      BY <1>1, <2>2, <3>1, CalmSettled
  <2> QED
    BY <1>1, <1>2, <2>1, <2>2, <2>3, TradeIdle, TradeStops
<1>10. CASE rows[w] # None
  <2>1. PICK f : f = [row |-> w, value |-> rows[w]]
    OBVIOUS
  <2>2. f \in TradeForm /\ f.row = w /\ f.value = rows[w]
    BY <1>1, <1>6, <1>10, <2>1 DEF TradeTypes, TradeForm
  <2>3. forms' = Append(forms, f)
    BY <1>5, <1>10, <2>1 DEF Trade!Fetch
  <2>4. /\ forms' \in Seq(TradeForm) /\ Len(forms') = Len(forms) + 1
        /\ forms'[Len(forms) + 1] = f /\ \A i \in 1..Len(forms) : forms'[i] = forms[i]
    BY <1>1, <2>2, <2>3 DEF TradeTypes
  <2>5. 1..Len(forms) \subseteq 1..Len(forms') /\ Len(forms) + 1 \in 1..Len(forms')
        /\ Len(forms') >= Len(forms)
    BY <1>8, <2>4
  <2>6. Calm /\ TradeTypes'
    BY <1>1, <2>4, <2>5 DEF Calm, TradeTypes
  <2>7. PICK m : m = [o EXCEPT !.todo = Tail(o.todo), !.form = Len(forms) + 1]
    OBVIOUS
  <2>8. /\ DOMAIN o = {"seen", "todo", "on", "form", "write"} /\ o.todo # <<>>
        /\ o.form \in (1..Len(forms)) \cup {None} /\ o.write \subseteq TradeWrite
        /\ o.on # "setting" => Light(o.todo) /\ Unmarked(o)
        /\ o.todo \in Seq(TradeStepOf) /\ Shaped(o)
    BY <1>1, <1>2 DEF TradeIInv, Shaped, Prepared, Sure, Running
  <2>9. /\ DOMAIN m = {"seen", "todo", "on", "form", "write"} /\ m.todo = Tail(o.todo)
        /\ m.on = o.on /\ m.form = Len(forms) + 1 /\ m.write = o.write
    BY <2>7, <2>8
  <2>10. calls' = [calls EXCEPT ![c] = m]
    BY <1>2, <1>5, <1>10, <2>7 DEF Trade!Fetch, TradeIInv
  <2>11. Shaped(m)'
    <3>1. m.on # "setting" => Light(m.todo) /\ Unmarked(m)
      BY <2>8, <2>9, TailLight DEF Unmarked, Has
    <3> QED
      BY <2>5, <2>8, <2>9, <3>1 DEF Shaped, Light, Single, Unmarked, Has
  <2>12. m.form # None
    BY <1>8, <2>9, BotAssumption
  <2>13. KeepsTypes(o, m, d)
    BY <1>4, <2>9, <2>12 DEF KeepsTypes, Typed, Has
  <2>14. ASSUME NEW K, NEW M, "wallet" \in K, M \subseteq (K \ {"pair"}) \cup {"form", "saved"}, Means(o, K)
         PROVE  Means(m, M)'
    <3>1. Means(o, K)'
      BY <1>1, <2>6, <2>8, <2>14, CalmMeans
    <3>2. Saved(m.form)'
      BY <1>1, <1>7, <2>2, <2>4, <2>9, <2>14 DEF Saved
    <3> HIDE DEF Saved
    <3> QED
      BY <2>9, <2>12, <2>14, <3>1, <3>2 DEF Means
  <2>15. KeepsMeaning(o, m, d)
    BY <1>4, <2>14 DEF KeepsMeaning
  <2> QED
    BY <1>1, <1>2, <2>5, <2>6, <2>9, <2>10, <2>11, <2>13, <2>15, TradeGoesOn
<1> QED
  BY <1>9, <1>10

\* A running call as the steps of the calls that work on the setting find it.
LEMMA TradeRunning ==
  ASSUME TradeIInv, NEW c \in Slot, NEW d, Trade!At(c, d), NEW o, o = calls[c]
  PROVE  /\ Running(c) /\ d = Head(o.todo).do
         /\ TradeTypes /\ Shaped(o) /\ clash \in BOOLEAN /\ Len(forms) \in Nat
         /\ \E K \in SUBSET Facts : Needs(d) \subseteq K /\ Typed(o, K)
         /\ o.form # None => o.form \in 1..Len(forms) /\ forms[o.form] \in TradeForm
<1>1. Running(c) /\ d = Head(o.todo).do
  BY DEF Trade!At, Trade!Running, Running
<1>2. TradeTypes /\ Shaped(o) /\ clash \in BOOLEAN /\ Len(forms) \in Nat
  BY DEF TradeIInv, TradeTypes
<1>3. \E K \in SUBSET Facts : Needs(d) \subseteq K /\ Typed(o, K)
  BY <1>1, StepReady
<1>4. o.form # None => o.form \in 1..Len(forms) /\ forms[o.form] \in TradeForm
  BY <1>2 DEF Shaped, TradeTypes
<1> QED
  BY <1>1, <1>2, <1>3, <1>4

LEMMA TradeSet ==
  ASSUME TradeIInv, NEW c \in Slot, Trade!Set(c) PROVE TradeIInv'
<1>1. PICK o, d : o = calls[c] /\ d = "set"
  OBVIOUS
<1>2. Trade!At(c, d) /\ Trade!Goes(c) /\ UNCHANGED <<data, forms, clash, wallet, asked, orders>>
  BY <1>1 DEF Trade!Set, Trade!tradeVars
<1>3. /\ Needs(d) = {"form", "pair", "kept", "asked"} /\ d \notin Lightly
      /\ \A K : After(K, d) = (K \ {"pair", "mode"}) \cup {"data"}
  BY <1>1 DEF Needs, After, Kills, Gives, Lightly
<1>4. o.form # None
  BY <1>1, <1>2, <1>3, TradeRunning DEF Typed
<1>5. PICK f : f = forms[o.form]
  OBVIOUS
<1>6. f.row \in Wallet /\ f.value \in TradeValue /\ rows' = [rows EXCEPT ![f.row] = f.value]
  BY <1>1, <1>2, <1>4, <1>5, TradeRunning DEF TradeForm, Trade!Set
<1>7. TradeTypes' /\ Len(forms') >= Len(forms)
  BY <1>1, <1>2, <1>6, TradeRunning DEF TradeTypes
<1>8. KeepsTypes(o, o, d)
  BY <1>3 DEF KeepsTypes, Typed
<1>9. ASSUME NEW K, NEW M, Needs(d) \subseteq K, M \subseteq After(K, d), Means(o, K) PROVE Means(o, M)'
  <2>1. f.row = wallet /\ data["setting"] # None /\ forms[data["setting"]] = f
    BY <1>3, <1>5, <1>9 DEF Means
  <2>2. rows'[wallet] = f.value
    BY <1>1, <1>2, <1>6, <2>1, TradeRunning DEF TradeTypes
  <2>3. DataSaved' /\ Saved(o.form)'
    BY <1>2, <1>5, <2>1, <2>2 DEF DataSaved, Saved
  <2>4. (WalletKept => WalletKept') /\ (AskedSame => AskedSame')
    BY <1>2 DEF WalletKept, AskedSame
  <2> HIDE DEF DataSaved, Saved, WalletKept, AskedSame
  <2> QED
    BY <1>2, <1>3, <1>4, <1>9, <2>3, <2>4 DEF Means
<1>10. KeepsMeaning(o, o, d)
  BY <1>9 DEF KeepsMeaning
<1> QED
  BY <1>1, <1>2, <1>3, <1>7, <1>8, <1>10, TradeRunning, GoesKeeps

LEMMA TradeKeep ==
  ASSUME TradeIInv, NEW c \in Slot, Trade!Keep(c) PROVE TradeIInv'
<1>1. PICK o, d : o = calls[c] /\ d = "keep"
  OBVIOUS
<1>2. Trade!At(c, d) /\ Trade!Goes(c) /\ UNCHANGED <<rows, forms, clash, wallet, asked, orders>>
      /\ data' = [data EXCEPT !["setting"] = o.form]
  BY <1>1 DEF Trade!Keep, Trade!tradeVars, Trade!Setting
<1>3. /\ Needs(d) = {"form", "saved", "kept", "asked"} /\ d \notin Lightly
      /\ \A K : After(K, d) = (K \ {"pair", "mode"}) \cup {"data"}
  BY <1>1 DEF Needs, After, Kills, Gives, Lightly
<1>4. /\ DOMAIN data' = Keys /\ data'["setting"] = o.form /\ \A k \in Keys \ {"setting"} : data'[k] = data[k]
      /\ "wallet" \in Keys \ {"setting"} /\ "token" \in Keys \ {"setting"}
      /\ {"copytrade_settings", "monitor_settings", "monitor"} \subseteq Keys \ {"setting"}
  BY <1>1, <1>2, TradeRunning DEF TradeTypes, Keys
<1>5. o.form \in (1..Len(forms)) \cup {None}
  BY <1>1, <1>2, TradeRunning DEF Shaped
<1>6. TradeTypes' /\ Len(forms') >= Len(forms)
  BY <1>1, <1>2, <1>4, <1>5, TradeRunning DEF TradeTypes
<1>7. KeepsTypes(o, o, d)
  BY <1>3 DEF KeepsTypes, Typed
<1>8. ASSUME NEW K, NEW M, Needs(d) \subseteq K, M \subseteq After(K, d), Means(o, K) PROVE Means(o, M)'
  <2>1. o.form # None /\ Saved(o.form)
    BY <1>3, <1>8 DEF Means
  <2>2. DataSaved' /\ Saved(o.form)'
    BY <1>2, <1>4, <2>1 DEF DataSaved, Saved
  <2>3. (WalletKept => WalletKept') /\ (AskedSame => AskedSame')
    BY <1>2, <1>4 DEF WalletKept, AskedSame
  <2> HIDE DEF DataSaved, Saved, WalletKept, AskedSame
  <2> QED
    BY <1>2, <1>3, <1>4, <1>8, <2>1, <2>2, <2>3 DEF Means
<1>9. KeepsMeaning(o, o, d)
  BY <1>8 DEF KeepsMeaning
<1> QED
  BY <1>1, <1>2, <1>3, <1>6, <1>7, <1>9, TradeRunning, GoesKeeps

LEMMA TradeKeepBoth ==
  ASSUME TradeIInv, NEW c \in Slot, Trade!KeepBoth(c) PROVE TradeIInv'
<1>1. PICK o, d, w : o = calls[c] /\ d = "keepBoth" /\ w = Trade!Carried(c, "wallet")[2]
  OBVIOUS
<1>2. Trade!At(c, d) /\ Trade!Goes(c) /\ UNCHANGED <<rows, forms, clash, wallet, asked, orders>>
      /\ data' = [data EXCEPT !["setting"] = o.form, !["wallet"] = w]
  BY <1>1 DEF Trade!KeepBoth, Trade!tradeVars, Trade!Setting
<1>3. /\ Needs(d) = {"form", "saved", "wallet", "kept", "asked"}
      /\ \A K : After(K, d) = (K \ {"pair", "mode"}) \cup {"data", "kept"}
      /\ d \notin Lightly
  BY <1>1 DEF Needs, After, Kills, Gives, Lightly
<1>4. /\ DOMAIN data' = Keys /\ data'["setting"] = o.form /\ data'["wallet"] = w
      /\ \A k \in Keys \ {"setting", "wallet"} : data'[k] = data[k]
      /\ "token" \in Keys \ {"setting", "wallet"}
      /\ {"copytrade_settings", "monitor_settings", "monitor"} \subseteq Keys \ {"setting", "wallet"}
  BY <1>1, <1>2, TradeRunning DEF TradeTypes, Keys
<1>5. o.form \in (1..Len(forms)) \cup {None} /\ Has(o, "wallet") /\ w \in Wallet
  <2>1. Has(o, "wallet")
    BY <1>1, <1>2, <1>3, TradeRunning DEF Typed
  <2> QED
    BY <1>1, <1>2, <2>1, TradeRunning, CarriedFits DEF Shaped
<1>6. TradeTypes' /\ Len(forms') >= Len(forms)
  BY <1>1, <1>2, <1>4, <1>5, TradeRunning DEF TradeTypes
<1>7. KeepsTypes(o, o, d)
  BY <1>3 DEF KeepsTypes, Typed
<1>8. ASSUME NEW K, NEW M, Needs(d) \subseteq K, M \subseteq After(K, d), Means(o, K) PROVE Means(o, M)'
  <2>1. o.form # None /\ Saved(o.form)
    BY <1>3, <1>8 DEF Means
  <2>2. w = wallet
    BY <1>1, <1>3, <1>5, <1>8, CarriedIs DEF Means
  <2>3. DataSaved' /\ Saved(o.form)' /\ WalletKept'
    BY <1>2, <1>4, <2>1, <2>2 DEF DataSaved, Saved, WalletKept
  <2>4. AskedSame => AskedSame'
    BY <1>2, <1>4 DEF AskedSame
  <2> HIDE DEF DataSaved, Saved, WalletKept, AskedSame
  <2> QED
    BY <1>2, <1>3, <1>4, <1>8, <2>1, <2>3, <2>4 DEF Means
<1>9. KeepsMeaning(o, o, d)
  BY <1>8 DEF KeepsMeaning
<1> QED
  BY <1>1, <1>2, <1>3, <1>6, <1>7, <1>9, TradeRunning, GoesKeeps

LEMMA TradeRemember ==
  ASSUME TradeIInv, NEW c \in Slot, Trade!Remember(c) PROVE TradeIInv'
<1>1. PICK o, d, w, t, p : /\ o = calls[c] /\ d = "remember" /\ w = Trade!Carried(c, "wallet")[2]
                           /\ t = Trade!Carried(c, "token")[2] /\ p = <<"prompting", t>>
  OBVIOUS
<1>2. Trade!At(c, d) /\ UNCHANGED <<rows, forms, clash, wallet, asked, orders>>
      /\ data' = [data EXCEPT !["setting"] = o.form, !["card"] = TRUE, !["wallet"] = w, !["token"] = t]
  BY <1>1 DEF Trade!Remember, Trade!tradeVars, Trade!Setting
<1>3. /\ Needs(d) = {"form", "saved", "wallet", "token", "kept", "asked"}
      /\ \A K : After(K, d) = (K \ {"asked", "pair", "mode"}) \cup {"data", "kept", "noted"}
      /\ d \notin Lightly
  BY <1>1 DEF Needs, After, Kills, Gives, Lightly
<1>4. /\ DOMAIN data' = Keys /\ data'["setting"] = o.form /\ data'["wallet"] = w /\ data'["token"] = t
      /\ \A k \in {"copytrade_settings", "monitor_settings", "monitor"} : data'[k] = data[k]
  BY <1>1, <1>2, TradeRunning DEF TradeTypes, Keys
<1>5. /\ o.form \in (1..Len(forms)) \cup {None} /\ Has(o, "wallet") /\ w \in Wallet
      /\ Has(o, "token") /\ t \in {1, 2} /\ o.on = "setting"
  <2>1. Has(o, "wallet") /\ Has(o, "token") /\ o.on = "setting"
    <3>1. PICK K \in SUBSET Facts : Needs(d) \subseteq K /\ Typed(o, K)
      BY <1>1, <1>2, TradeRunning
    <3> QED
      BY <1>3, <3>1 DEF Typed
  <2> QED
    BY <1>1, <1>2, <2>1, TradeRunning, CarriedFits DEF Shaped
<1>6. TradeTypes' /\ Len(forms') >= Len(forms)
  BY <1>1, <1>2, <1>4, <1>5, TradeRunning DEF TradeTypes
<1>7. PICK m : m = [o EXCEPT !.todo = Tail(o.todo), !.write = @ \cup {p}]
  OBVIOUS
<1>8. /\ Shaped(o) /\ DOMAIN m = {"seen", "todo", "on", "form", "write"} /\ m.todo = Tail(o.todo)
      /\ m.on = o.on /\ m.form = o.form /\ m.write = o.write \cup {p} /\ p[1] = "prompting"
  BY <1>1, <1>2, <1>7, TradeRunning DEF Shaped
<1>9. calls' = [calls EXCEPT ![c] = m]
  BY <1>1, <1>7 DEF Trade!Remember, TradeIInv
<1>10. Shaped(m)'
  <2>1. p \in TradeWrite
    BY <1>1, <1>5 DEF TradeWrite
  <2> QED
    BY <1>2, <1>5, <1>8, <2>1 DEF Shaped, Single
<1>11. \A name : name # "prompting" => (Has(m, name) <=> Has(o, name))
  BY <1>8 DEF Has
<1>12. KeepsTypes(o, m, d)
  BY <1>3, <1>8, <1>11 DEF KeepsTypes, Typed
<1>13. ASSUME NEW K, NEW M, ~clash, Typed(o, K), Needs(d) \subseteq K, M \subseteq After(K, d), Means(o, K)
       PROVE  Means(m, M)'
  <2>1. o.form # None /\ Saved(o.form)
    BY <1>3, <1>13 DEF Means
  <2>2. w = wallet
    BY <1>1, <1>3, <1>5, <1>13, CarriedIs DEF Means
  <2>3. DataSaved' /\ Saved(o.form)' /\ WalletKept'
    BY <1>2, <1>4, <2>1, <2>2 DEF DataSaved, Saved, WalletKept
  <2>4. \A x \in o.write : x[1] = "token" => x[2] = t
    BY <1>1, <1>5, <1>8, CarriedIs DEF Shaped, Single
  <2>5. \A x \in m.write : x[1] = "token" => x[2] = data'["token"]
    BY <1>4, <1>8, <2>4
  <2>6. "pair" \notin M /\ "asked" \notin M /\ "mode" \notin M
    BY <1>3, <1>13
  <2>7. /\ "wallet" \in M => \A x \in m.write : x[1] = "wallet" => x[2] = wallet'
        /\ "answer" \in M => \A x \in m.write : x[1] = "token" => x[2] = asked'
    <3>1. ("wallet" \in M => "wallet" \in K) /\ ("answer" \in M => "answer" \in K)
      BY <1>3, <1>13
    <3>2. \A x \in m.write : x[1] \in {"wallet", "token"} => x \in o.write
      BY <1>8
    <3> QED
      BY <1>2, <1>13, <3>1, <3>2 DEF Means
  <2> HIDE DEF DataSaved, Saved, WalletKept, AskedSame
  <2> QED
    BY <1>8, <2>1, <2>3, <2>5, <2>6, <2>7 DEF Means
<1>14. KeepsMeaning(o, m, d)
  BY <1>13 DEF KeepsMeaning
<1>15. Running(c) /\ d = Head(calls[c].todo).do
  BY <1>1, <1>2, TradeRunning
<1> QED
  BY <1>1, <1>2, <1>3, <1>6, <1>8, <1>9, <1>10, <1>12, <1>14, <1>15, TradeGoesOn

LEMMA TradeResume ==
  ASSUME TradeIInv, NEW c \in Slot, Trade!Resume(c) PROVE TradeIInv'
<1>1. PICK o, d, k : /\ o = calls[c] /\ d = "resume"
                     /\ k = [Trade!Idle EXCEPT !.seen = o.seen, !.on = "loaded"]
  OBVIOUS
<1>2. Trade!At(c, d) /\ UNCHANGED <<rows, forms, clash, wallet, asked, orders>>
      /\ data' = [data EXCEPT !["setting"] = o.form] /\ calls' = [calls EXCEPT ![c] = k]
  BY <1>1 DEF Trade!Resume, Trade!tradeVars, Trade!Setting
<1>3. Needs(d) = {"form", "saved", "kept", "asked"} /\ d \notin Lightly
  BY <1>1 DEF Needs, Lightly
<1>4. /\ DOMAIN data' = Keys /\ data'["setting"] = o.form
      /\ data'["wallet"] = data["wallet"] /\ data'["token"] = data["token"]
      /\ \A x \in {"copytrade_settings", "monitor_settings", "monitor"} : data'[x] = data[x]
  BY <1>1, <1>2, TradeRunning DEF TradeTypes, Keys
<1>5. o.form \in (1..Len(forms)) \cup {None}
  BY <1>1, <1>2, TradeRunning DEF Shaped
<1>6. TradeTypes' /\ Len(forms') >= Len(forms)
  BY <1>1, <1>2, <1>4, <1>5, TradeRunning DEF TradeTypes
<1>7. Shaped(k)' /\ k.todo = <<>> /\ k.write = {}
  <2>1. /\ DOMAIN k = {"seen", "todo", "on", "form", "write"}
        /\ k.todo = <<>> /\ k.on = "loaded" /\ k.form = None /\ k.write = {}
    BY <1>1, TradeIdle DEF Idle
  <2>2. Light(k.todo)
    <3>1. Light(<<>>)
      BY DEF Light
    <3> QED
      BY <2>1, <3>1
  <2> QED
    BY <2>1, <2>2 DEF Shaped, Single, Unmarked, Has
<1>8. ASSUME NEW K, Needs(d) \subseteq K, Means(o, K) PROVE SettledNow'
  BY <1>2, <1>3, <1>4, <1>8 DEF Means, SettledNow, DataSaved, Saved, WalletKept, AskedSame
<1> QED
  BY <1>1, <1>2, <1>3, <1>6, <1>7, <1>8, TradeRunning, TradeStops

\* The modes of the swap menu, on an object of the call's own.
LEMMA TradeSetOwn ==
  ASSUME TradeIInv, NEW c \in Slot, NEW d \in {"setAuto", "setSandwich"}, Trade!At(c, d),
         NEW o, o = calls[c], NEW value,
         forms[o.form].value \in TradeValue => value \in TradeValue,
         forms' = [forms EXCEPT ![o.form] = [forms[o.form] EXCEPT !.value = value]],
         rows' = [rows EXCEPT ![forms[o.form].row] = value],
         Trade!Goes(c), UNCHANGED <<data, clash, wallet, asked, orders>>
  PROVE  TradeIInv'
<1>1. /\ Needs(d) = {"form", "saved", "kept", "asked"} /\ d \notin Lightly
      /\ \A K : After(K, d) = K \ {"data", "pair", "mode"}
  BY DEF Needs, After, Kills, Gives, Lightly
<1>2. o.form # None
  <2>1. PICK K \in SUBSET Facts : Needs(d) \subseteq K /\ Typed(o, K)
    BY TradeRunning
  <2> QED
    BY <1>1, <2>1 DEF Typed
<1>3. PICK f, g, i : f = forms[o.form] /\ g = [f EXCEPT !.value = value] /\ i = o.form
  OBVIOUS
<1>4. i \in 1..Len(forms) /\ f \in TradeForm /\ f.row \in Wallet /\ value \in TradeValue
  BY <1>2, <1>3, TradeRunning DEF TradeForm
<1>5. g \in TradeForm /\ g.row = f.row /\ g.value = value
  BY <1>3, <1>4 DEF TradeForm
<1>6. forms' \in Seq(TradeForm) /\ Len(forms') = Len(forms) /\ forms'[i] = g /\ Len(forms) \in Nat
      /\ rows' \in [Wallet -> TradeValue \cup {None}] /\ rows'[f.row] = value
  BY <1>3, <1>4, <1>5, TradeRunning DEF TradeTypes
<1>7. TradeTypes' /\ Len(forms') >= Len(forms)
  BY <1>6, TradeRunning DEF TradeTypes
<1>8. KeepsTypes(o, o, d)
  BY <1>1 DEF KeepsTypes, Typed
<1>9. ASSUME NEW K, NEW M, Needs(d) \subseteq K, M \subseteq After(K, d), Means(o, K) PROVE Means(o, M)'
  <2>1. f.row = wallet
    BY <1>1, <1>3, <1>9 DEF Means, Saved
  <2>2. Saved(o.form)'
    BY <1>3, <1>5, <1>6, <2>1 DEF Saved
  <2>3. (WalletKept => WalletKept') /\ (AskedSame => AskedSame')
    BY DEF WalletKept, AskedSame
  <2> HIDE DEF DataSaved, Saved, WalletKept, AskedSame
  <2> QED
    BY <1>1, <1>2, <1>9, <2>2, <2>3 DEF Means
<1>10. KeepsMeaning(o, o, d)
  BY <1>9 DEF KeepsMeaning
<1> QED
  BY <1>1, <1>7, <1>8, <1>10, TradeRunning, GoesKeeps


LEMMA TradeChanges ==
  ASSUME NEW v \in TradeValue
  PROVE  /\ Trade!FlipAuto(v) \in TradeValue /\ Trade!FlipSandwich(v) \in TradeValue
         /\ Trade!FlipBuy(v) \in TradeValue /\ Trade!FlipSell(v) \in TradeValue
         /\ \A f \in {"quick", "sandwichBps", "buyFee", "sellFee", "buyAmount", "sellAmount"}, n \in {1, 2} :
              [v EXCEPT ![f] = n] \in TradeValue
<1>1. Trade!FlipAuto(v) \in TradeValue
  BY DEF Trade!FlipAuto, TradeValue
<1>2. Trade!FlipSandwich(v) \in TradeValue
  BY DEF Trade!FlipSandwich, TradeValue
<1>3. Trade!FlipBuy(v) \in TradeValue /\ Trade!FlipSell(v) \in TradeValue
  BY DEF Trade!FlipBuy, Trade!FlipSell, TradeValue
<1>4. \A f \in {"quick", "sandwichBps", "buyFee", "sellFee", "buyAmount", "sellAmount"}, n \in {1, 2} :
        [v EXCEPT ![f] = n] \in TradeValue
  BY DEF TradeValue
<1> QED
  BY <1>1, <1>2, <1>3, <1>4

LEMMA TradeSetsOwn ==
  ASSUME TradeIInv, NEW c \in Slot,
         Trade!SetOwn(c, "setAuto", Trade!FlipAuto) \/ Trade!SetOwn(c, "setSandwich", Trade!FlipSandwich)
  PROVE  TradeIInv'
<1>1. PICK o, v : o = calls[c] /\ v = forms[o.form].value
  OBVIOUS
<1>2. CASE Trade!SetOwn(c, "setAuto", Trade!FlipAuto)
  <2>1. PICK x : x = Trade!FlipAuto(v)
    OBVIOUS
  <2>2. PICK d : d = "setAuto"
    OBVIOUS
  <2>3. Trade!At(c, d) /\ d \in {"setAuto", "setSandwich"}
    BY <1>2, <2>2 DEF Trade!SetOwn
  <2>4. o.form # None
    BY <1>1, <2>2, <2>3, TradeRunning DEF Typed, Needs
  <2>5. forms[o.form] \in TradeForm /\ v \in TradeValue
    BY <1>1, <2>3, <2>4, TradeRunning DEF TradeForm
  <2>6. v \in TradeValue => x \in TradeValue
    BY <2>1, TradeChanges
  <2>7. /\ forms' = [forms EXCEPT ![o.form] = [forms[o.form] EXCEPT !.value = x]]
        /\ rows' = [rows EXCEPT ![forms[o.form].row] = x]
        /\ Trade!Goes(c) /\ UNCHANGED <<data, clash, wallet, asked, orders>>
    BY <1>1, <1>2, <2>1, <2>5 DEF Trade!SetOwn, Trade!tradeVars, TradeForm
  <2> QED
    BY <1>1, <2>3, <2>6, <2>7, TradeSetOwn
<1>3. CASE Trade!SetOwn(c, "setSandwich", Trade!FlipSandwich)
  <2>1. PICK x : x = Trade!FlipSandwich(v)
    OBVIOUS
  <2>2. PICK d : d = "setSandwich"
    OBVIOUS
  <2>3. Trade!At(c, d) /\ d \in {"setAuto", "setSandwich"}
    BY <1>3, <2>2 DEF Trade!SetOwn
  <2>4. o.form # None
    BY <1>1, <2>2, <2>3, TradeRunning DEF Typed, Needs
  <2>5. forms[o.form] \in TradeForm /\ v \in TradeValue
    BY <1>1, <2>3, <2>4, TradeRunning DEF TradeForm
  <2>6. v \in TradeValue => x \in TradeValue
    BY <2>1, TradeChanges
  <2>7. /\ forms' = [forms EXCEPT ![o.form] = [forms[o.form] EXCEPT !.value = x]]
        /\ rows' = [rows EXCEPT ![forms[o.form].row] = x]
        /\ Trade!Goes(c) /\ UNCHANGED <<data, clash, wallet, asked, orders>>
    BY <1>1, <1>3, <2>1, <2>5 DEF Trade!SetOwn, Trade!tradeVars, TradeForm
  <2> QED
    BY <1>1, <2>3, <2>6, <2>7, TradeSetOwn
<1> QED
  BY <1>2, <1>3

LEMMA TradeDecide ==
  ASSUME TradeIInv, NEW c \in Slot, Trade!Decide(c) PROVE TradeIInv'
<1>1. PICK o, d, n, p : /\ o = calls[c] /\ d = "decide" /\ n = Trade!Mode(forms[o.form].value)
                        /\ p = <<"mode", n>>
  OBVIOUS
<1>2. Trade!At(c, d) /\ UNCHANGED <<data, forms, rows, clash, wallet, asked, orders>>
  BY <1>1 DEF Trade!Decide, Trade!tradeVars
<1>3. /\ {"form", "saved"} \subseteq Needs(d) /\ d \notin Lightly
      /\ \A K : After(K, d) = K \cup {"mode"}
  BY <1>1 DEF Needs, After, Kills, Gives, Lightly
<1>4. Running(c) /\ TradeTypes /\ Shaped(o) /\ d = Head(o.todo).do /\ clash \in BOOLEAN
  BY <1>1, <1>2, TradeRunning
<1>5. Calm /\ Len(forms') >= Len(forms) /\ TradeTypes'
  BY <1>2, <1>4, Unmoved
<1>6. PICK K \in SUBSET Facts, L \in SUBSET Facts :
        /\ Needs(d) \subseteq K /\ L \subseteq After(K, d) /\ Sure(Tail(o.todo), L, Settled)
        /\ Typed(o, K) /\ (~clash /\ Works(o) => Means(o, K))
  BY <1>1, <1>4, NextStep
<1>7. PICK W, s : W = {w \in o.write : w[1] # "mode"} \cup {p}
                  /\ s = (IF n = "auto" THEN Trade!Tell(None) ELSE <<>>) \o Tail(o.todo)
  OBVIOUS
<1>8. PICK m : m = [o EXCEPT !.todo = s, !.write = W]
  OBVIOUS
<1>9. /\ DOMAIN m = {"seen", "todo", "on", "form", "write"} /\ m.todo = s
      /\ m.on = o.on /\ m.form = o.form /\ m.write = W /\ p[1] = "mode" /\ p[2] = n
  BY <1>1, <1>4, <1>8 DEF Shaped
<1>10. calls' = [calls EXCEPT ![c] = m]
  BY <1>1, <1>7, <1>8 DEF Trade!Decide, Trade!Carry, TradeIInv
<1>11. Works(o) /\ o.on = "setting"
  BY <1>1, <1>3, <1>4, OthersLight DEF Works
<1>12. Sure(s, L, Settled)
  <2>1. Sure(Trade!Tell(None), L, L) /\ Sure(<<>>, L, L)
    BY SureNone, TradeAwaits, TradeTargets
  <2> QED
    BY <1>6, <1>7, <2>1, SureMore
<1>13. /\ \A w \in W : (w \in o.write /\ w[1] # "mode") \/ w = p
       /\ \A w \in o.write : w[1] # "mode" => w \in W
       /\ p \in W
  BY <1>7
<1>14. Shaped(m)'
  <2>1. p \in TradeWrite
    BY <1>1 DEF TradeWrite, TradeMode, Trade!Mode
  <2> QED
    BY <1>2, <1>4, <1>9, <1>11, <1>13, <2>1 DEF Shaped, Single
<1>15. Typed(m, L)
  <2>1. Has(m, "mode") /\ \A name : name # "mode" => (Has(m, name) <=> Has(o, name))
    BY <1>9, <1>13 DEF Has
  <2> QED
    BY <1>3, <1>6, <1>9, <2>1 DEF Typed
<1>16. ASSUME ~clash PROVE Means(m, L)'
  <2>1. Means(o, K)
    BY <1>6, <1>11, <1>16
  <2>2. Means(o, K)'
    BY <1>4, <1>5, <2>1, CalmMeans
  <2>3. n = Trade!Mode(rows'[wallet'])
    BY <1>1, <1>2, <1>3, <1>6, <2>1 DEF Means, Saved
  <2>4. \A w \in W : w[1] = "mode" => w[2] = Trade!Mode(rows'[wallet'])
    BY <1>9, <1>13, <2>3
  <2>5. \A x \in W : x[1] # "mode" => x \in o.write
    BY <1>9, <1>13
  <2> HIDE DEF DataSaved, Saved, WalletKept, AskedSame
  <2> QED
    BY <1>3, <1>6, <1>9, <2>2, <2>4, <2>5 DEF Means
<1>17. ~clash => ByItself(c)
  BY <1>1, <1>11 DEF TradeIInv, ByItself
<1>18. ASSUME ~Works(m), ~clash PROVE SettledNow'
  <2>1. s = <<>>
    BY <1>9, <1>11, <1>18 DEF Works
  <2>2. Settled \subseteq L
    BY <1>12, <2>1, SureEnd
  <2> QED
    BY <1>16, <1>18, <2>2 DEF Means, Settled, SettledNow
<1> QED
  BY <1>2, <1>4, <1>5, <1>9, <1>10, <1>12, <1>14, <1>15, <1>16, <1>17, <1>18, TradeMoves

\* What an order is made of: without a clash, what is active and saved.
LEMMA OrderMade ==
  ASSUME TradeIInv, NEW c \in Slot, Trade!Order(c)
  PROVE  \E x \in TradeOrder :
           /\ orders' = Append(orders, x)
           /\ ~clash => /\ x.wallet = wallet /\ x.mode = Trade!Mode(rows[wallet])
                        /\ x.answer => x.token = asked
           /\ Vouched(calls[c]) => x.wallet \in x.were /\ (x.answer => x.token \in x.prompts)
<1>1. PICK o, d : o = calls[c] /\ d = Head(o.todo).do
  OBVIOUS
<1>2. d \in {"order", "orderAsked"} /\ Trade!At(c, d)
  BY <1>1 DEF Trade!Order, Trade!At
<1>3. /\ {"mode", "wallet", "token"} \subseteq Needs(d)
      /\ d = "orderAsked" => "answer" \in Needs(d)
  BY <1>2 DEF Needs
<1>4. Running(c) /\ TradeTypes /\ Shaped(o)
  BY <1>1, <1>2, TradeRunning
<1>5. PICK K \in SUBSET Facts : /\ Needs(d) \subseteq K /\ Typed(o, K)
                                /\ ~clash /\ Works(o) => Means(o, K)
  BY <1>1, <1>4, StepReady
<1>6. Works(o) /\ Has(o, "mode") /\ Has(o, "wallet") /\ Has(o, "token")
      /\ (d = "orderAsked" => Has(o, "prompt"))
  BY <1>1, <1>3, <1>4, <1>5 DEF Typed, Works, Running
<1>7. PICK w, t, n, b, W, P :
        /\ w = Trade!Carried(c, "wallet")[2] /\ t = Trade!Carried(c, "token")[2]
        /\ n = Trade!Carried(c, "mode")[2] /\ b = Trade!At(c, "orderAsked")
        /\ W = Trade!Kept(c, "was") /\ P = Trade!Kept(c, "prompt")
  OBVIOUS
<1>8. w \in Wallet /\ t \in {1, 2} /\ n \in TradeMode /\ b \in BOOLEAN
  BY <1>1, <1>6, <1>7, CarriedFits DEF Trade!At, Trade!Running
<1>9. W \in SUBSET Wallet /\ P \in SUBSET ({1, 2} \cup {None})
  <2>1. ASSUME NEW e \in TradeWrite
        PROVE  (e[1] = "was" => e[2] \in Wallet) /\ (e[1] = "prompt" => e[2] \in {1, 2} \cup {None})
    BY DEF TradeWrite
  <2>2. o.write \subseteq TradeWrite
    BY <1>4 DEF Shaped
  <2> QED
    BY <1>1, <1>7, <2>1, <2>2 DEF Trade!Kept
<1>10. PICK x : x = [wallet |-> w, were |-> W, token |-> t, prompts |-> P, mode |-> n, answer |-> b]
  OBVIOUS
<1>11. x \in TradeOrder /\ orders' = Append(orders, x)
  BY <1>7, <1>8, <1>9, <1>10 DEF TradeOrder, Trade!Order
<1>12. x.answer => d = "orderAsked"
  BY <1>1, <1>7, <1>10 DEF Trade!At
<1>13. ASSUME ~clash PROVE x.wallet = wallet /\ x.mode = Trade!Mode(rows[wallet]) /\ (x.answer => x.token = asked)
  <2>1. Means(o, K)
    BY <1>5, <1>6, <1>13
  <2>2. /\ \A e \in o.write : e[1] = "wallet" => e[2] = wallet
        /\ \A e \in o.write : e[1] = "mode" => e[2] = Trade!Mode(rows[wallet])
    BY <1>3, <1>5, <2>1 DEF Means
  <2>3. x.wallet = wallet /\ x.mode = Trade!Mode(rows[wallet])
    BY <1>1, <1>6, <1>7, <1>10, <2>2, CarriedIs
  <2>4. ASSUME x.answer PROVE x.token = asked
    <3>1. \A e \in o.write : e[1] = "token" => e[2] = asked
      BY <1>3, <1>5, <1>12, <2>1, <2>4 DEF Means
    <3> QED
      BY <1>1, <1>6, <1>7, <1>10, <3>1, CarriedIs
  <2> QED
    BY <2>3, <2>4
<1>14. ASSUME Vouched(o) PROVE x.wallet \in x.were /\ (x.answer => x.token \in x.prompts)
  <2>1. PICK a, e : a = Trade!Carried(c, "wallet") /\ e = Trade!Carried(c, "token")
    OBVIOUS
  <2>2. a \in o.write /\ a[1] = "wallet" /\ a[2] = w /\ e \in o.write /\ e[1] = "token" /\ e[2] = t
    BY <1>1, <1>6, <1>7, <2>1, CarriedIs
  <2>3. \E r \in o.write : r[1] = "was" /\ r[2] = w
    BY <1>14, <2>2 DEF Vouched
  <2>4. ASSUME x.answer PROVE \E r \in o.write : r[1] = "prompt" /\ r[2] = t
    BY <1>6, <1>12, <1>14, <2>2, <2>4 DEF Vouched, Has
  <2> QED
    BY <1>1, <1>7, <1>10, <2>3, <2>4 DEF Trade!Kept
<1> QED
  BY <1>1, <1>11, <1>13, <1>14

LEMMA TradeOrders ==
  ASSUME TradeIInv, NEW c \in Slot, Trade!Order(c) PROVE TradeIInv'
<1>1. PICK o, d : o = calls[c] /\ d = Head(o.todo).do
  OBVIOUS
<1>2. d \in {"order", "orderAsked"} /\ Trade!At(c, d) /\ Trade!Goes(c)
      /\ UNCHANGED <<data, forms, rows, clash, wallet, asked>>
  BY <1>1 DEF Trade!Order, Trade!At
<1>3. (\A K : After(K, d) = K) /\ d \notin Lightly
  BY <1>2 DEF After, Kills, Gives, Lightly
<1>4. Running(c) /\ TradeTypes /\ Shaped(o)
  BY <1>1, <1>2, TradeRunning
<1>5. Calm /\ Len(forms') >= Len(forms)
  BY <1>2, <1>4, Unmoved
<1>6. orders' \in Seq(TradeOrder)
  BY <1>4, OrderMade DEF TradeTypes
<1>7. TradeTypes'
  BY <1>2, <1>4, <1>6 DEF TradeTypes
<1>8. KeepsTypes(o, o, d)
  BY <1>3 DEF KeepsTypes, Typed
<1>9. \A K, M : M \subseteq K /\ Means(o, K) => Means(o, M)
  BY DEF Means
<1>10. \A K : Means(o, K) => Means(o, K)'
  BY <1>4, <1>5, CalmMeans
<1>11. KeepsMeaning(o, o, d)
  BY <1>3, <1>9, <1>10 DEF KeepsMeaning
<1> QED
  BY <1>1, <1>2, <1>3, <1>4, <1>5, <1>7, <1>8, <1>11, GoesKeeps

LEMMA TradeShown ==
  ASSUME TradeIInv, NEW c \in Slot, Trade!Shown(c) PROVE TradeIInv'
<1>1. PICK o, d, t : o = calls[c] /\ d = Head(o.todo).do /\ t = Trade!Carried(c, "token")[2]
  OBVIOUS
<1>2. d \in {"askBuy", "askSell"} /\ Trade!At(c, d) /\ calls' = [calls EXCEPT ![c] = Idle]
      /\ UNCHANGED <<data, forms, rows, clash, wallet, orders>> /\ asked' = t
  BY <1>1, TradeIdle DEF Trade!Shown, Trade!At, Trade!Ends
<1>3. Needs(d) = {"token", "noted", "data", "kept"} /\ d \notin Lightly
  BY <1>2 DEF Needs, Lightly
<1>4. Running(c) /\ TradeTypes /\ Shaped(o) /\ Len(forms) \in Nat
  BY <1>1, <1>2, TradeRunning
<1>5. TradeTypes' /\ Len(forms') >= Len(forms)
  <2>1. PICK K \in SUBSET Facts : Needs(d) \subseteq K /\ Typed(o, K)
    BY <1>1, <1>4, StepReady
  <2>2. t \in {1, 2}
    BY <1>1, <1>3, <2>1, CarriedFits DEF Typed
  <2> QED
    BY <1>2, <1>4, <2>2 DEF TradeTypes
<1>6. ASSUME NEW K, Needs(d) \subseteq K, Typed(o, K), Means(o, K) PROVE SettledNow'
  <2>1. Has(o, "token") /\ DataSaved /\ WalletKept
    BY <1>3, <1>6 DEF Typed, Means
  <2>2. t = data["token"]
    BY <1>1, <1>3, <1>6, <2>1, CarriedIs DEF Means
  <2> QED
    BY <1>2, <2>1, <2>2 DEF SettledNow, DataSaved, Saved, WalletKept, AskedSame
<1> QED
  BY <1>1, <1>2, <1>3, <1>4, <1>5, <1>6, TradeIdle, TradeStops

LEMMA TradeNewDefault ==
  ASSUME TradeIInv, NEW c \in Slot, Trade!NewDefault(c) PROVE TradeIInv'
<1>1. PICK o, d, n, w : /\ o = calls[c] /\ d = "newDefault" /\ n = Trade!Carried(c, "key")[2]
                        /\ w = Trade!Carried(c, "wallet")[2]
  OBVIOUS
<1>2. Trade!At(c, d) /\ UNCHANGED <<data, forms, clash, wallet, asked, orders>>
  BY <1>1 DEF Trade!NewDefault, Trade!tradeVars
<1>3. /\ Needs(d) = {"key", "wallet", "data", "kept", "asked"} /\ d \notin Lightly
      /\ \A K : After(K, d) = K \ {"pair", "mode"}
  BY <1>1 DEF Needs, After, Kills, Gives, Lightly
<1>4. Running(c) /\ TradeTypes /\ Shaped(o) /\ d = Head(o.todo).do /\ Len(forms) \in Nat
  BY <1>1, <1>2, TradeRunning
<1>5. Has(o, "key") /\ Has(o, "wallet") /\ n \in Wallet
  <2>1. PICK K \in SUBSET Facts : Needs(d) \subseteq K /\ Typed(o, K)
    BY <1>1, <1>2, TradeRunning
  <2>2. Has(o, "key") /\ Has(o, "wallet")
    BY <1>3, <2>1 DEF Typed
  <2> QED
    BY <1>1, <2>2, CarriedFits
<1>6. ASSUME NEW K, Needs(d) \subseteq K, Means(o, K) PROVE w = wallet /\ SettledNow
  <2>1. w = wallet
    BY <1>1, <1>3, <1>5, <1>6, CarriedIs DEF Means
  <2> QED
    BY <1>3, <1>6, <2>1 DEF Means, SettledNow
<1>7. CASE n = w
  <2>1. rows' = rows /\ calls' = [calls EXCEPT ![c] = Idle]
    BY <1>1, <1>7, TradeIdle DEF Trade!NewDefault, Trade!Ends
  <2>2. Calm /\ Len(forms') >= Len(forms) /\ TradeTypes'
    BY <1>2, <1>4, <2>1, Unmoved
  <2>3. ASSUME NEW K, Needs(d) \subseteq K, Means(o, K) PROVE SettledNow'
    BY <1>4, <1>6, <2>2, <2>3, CalmSettled
  <2> QED
    BY <1>1, <1>2, <1>4, <2>1, <2>2, <2>3, TradeIdle, TradeStops
<1>8. CASE n # w
  <2>1. rows' = [rows EXCEPT ![n] = Trade!DefaultSetting] /\ Trade!Goes(c)
    BY <1>1, <1>8 DEF Trade!NewDefault
  <2>2. Trade!DefaultSetting \in TradeValue
    BY DEF Trade!DefaultSetting, TradeValue
  <2>3. TradeTypes' /\ Len(forms') >= Len(forms)
    BY <1>2, <1>4, <1>5, <2>1, <2>2 DEF TradeTypes
  <2>4. KeepsTypes(o, o, d)
    BY <1>3 DEF KeepsTypes, Typed
  <2>5. ASSUME NEW K, NEW M, Needs(d) \subseteq K, M \subseteq After(K, d), Means(o, K) PROVE Means(o, M)'
    <3>1. rows'[wallet] = rows[wallet]
      BY <1>4, <1>5, <1>6, <1>8, <2>1, <2>5 DEF TradeTypes
    <3>2. /\ DataSaved => DataSaved'
          /\ (WalletKept => WalletKept') /\ (AskedSame => AskedSame')
          /\ o.form # None /\ Saved(o.form) => Saved(o.form)'
      BY <1>2, <3>1 DEF DataSaved, Saved, WalletKept, AskedSame
    <3>3. M \subseteq K /\ "pair" \notin M /\ "mode" \notin M
      BY <1>3, <2>5
    <3> HIDE DEF DataSaved, Saved, WalletKept, AskedSame
    <3> QED
      BY <1>2, <2>5, <3>2, <3>3 DEF Means
  <2>6. KeepsMeaning(o, o, d)
    BY <2>5 DEF KeepsMeaning
  <2> QED
    BY <1>1, <1>2, <1>3, <1>4, <2>1, <2>3, <2>4, <2>6, GoesKeeps
<1> QED
  BY <1>7, <1>8

LEMMA TradeRegister ==
  ASSUME TradeIInv, NEW c \in Slot, Trade!Register(c) PROVE TradeIInv'
<1>1. PICK o, d, n, w : /\ o = calls[c] /\ d = "register" /\ n = Trade!Carried(c, "key")[2]
                        /\ w = Trade!Carried(c, "wallet")[2]
  OBVIOUS
<1>2. Trade!At(c, d) /\ UNCHANGED <<data, forms, rows, clash, asked, orders>>
  BY <1>1 DEF Trade!Register
<1>3. /\ Needs(d) = {"key", "wallet", "data", "kept", "asked"} /\ d \notin Lightly
      /\ \A K : After(K, d) = K \ {"data", "kept", "wallet", "saved", "pair", "mode"}
  BY <1>1 DEF Needs, After, Kills, Gives, Lightly
<1>4. Running(c) /\ TradeTypes /\ Shaped(o) /\ d = Head(o.todo).do /\ Len(forms) \in Nat
  BY <1>1, <1>2, TradeRunning
<1>5. n \in Wallet
  <2>1. PICK K \in SUBSET Facts : Needs(d) \subseteq K /\ Typed(o, K)
    BY <1>1, <1>2, TradeRunning
  <2>2. Has(o, "key")
    BY <1>3, <2>1 DEF Typed
  <2> QED
    BY <1>1, <2>2, CarriedFits
<1>6. CASE wallet # w
  <2>1. wallet' = wallet /\ calls' = [calls EXCEPT ![c] = Idle]
    BY <1>1, <1>6, TradeIdle DEF Trade!Register, Trade!Ends
  <2>2. Calm /\ Len(forms') >= Len(forms) /\ TradeTypes'
    BY <1>2, <1>4, <2>1, Unmoved
  <2>3. ASSUME NEW K, Needs(d) \subseteq K, Means(o, K) PROVE SettledNow'
    <3>1. SettledNow
      BY <1>3, <2>3 DEF Means, SettledNow
    <3> QED
      BY <1>4, <2>2, <3>1, CalmSettled
  <2> QED
    BY <1>1, <1>2, <1>4, <2>1, <2>2, <2>3, TradeIdle, TradeStops
<1>7. CASE wallet = w
  <2>1. PICK p, m : p = <<"replaced", w>> /\ m = [o EXCEPT !.todo = Tail(o.todo), !.write = @ \cup {p}]
    OBVIOUS
  <2>2. /\ DOMAIN m = {"seen", "todo", "on", "form", "write"} /\ m.todo = Tail(o.todo)
        /\ m.on = o.on /\ m.form = o.form /\ m.write = o.write \cup {p} /\ p[1] = "replaced"
    BY <1>4, <2>1 DEF Shaped
  <2>3. wallet' = n /\ calls' = [calls EXCEPT ![c] = m]
    BY <1>1, <1>7, <2>1 DEF Trade!Register, TradeIInv
  <2>4. TradeTypes' /\ Len(forms') >= Len(forms)
    BY <1>2, <1>4, <1>5, <2>3 DEF TradeTypes
  <2>5. Shaped(m)'
    <3>1. p \in TradeWrite
      BY <1>4, <1>7, <2>1 DEF TradeWrite, TradeTypes
    <3>2. o.on = "setting"
      BY <1>1, <1>3, <1>4, OthersLight DEF Works
    <3> QED
      BY <1>2, <1>4, <2>2, <3>1, <3>2 DEF Shaped, Single
  <2>6. \A name : name # "replaced" => (Has(m, name) <=> Has(o, name))
    BY <2>2 DEF Has
  <2>7. KeepsTypes(o, m, d)
    BY <1>3, <2>2, <2>6 DEF KeepsTypes, Typed
  <2>8. ASSUME NEW K, NEW M, M \subseteq After(K, d), Means(o, K) PROVE Means(m, M)'
    <3>1. M \subseteq K /\ {"data", "kept", "wallet", "saved", "pair", "mode"} \cap M = {}
      BY <1>3, <2>8
    <3>2. AskedSame => AskedSame'
      BY <1>2 DEF AskedSame
    <3>3. \A x \in m.write : x[1] = "token" => x \in o.write
      BY <2>2
    <3> HIDE DEF DataSaved, Saved, WalletKept, AskedSame
    <3> QED
      BY <1>2, <2>2, <2>8, <3>1, <3>2, <3>3 DEF Means
  <2>9. KeepsMeaning(o, m, d)
    BY <2>8 DEF KeepsMeaning
  <2> QED
    BY <1>1, <1>2, <1>3, <1>4, <2>2, <2>3, <2>4, <2>5, <2>7, <2>9, TradeGoesOn
<1> QED
  BY <1>6, <1>7

LEMMA TradeClear ==
  ASSUME TradeIInv, NEW c \in Slot, Trade!Clear(c) PROVE TradeIInv'
<1>1. PICK o, d : o = calls[c] /\ d = "clear"
  OBVIOUS
<1>2. Trade!At(c, d) /\ UNCHANGED <<forms, rows, clash, wallet, asked, orders>>
      /\ calls' = [calls EXCEPT ![c] = Idle] /\ data' = [k \in DOMAIN data |-> None]
  BY <1>1, TradeIdle DEF Trade!Clear, Trade!tradeVars, Trade!Ends
<1>3. d \notin Lightly
  BY <1>1 DEF Lightly
<1>4. Running(c) /\ TradeTypes /\ d = Head(o.todo).do /\ Len(forms) \in Nat
  BY <1>1, <1>2, TradeRunning
<1>5. \A k \in Keys : data'[k] = None
  BY <1>2, <1>4 DEF TradeTypes
<1>6. /\ data'["setting"] = None /\ data'["wallet"] = None /\ data'["token"] = None
      /\ \A k \in {"copytrade_settings", "monitor_settings", "monitor"} : data'[k] = None
  BY <1>5 DEF Keys
<1>7. TradeTypes' /\ Len(forms') >= Len(forms)
  BY <1>2, <1>4, <1>6 DEF TradeTypes
<1>8. SettledNow'
  BY <1>6 DEF SettledNow, DataSaved, WalletKept, AskedSame
<1> QED
  BY <1>1, <1>2, <1>3, <1>4, <1>7, <1>8, TradeIdle, TradeStops

-----------------------------------------------------------------------------
(* The handlers of the trading part. *)

LEMMA TradeMeets ==
  ASSUME TradeIInv, NEW on, clash' = (clash \/ Trade!Meets(on))
  PROVE  clash' \in BOOLEAN /\ (clash \/ Meets(on) => clash')
<1>1. Trade!Meets(on) <=> Meets(on)
  BY DEF Trade!Meets, Meets, Trade!Running, Running, Trade!SetBy, SetBy
<1>2. clash \in BOOLEAN
  BY DEF TradeIInv
<1>3. Meets(on) \in BOOLEAN /\ Trade!Meets(on) \in BOOLEAN
  BY DEF Meets, Trade!Meets
<1> HIDE DEF Meets
<1> QED
  BY <1>1, <1>2, <1>3

\* A handler begins: its call is k.
Begins(c, k, on, form, write, steps) ==
  /\ calls' = [calls EXCEPT ![c] = k]
  /\ DOMAIN k = {"seen", "todo", "on", "form", "write"}
  /\ k.todo = steps /\ k.on = on /\ k.form = form /\ k.write = write

LEMMA RunsBegins ==
  ASSUME NEW c, NEW on, NEW form, NEW steps, Trade!Runs(c, on, form, steps)
  PROVE  (\E k : Begins(c, k, on, form, {}, steps)) /\ clash' = (clash \/ Trade!Meets(on))
<1>1. PICK k : k = [Idle EXCEPT !.todo = steps, !.on = on, !.form = form]
  OBVIOUS
<1>2. /\ DOMAIN k = {"seen", "todo", "on", "form", "write"}
      /\ k.todo = steps /\ k.on = on /\ k.form = form /\ k.write = {}
  BY <1>1 DEF Idle
<1>3. calls' = [calls EXCEPT ![c] = k] /\ clash' = (clash \/ Trade!Meets(on))
  BY <1>1, TradeIdle DEF Trade!Runs
<1> QED
  BY <1>2, <1>3 DEF Begins

\* The message of a card is kept for later: no property is about it.
SameData == DOMAIN data' = Keys /\ \A k \in Keys \ {"card"} : data'[k] = data[k]

LEMMA CardOnly ==
  ASSUME TradeIInv, NEW v, data' = data \/ data' = [data EXCEPT !["card"] = v] PROVE SameData
BY DEF TradeIInv, TradeTypes, SameData, Keys

LEMMA LightStart ==
  ASSUME TradeIInv, NEW c \in Slot, ~Works(calls[c]), NEW steps, NEW on, on # "setting",
         Sure(steps, Settled, Settled), Light(steps), Trade!Runs(c, on, None, steps),
         UNCHANGED <<rows, forms, wallet, asked, orders>>, SameData
  PROVE  TradeIInv'
<1>1. TradeTypes /\ Len(forms) \in Nat
  BY DEF TradeIInv, TradeTypes
<1>2. /\ DOMAIN data' = Keys
      /\ \A k \in {"setting", "wallet", "token", "copytrade_settings", "monitor_settings", "monitor"} :
           data'[k] = data[k]
  BY DEF SameData, Keys
<1>3. TradeTypes' /\ Calm /\ Len(forms') >= Len(forms)
  BY <1>1, <1>2 DEF TradeTypes, Calm
<1>4. PICK k : Begins(c, k, on, None, {}, steps)
  BY RunsBegins
<1>5. Shaped(k)' /\ k.on # "setting" /\ k.write = {} /\ Sure(k.todo, Settled, Settled)
  <2>1. Light(k.todo)
    BY <1>4 DEF Begins
  <2> QED
    BY <1>4, <2>1 DEF Begins, Shaped, Single, Unmarked, Has
<1>6. calls' = [calls EXCEPT ![c] = k]
  BY <1>4 DEF Begins
<1>7. clash' \in BOOLEAN /\ (clash => clash')
  BY RunsBegins, TradeMeets
<1> QED
  BY <1>3, <1>5, <1>6, <1>7, TradeStartsLight

\* A handler that works on the setting begins; all it changes are its own call and forms.
LEMMA SettingStart ==
  ASSUME TradeIInv, NEW c \in Slot, NEW steps, NEW K \in SUBSET Facts, Sure(steps, K, Settled),
         NEW form \in (1..Len(forms')) \cup {None}, NEW write \in SUBSET TradeWrite,
         Single(write),
         NEW k, Begins(c, k, "setting", form, write, steps), clash' = (clash \/ Trade!Meets("setting")),
         forms' \in Seq(TradeForm), Len(forms') >= Len(forms),
         UNCHANGED <<rows, data, wallet, asked, orders>>,
         Typed(k, K), ~clash /\ SettledNow => Means(k, K)'
  PROVE  TradeIInv'
<1>1. TradeTypes
  BY DEF TradeIInv
<1>2. TradeTypes'
  <2>1. data["setting"] \in (1..Len(forms')) \cup {None}
    <3>1. Len(forms) \in Nat /\ Len(forms') \in Nat
      BY <1>1 DEF TradeTypes
    <3> QED
      BY <1>1, <3>1 DEF TradeTypes
  <2> QED
    BY <1>1, <2>1 DEF TradeTypes
<1>3. /\ Shaped(k)' /\ k.on = "setting" /\ Sure(k.todo, K, Settled)
      /\ calls' = [calls EXCEPT ![c] = k]
  BY DEF Begins, Shaped, Single
<1>4. clash' \in BOOLEAN /\ (clash \/ Meets("setting") => clash')
  BY TradeMeets
<1> QED
  BY <1>2, <1>3, <1>4, TradeStarts

LEMMA LightMore ==
  ASSUME NEW s, NEW t, NEW K, NEW L, NEW M, NEW N, Sure(s, K, L), Sure(t, M, N), Light(s), Light(t)
  PROVE  Light(s \o t)
<1>1. s \in Seq(TradeStepOf) /\ t \in Seq(TradeStepOf)
  BY DEF Sure
<1>2. PICK n, m : n = Len(s) /\ m = Len(t) /\ n \in Nat /\ m \in Nat
  <2>1. Len(s) \in Nat /\ Len(t) \in Nat
    BY <1>1
  <2> QED
    BY <2>1
<1>3. PICK u : u = s \o t
  OBVIOUS
<1>4. /\ Len(u) = n + m
      /\ \A i \in 1..n : u[i] = s[i]
      /\ \A i \in (n + 1)..(n + m) : u[i] = t[i - n] /\ i - n \in 1..m
  BY <1>1, <1>2, <1>3
<1>5. \A i \in 1..(n + m) : i \in 1..n \/ i \in (n + 1)..(n + m)
  BY <1>2
<1> QED
  BY <1>2, <1>3, <1>4, <1>5 DEF Light

LEMMA LightOne ==
  /\ \A t : Light(Trade!Tell(t))
  /\ \A d \in Lightly : Light(Trade!Await(d))
  /\ Light(<<>>)
BY DEF Light, Lightly, Trade!Tell, Trade!Await

ShownOf(steps) == Sure(steps, Settled, Settled) /\ Light(steps)

LEMMA LightSeqs ==
  /\ \A t \in TradeTarget : ShownOf(Trade!Tell(t)) /\ ShownOf(Trade!Tell(None) \o Trade!Tell(t))
  /\ ShownOf(Trade!Tidy) /\ ShownOf(Trade!Tell(None) \o <<>>)
  /\ ShownOf(Trade!Await("token") \o Trade!get_setting_from_db \o Trade!Tell(None))
<1>1. \A t \in TradeTarget : ShownOf(Trade!Tell(t))
  BY LightOne, ShownSeqs DEF ShownOf
<1>2. None \in TradeTarget /\ Sure(<<>>, Settled, Settled)
  BY TradeTargets, FactSets, SureNone
<1>3. \A t \in TradeTarget : ShownOf(Trade!Tell(None) \o Trade!Tell(t))
  BY <1>1, <1>2, ShownSeqs, LightMore DEF ShownOf
<1>4. ShownOf(Trade!Tell(None) \o <<>>)
  BY <1>1, <1>2, LightOne, ShownSeqs, LightMore DEF ShownOf
<1>5. ShownOf(Trade!Tidy)
  BY <1>1, <1>2 DEF Trade!Tidy
<1>6. Light(Trade!Await("token") \o Trade!get_setting_from_db \o Trade!Tell(None))
  <2>1. Light(Trade!Await("token")) /\ Light(Trade!Await("owner")) /\ Light(Trade!Await("fetch"))
    BY LightOne DEF Lightly
  <2>2. PICK O, F : O = Trade!Await("owner") /\ F = Trade!Await("fetch")
    OBVIOUS
  <2>3. /\ Sure(O, Settled, Settled \cup {"wallet"})
        /\ Sure(F, Settled \cup {"wallet"}, Ready)
        /\ Sure(Trade!Await("token"), Settled, Settled)
    <3>1. Settled \cup {"wallet"} \in SUBSET Facts /\ Ready \in SUBSET Facts /\ Settled \in SUBSET Facts
      BY DEF Facts, Ready, Settled
    <3>2. Needs("owner") \subseteq Settled /\ Settled \cup {"wallet"} \subseteq After(Settled, "owner")
          /\ "owner" \in TradeDo
      BY DEF Needs, After, Kills, Gives, TradeDo, Settled
    <3>3. Needs("fetch") \subseteq Settled \cup {"wallet"} /\ "fetch" \in TradeDo
          /\ Ready \subseteq After(Settled \cup {"wallet"}, "fetch")
      BY DEF Needs, After, Kills, Gives, TradeDo, Settled, Ready
    <3> QED
      BY <2>2, <3>1, <3>2, <3>3, TradeAwaits, TokenSure
  <2>4. Light(O \o F) /\ Sure(O \o F, Settled, Ready)
    BY <2>1, <2>2, <2>3, LightMore, SureMore
  <2>5. PICK G : G = Trade!get_setting_from_db
    OBVIOUS
  <2>6. Light(G) /\ Sure(G, Settled, Ready)
    BY <2>2, <2>4, <2>5 DEF Trade!get_setting_from_db
  <2>7. Light(Trade!Await("token") \o G) /\ Sure(Trade!Await("token") \o G, Settled, Ready)
    BY <2>1, <2>3, <2>6, LightMore, SureMore
  <2>8. Light(Trade!Tell(None)) /\ Sure(Trade!Tell(None), Settled, Settled)
    BY <1>1, <1>2 DEF ShownOf
  <2> QED
    BY <2>5, <2>7, <2>8, LightMore
<1>7. ShownOf(Trade!Await("token") \o Trade!get_setting_from_db \o Trade!Tell(None))
  BY <1>6, MenuSeqs DEF ShownOf
<1> QED
  BY <1>1, <1>3, <1>4, <1>5, <1>7

LEMMA Waiting ==
  ASSUME NEW c, calls[c].todo = <<>> \/ calls[c].on = "" PROVE ~Works(calls[c])
BY DEF Works

\* A handler that shows something: a menu, a prompt, or nothing new.
Shows(c) ==
  \E on, steps :
    /\ on = "" /\ ShownOf(steps) /\ Trade!Runs(c, on, None, steps)
    /\ UNCHANGED <<rows, forms, wallet, asked, orders>> /\ SameData /\ ~Works(calls[c])

LEMMA ShowsKeeps ==
  ASSUME TradeIInv, NEW c \in Slot, Shows(c) PROVE TradeIInv'
<1>1. PICK on, steps :
        /\ on = "" /\ ShownOf(steps) /\ Trade!Runs(c, on, None, steps)
        /\ UNCHANGED <<rows, forms, wallet, asked, orders>> /\ SameData /\ ~Works(calls[c])
  BY DEF Shows
<1>2. on # "setting"
  BY <1>1
<1> QED
  BY <1>1, <1>2, LightStart DEF ShownOf

LEMMA PromptShows ==
  ASSUME TradeIInv, NEW c \in Slot, calls[c].todo = <<>> \/ calls[c].on = "",
         NEW f \in {"quick", "sandwichBps", "buyFee", "sellFee", "buyAmount", "sellAmount"},
         Trade!Prompt(c, f)
  PROVE  Shows(c)
<1>1. ShownOf(Trade!Tell(Trade!InState(f)))
  BY TradeTargets, LightSeqs
<1>2. SameData
  <2>1. PICK v : v = TRUE
    OBVIOUS
  <2>2. data' = [data EXCEPT !["card"] = v]
    BY <2>1 DEF Trade!Prompt
  <2> QED
    BY <2>2, CardOnly
<1>3. Trade!Runs(c, "", None, Trade!Tell(Trade!InState(f))) /\ UNCHANGED <<rows, forms, wallet, asked, orders>>
  BY DEF Trade!Prompt, Trade!tradeVars
<1> QED
  BY <1>1, <1>2, <1>3, Waiting DEF Shows

LEMMA TradePrompts ==
  ASSUME TradeIInv, NEW c \in Slot,
         \/ Trade!edit_quick_slippage(c) \/ Trade!edit_sandwich_slippage(c)
         \/ Trade!edit_buy_priority_fee(c) \/ Trade!edit_sell_priority_fee(c)
         \/ Trade!set_buy_amount(c) \/ Trade!set_sell_amount(c)
  PROVE  Shows(c)
<1>1. PICK f \in {"quick", "sandwichBps", "buyFee", "sellFee", "buyAmount", "sellAmount"} :
        Trade!Prompt(c, f) /\ (calls[c].todo = <<>> \/ calls[c].on = "")
  BY DEF Trade!edit_quick_slippage, Trade!edit_sandwich_slippage, Trade!edit_buy_priority_fee,
         Trade!edit_sell_priority_fee, Trade!set_buy_amount, Trade!set_sell_amount, Trade!WithSetting
<1> QED
  BY <1>1, PromptShows

LEMMA TradeShows ==
  ASSUME TradeIInv, NEW c \in Slot,
         \/ Trade!Reinput(c) \/ Trade!start_swap(c) \/ Trade!info_command(c) \/ Trade!refresh(c)
         \/ Trade!export(c) \/ Trade!import_wallet(c)
  PROVE  Shows(c)
<1>1. \A t \in TradeTarget : ShownOf(Trade!Tell(t)) /\ ShownOf(Trade!Tell(None) \o Trade!Tell(t))
  BY LightSeqs
<1>2. /\ None \in TradeTarget /\ Trade!MenuOfWallet \in TradeTarget
      /\ <<"swap", "token">> \in TradeTarget /\ <<"wallet", "key">> \in TradeTarget
  BY TradeTargets
<1>3. calls[c].on = "" /\ UNCHANGED <<data, rows, forms, wallet, asked, orders>>
  BY DEF Trade!Reinput, Trade!start_swap, Trade!info_command, Trade!refresh,
         Trade!export, Trade!import_wallet, Trade!Quiet, Trade!tradeVars
<1>4. SameData /\ ~Works(calls[c])
  BY <1>3, CardOnly, Waiting
<1>5. \E steps : ShownOf(steps) /\ Trade!Runs(c, "", None, steps)
  <2>1. CASE Trade!Reinput(c)
    BY <2>1, <1>1, <1>2 DEF Trade!Reinput
  <2>2. CASE Trade!start_swap(c)
    BY <2>2, <1>1, <1>2 DEF Trade!start_swap
  <2>3. CASE Trade!info_command(c)
    BY <2>3, LightSeqs DEF Trade!info_command
  <2>4. CASE Trade!refresh(c)
    BY <2>4, <1>1, <1>2 DEF Trade!refresh
  <2>5. CASE Trade!export(c)
    BY <2>5, <1>1, <1>2 DEF Trade!export
  <2>6. CASE Trade!import_wallet(c)
    <3>1. CASE data["card"] = None
      BY <2>6, <3>1, LightSeqs DEF Trade!import_wallet
    <3>2. CASE data["card"] # None
      BY <2>6, <3>2, <1>1, <1>2 DEF Trade!import_wallet
    <3> QED
      BY <3>1, <3>2
  <2> QED
    BY <2>1, <2>2, <2>3, <2>4, <2>5, <2>6
<1> QED
  BY <1>3, <1>4, <1>5 DEF Shows

LEMMA NewWalletShows ==
  ASSUME TradeIInv, NEW c \in Slot, Trade!new_wallet(c) PROVE Shows(c)
<1>1. ShownOf(Trade!Tell(None))
  BY TradeTargets, LightSeqs
<1>2. SameData
  <2>1. PICK v : v = TRUE
    OBVIOUS
  <2>2. data' = [data EXCEPT !["card"] = v]
    BY <2>1 DEF Trade!new_wallet
  <2> QED
    BY <2>2, CardOnly
<1>3. Trade!Runs(c, "", None, Trade!Tell(None)) /\ UNCHANGED <<rows, forms, wallet, asked, orders>>
      /\ calls[c].on = ""
  BY DEF Trade!new_wallet, Trade!tradeVars
<1> QED
  BY <1>1, <1>2, <1>3, Waiting DEF Shows

\* Handlers that read the setting first begin with nothing of their own.
LEMMA ReadersKeep ==
  ASSUME TradeIInv, NEW c \in Slot, NEW steps, Sure(steps, Settled, Settled),
         Trade!Runs(c, "setting", None, steps), UNCHANGED <<data, rows, forms, wallet, asked, orders>>
  PROVE  TradeIInv'
<1>1. TradeTypes
  BY DEF TradeIInv
<1>2. Calm /\ Len(forms') >= Len(forms)
  BY <1>1, Unmoved
<1>3. PICK k : Begins(c, k, "setting", None, {}, steps)
  BY RunsBegins
<1>4. Typed(k, Settled) /\ Settled \in SUBSET Facts
  BY <1>3, FactSets DEF Typed, Settled, Has, Begins
<1>5. ASSUME SettledNow PROVE Means(k, Settled)'
  <2>1. SettledNow'
    BY <1>1, <1>2, <1>5, CalmSettled
  <2> QED
    BY <2>1 DEF Means, Settled, SettledNow
<1>6. forms' \in Seq(TradeForm)
  BY <1>1 DEF TradeTypes
<1>7. clash' = (clash \/ Trade!Meets("setting"))
  BY RunsBegins
<1>8. None \in (1..Len(forms')) \cup {None} /\ {} \in SUBSET TradeWrite /\ Single({})
  BY DEF Single
<1> QED
  BY <1>2, <1>3, <1>4, <1>5, <1>6, <1>7, <1>8, SettingStart

LEMMA TradeReaders ==
  ASSUME TradeIInv, NEW c \in Slot,
         \/ Trade!setting_menu(c) \/ Trade!show_token_menu(c) \/ Trade!refresh_token_menu(c)
         \/ Trade!toggle_quick_mode(c) \/ Trade!toggle_sandwich_mode(c)
  PROVE  TradeIInv'
<1>1. UNCHANGED <<data, rows, forms, wallet, asked, orders>>
  BY DEF Trade!setting_menu, Trade!show_token_menu, Trade!refresh_token_menu, Trade!toggle_quick_mode,
         Trade!toggle_sandwich_mode, Trade!ShowToken, Trade!Toggle, Trade!Quiet, Trade!tradeVars
<1>2. \E steps : Sure(steps, Settled, Settled) /\ Trade!Runs(c, "setting", None, steps)
  <2>1. CASE Trade!setting_menu(c)
    BY <2>1, SettingSeqs DEF Trade!setting_menu, Trade!Setting
  <2>2. CASE Trade!show_token_menu(c) \/ Trade!refresh_token_menu(c)
    BY <2>2, MenuSeqs DEF Trade!show_token_menu, Trade!refresh_token_menu, Trade!ShowToken, Trade!Setting
  <2>3. CASE Trade!toggle_quick_mode(c)
    BY <2>3, MenuSeqs DEF Trade!toggle_quick_mode, Trade!Toggle, Trade!Setting
  <2>4. CASE Trade!toggle_sandwich_mode(c)
    BY <2>4, MenuSeqs DEF Trade!toggle_sandwich_mode, Trade!Toggle, Trade!Setting
  <2> QED
    BY <2>1, <2>2, <2>3, <2>4
<1> QED
  BY <1>1, <1>2, ReadersKeep

LEMMA TradeLoadFirst ==
  ASSUME TradeIInv, NEW c \in Slot, Trade!LoadFirst(c) PROVE TradeIInv'
<1>1. TradeTypes
  BY DEF TradeIInv
<1>2. UNCHANGED <<data, rows, forms, wallet, asked, orders>> /\ clash' = (clash \/ Trade!Meets("setting"))
  BY DEF Trade!LoadFirst, Trade!Quiet, Trade!tradeVars, Trade!Setting
<1>3. Calm /\ Len(forms') >= Len(forms) /\ TradeTypes'
  BY <1>1, <1>2, Unmoved
<1>4. PICK o, steps : o = calls[c] /\ steps = Trade!get_setting_from_db \o Trade!Await("resume")
  OBVIOUS
<1>5. PICK k : k = [o EXCEPT !.todo = steps, !.on = "setting"]
  OBVIOUS
<1>6. Shaped(o) /\ DOMAIN o = {"seen", "todo", "on", "form", "write"}
  BY <1>4 DEF TradeIInv, Shaped
<1>7. /\ DOMAIN k = {"seen", "todo", "on", "form", "write"}
      /\ k.todo = steps /\ k.on = "setting" /\ k.form = o.form /\ k.write = o.write
  BY <1>5, <1>6
<1>8. Shaped(k)'
  BY <1>2, <1>6, <1>7 DEF Shaped
<1>9. calls' = [calls EXCEPT ![c] = k]
  BY <1>4, <1>5 DEF Trade!LoadFirst, Trade!Setting, TradeIInv
<1>10. Sure(k.todo, Settled, Settled) /\ Typed(k, Settled) /\ Settled \in SUBSET Facts
  <2>1. o.on # "setting"
    BY <1>4 DEF Trade!LoadFirst
  <2>2. ~Has(o, "replaced") /\ ~Has(o, "prompting")
    BY <1>6, <2>1 DEF Shaped, Unmarked
  <2> QED
    BY <1>4, <1>7, <2>2, SettingSeqs, FactSets DEF Typed, Settled, Has
<1>11. ASSUME SettledNow PROVE Means(k, Settled)'
  <2>1. SettledNow'
    BY <1>1, <1>3, <1>11, CalmSettled
  <2> QED
    BY <2>1 DEF Means, Settled, SettledNow
<1>12. clash' \in BOOLEAN /\ (clash \/ Meets("setting") => clash')
  BY <1>2, TradeMeets
<1> QED
  BY <1>3, <1>7, <1>8, <1>9, <1>10, <1>11, <1>12, TradeStarts

\* A change of the setting in the data goes on with a copy of it.
LEMMA ChangeKeeps ==
  ASSUME TradeIInv, NEW c \in Slot, data["setting"] # None, NEW value,
         forms[data["setting"]].value \in TradeValue => value \in TradeValue,
         NEW put, put = [forms[data["setting"]] EXCEPT !.value = value],
         forms' = Append([forms EXCEPT ![data["setting"]] = put], put),
         NEW after, Sure(after, Settled, Settled),
         Trade!Runs(c, "setting", Len(forms) + 1, Trade!Await("set") \o after),
         UNCHANGED <<data, rows, wallet, asked, orders>>
  PROVE  TradeIInv'
<1>1. TradeTypes /\ Len(forms) \in Nat
  BY DEF TradeIInv, TradeTypes
<1>2. PICK i, n : i = data["setting"] /\ n = Len(forms) + 1
  OBVIOUS
<1>3. i \in 1..Len(forms) /\ forms[i] \in TradeForm
  BY <1>1, <1>2 DEF TradeTypes
<1>4. put \in TradeForm /\ put.row = forms[i].row
  BY <1>2, <1>3 DEF TradeForm
<1>5. PICK g : g = [forms EXCEPT ![i] = put]
  OBVIOUS
<1>6. g \in Seq(TradeForm) /\ Len(g) = Len(forms) /\ g[i] = put
  BY <1>1, <1>3, <1>4, <1>5 DEF TradeTypes
<1>7. /\ forms' \in Seq(TradeForm) /\ Len(forms') = n /\ forms'[n] = put /\ forms'[i] = put
  BY <1>1, <1>2, <1>3, <1>4, <1>5, <1>6
<1>8. PICK K : K = {"form", "pair", "kept", "asked"}
  OBVIOUS
<1>9. K \in SUBSET Facts /\ Sure(Trade!Await("set") \o after, K, Settled)
  BY <1>8, ChangeSeqs DEF Facts
<1>10. PICK k : Begins(c, k, "setting", n, {}, Trade!Await("set") \o after)
  BY <1>2, RunsBegins
<1>11. n # None /\ n \in 1..n /\ n >= Len(forms)
  BY <1>1, <1>2, BotAssumption
<1>12. Typed(k, K)
  BY <1>8, <1>10, <1>11 DEF Typed, Begins, Has
<1>13. ASSUME SettledNow PROVE Means(k, K)'
  <2>1. k.form = n
    BY <1>10 DEF Begins
  <2>2. put.row = wallet
    BY <1>2, <1>4, <1>13 DEF SettledNow, DataSaved, Saved
  <2>3. WalletKept' /\ AskedSame'
    BY <1>13 DEF SettledNow, WalletKept, AskedSame
  <2> HIDE DEF WalletKept, AskedSame
  <2> QED
    BY <1>2, <1>7, <1>8, <1>11, <2>1, <2>2, <2>3 DEF Means
<1>14. clash' = (clash \/ Trade!Meets("setting"))
  BY <1>2, RunsBegins
<1>15. n \in (1..Len(forms')) \cup {None} /\ {} \in SUBSET TradeWrite /\ Len(forms') >= Len(forms)
       /\ Single({})
  BY <1>7, <1>11 DEF Single
<1> QED
  BY <1>7, <1>9, <1>10, <1>12, <1>13, <1>14, <1>15, SettingStart

LEMMA SettingInData ==
  ASSUME TradeIInv, data["setting"] # None
  PROVE  forms[data["setting"]] \in TradeForm /\ forms[data["setting"]].value \in TradeValue
<1>1. forms[data["setting"]] \in TradeForm
  BY DEF TradeIInv, TradeTypes
<1> QED
  BY <1>1 DEF TradeForm

LEMMA TradeToggles ==
  ASSUME TradeIInv, NEW c \in Slot,
         \/ Trade!toggle_auto_slippage(c) \/ Trade!toggle_auto_buy(c) \/ Trade!toggle_auto_sell(c)
  PROVE  TradeIInv'
<1>1. data["setting"] # None
  BY DEF Trade!toggle_auto_slippage, Trade!toggle_auto_buy, Trade!toggle_auto_sell, Trade!WithSetting,
         Trade!Setting
<1>2. PICK v : v = forms[data["setting"]].value
  OBVIOUS
<1>3. v \in TradeValue /\ forms[data["setting"]] \in TradeForm
  BY <1>1, <1>2, SettingInData
<1>4. Sure(Trade!Tell(None), Settled, Settled)
  BY ShownSeqs, TradeTargets
<1>5. \E value \in TradeValue : \E put :
        /\ put = [forms[data["setting"]] EXCEPT !.value = value]
        /\ forms' = Append([forms EXCEPT ![data["setting"]] = put], put)
        /\ Trade!Runs(c, "setting", Len(forms) + 1, Trade!Await("set") \o Trade!Tell(None))
        /\ UNCHANGED <<data, rows, wallet, asked, orders>>
  <2>1. CASE Trade!toggle_auto_slippage(c)
    <3>1. PICK x : x = Trade!FlipAuto(v)
      OBVIOUS
    <3>2. x \in TradeValue
      BY <1>3, <3>1, TradeChanges
    <3>3. [forms[data["setting"]] EXCEPT !.value = Trade!FlipAuto(@)] = [forms[data["setting"]] EXCEPT !.value = x]
      BY <1>2, <3>1
    <3> QED
      BY <2>1, <3>2, <3>3 DEF Trade!toggle_auto_slippage, Trade!Change, Trade!Setting, Trade!tradeVars
  <2>2. CASE Trade!toggle_auto_buy(c)
    <3>1. PICK x : x = Trade!FlipBuy(v)
      OBVIOUS
    <3>2. x \in TradeValue
      BY <1>3, <3>1, TradeChanges
    <3>3. [forms[data["setting"]] EXCEPT !.value = Trade!FlipBuy(@)] = [forms[data["setting"]] EXCEPT !.value = x]
      BY <1>2, <3>1
    <3> QED
      BY <2>2, <3>2, <3>3 DEF Trade!toggle_auto_buy, Trade!Change, Trade!Setting, Trade!tradeVars
  <2>3. CASE Trade!toggle_auto_sell(c)
    <3>1. PICK x : x = Trade!FlipSell(v)
      OBVIOUS
    <3>2. x \in TradeValue
      BY <1>3, <3>1, TradeChanges
    <3>3. [forms[data["setting"]] EXCEPT !.value = Trade!FlipSell(@)] = [forms[data["setting"]] EXCEPT !.value = x]
      BY <1>2, <3>1
    <3> QED
      BY <2>3, <3>2, <3>3 DEF Trade!toggle_auto_sell, Trade!Change, Trade!Setting, Trade!tradeVars
  <2> QED
    BY <2>1, <2>2, <2>3
<1> QED
  BY <1>1, <1>4, <1>5, ChangeKeeps

LEMMA TradeEntered ==
  ASSUME TradeIInv, NEW c \in Slot,
         NEW f \in {"quick", "sandwichBps", "buyFee", "sellFee", "buyAmount", "sellAmount"},
         NEW to \in TradeTarget, Trade!Entered(c, f, Trade!Tell(to))
  PROVE  TradeIInv'
<1>1. data["setting"] # None /\ calls[c].todo = <<>>
  BY DEF Trade!Entered, Trade!WithSetting, Trade!Setting
<1>2. PICK v : v = forms[data["setting"]].value
  OBVIOUS
<1>3. v \in TradeValue /\ forms[data["setting"]] \in TradeForm
  BY <1>1, <1>2, SettingInData
<1>4. CASE Shows(c)
  BY <1>4, ShowsKeeps
<1>5. CASE ~Shows(c)
  <2>1. ASSUME Trade!Runs(c, "", None, Trade!Tidy), UNCHANGED <<data, rows, forms, wallet, asked, orders>>
        PROVE  Shows(c)
    <3>1. SameData /\ ~Works(calls[c]) /\ ShownOf(Trade!Tidy)
      BY <1>1, <2>1, CardOnly, Waiting, LightSeqs
    <3> QED
      BY <2>1, <3>1 DEF Shows
  <2>2. PICK n \in {1, 2} :
          /\ forms' = LET put == [forms[data["setting"]] EXCEPT !.value = [@ EXCEPT ![f] = n]]
                      IN Append([forms EXCEPT ![data["setting"]] = put], put)
          /\ Trade!Runs(c, "setting", Len(forms) + 1, Trade!Await("set") \o (Trade!Tidy \o Trade!Tell(to)))
          /\ UNCHANGED <<data, rows, wallet, asked, orders>>
    BY <1>5, <2>1 DEF Trade!Entered, Trade!Change, Trade!Setting, Trade!tradeVars, Trade!Numbers, Trade!Quiet
  <2>3. PICK x : x = [v EXCEPT ![f] = n]
    OBVIOUS
  <2>4. x \in TradeValue
    BY <1>3, <2>3, TradeChanges
  <2>5. PICK put : put = [forms[data["setting"]] EXCEPT !.value = x]
    OBVIOUS
  <2>6. forms' = Append([forms EXCEPT ![data["setting"]] = put], put)
    BY <1>2, <2>2, <2>3, <2>5
  <2>7. Sure(Trade!Tidy \o Trade!Tell(to), Settled, Settled)
    BY ShownSeqs DEF Trade!Tidy
  <2> QED
    BY <1>1, <2>2, <2>4, <2>5, <2>6, <2>7, ChangeKeeps
<1> QED
  BY <1>4, <1>5

LEMMA TradeAnswers ==
  ASSUME TradeIInv, NEW c \in Slot,
         \/ Trade!handle_quick_slippage(c) \/ Trade!handle_sandwich_slippage(c)
         \/ Trade!handle_buy_priority_fee(c) \/ Trade!handle_sell_priority_fee(c)
         \/ Trade!handle_custom_buy_amount(c) \/ Trade!handle_custom_sell_amount(c)
  PROVE  TradeIInv'
<1>1. None \in TradeTarget /\ <<>> \in TradeTarget
  BY TradeTargets
<1>2. \E f \in {"quick", "sandwichBps", "buyFee", "sellFee", "buyAmount", "sellAmount"}, to \in TradeTarget :
        Trade!Entered(c, f, Trade!Tell(to))
  BY <1>1 DEF Trade!handle_quick_slippage, Trade!handle_sandwich_slippage, Trade!handle_buy_priority_fee,
              Trade!handle_sell_priority_fee, Trade!handle_custom_buy_amount, Trade!handle_custom_sell_amount
<1> QED
  BY <1>2, TradeEntered

\* The wallets imports have replaced, and the tokens of the prompts to be shown.
LEMMA MarksFit == TradeIInv => Trade!Replaced \subseteq Wallet /\ Trade!Prompting \subseteq {1, 2}
<1> SUFFICES ASSUME TradeIInv PROVE Trade!Replaced \subseteq Wallet /\ Trade!Prompting \subseteq {1, 2}
  OBVIOUS
<1>1. ASSUME NEW e \in TradeWrite
      PROVE  (e[1] = "replaced" => e[2] \in Wallet) /\ (e[1] = "prompting" => e[2] \in {1, 2})
  BY DEF TradeWrite
<1>2. \A d \in Slot : calls[d].write \subseteq TradeWrite
  BY DEF TradeIInv, Shaped
<1>3. \A d \in Slot : Trade!Kept(d, "replaced") \subseteq Wallet /\ Trade!Kept(d, "prompting") \subseteq {1, 2}
  BY <1>1, <1>2 DEF Trade!Kept
<1> QED
  BY <1>3 DEF Trade!Replaced, Trade!Prompting

\* What an order or its prompt begins with.
Brings(X, t, carried) ==
  \/ X = {} /\ carried = {<<"token", t>>}
  \/ X = {"answer"} /\ t = data["token"] /\ carried = Trade!Answering

Begun(X, t, write) ==
  /\ write \subseteq TradeWrite
  /\ \A w \in write : \/ w[1] = "token" /\ w[2] = t
                      \/ w[1] = "wallet" /\ w[2] = data["wallet"] /\ data["wallet"] # None
                      \/ w[1] \in {"was", "prompt"}
  /\ \E w \in write : w[1] = "token"
  /\ data["wallet"] # None => \E w \in write : w[1] = "wallet"
  /\ "answer" \in X => \E w \in write : w[1] = "prompt"
  /\ \A v \in {wallet} \cup Trade!Replaced : \E w \in write : w[1] = "was" /\ w[2] = v
  /\ X = {} => \A w \in write : w[1] # "prompt"
  /\ "answer" \in X => \A v \in {asked} \cup Trade!Prompting :
                          \E w \in write : w[1] = "prompt" /\ w[2] = v

LEMMA BeginsWith ==
  ASSUME TradeIInv, NEW X, NEW t \in {1, 2}, NEW carried, Brings(X, t, carried)
  PROVE  Begun(X, t, Trade!Known \cup carried)
<1> SUFFICES ASSUME NEW write, write = Trade!Known \cup carried PROVE Begun(X, t, write)
  OBVIOUS
<1>1. TradeTypes
  BY DEF TradeIInv
<1>2. PICK p, q : p = <<"token", t>> /\ q = <<"wallet", data["wallet"]>>
  OBVIOUS
<1>3. /\ p[1] = "token" /\ p[2] = t /\ p \in TradeWrite /\ q[1] = "wallet" /\ q[2] = data["wallet"]
      /\ data["wallet"] # None => q \in TradeWrite
  BY <1>1, <1>2 DEF TradeWrite, TradeTypes
<1>4. PICK V, P : /\ V = {<<"was", w>> : w \in {wallet} \cup Trade!Replaced}
                  /\ P = {<<"prompt", u>> : u \in {asked} \cup Trade!Prompting}
  OBVIOUS
<1>5. /\ V \subseteq TradeWrite /\ (\A w \in V : w[1] = "was")
      /\ \A v \in {wallet} \cup Trade!Replaced : \E w \in V : w[1] = "was" /\ w[2] = v
  <2>1. ASSUME NEW v \in {wallet} \cup Trade!Replaced
        PROVE  \E w \in TradeWrite : w = <<"was", v>> /\ w[1] = "was" /\ w[2] = v
    <3>1. v \in Wallet
      BY <1>1, MarksFit DEF TradeTypes
    <3>2. PICK e : e = <<"was", v>>
      OBVIOUS
    <3>3. e \in TradeWrite /\ e[1] = "was" /\ e[2] = v
      BY <3>1, <3>2 DEF TradeWrite
    <3> QED
      BY <3>2, <3>3
  <2> QED
    BY <1>4, <2>1
<1>6. /\ P \subseteq TradeWrite /\ (\A w \in P : w[1] = "prompt") /\ (\E w \in P : w[1] = "prompt")
      /\ \A v \in {asked} \cup Trade!Prompting : \E w \in P : w[1] = "prompt" /\ w[2] = v
  <2>1. ASSUME NEW v \in {asked} \cup Trade!Prompting
        PROVE  \E w \in TradeWrite : w = <<"prompt", v>> /\ w[1] = "prompt" /\ w[2] = v
    <3>1. v \in {1, 2} \cup {None}
      BY <1>1, MarksFit DEF TradeTypes
    <3>2. PICK e : e = <<"prompt", v>>
      OBVIOUS
    <3>3. e \in TradeWrite /\ e[1] = "prompt" /\ e[2] = v
      BY <3>1, <3>2 DEF TradeWrite
    <3> QED
      BY <3>2, <3>3
  <2> QED
    BY <1>4, <2>1
<1>7. Trade!Known = (IF data["wallet"] = None THEN {} ELSE {q}) \cup V
  BY <1>2, <1>4 DEF Trade!Known
<1>8. (X = {} /\ carried = {p}) \/ (X = {"answer"} /\ carried = {p} \cup P)
  BY <1>2, <1>4 DEF Brings, Trade!Answering
<1> QED
  BY <1>3, <1>5, <1>6, <1>7, <1>8 DEF Begun

\* An order or its prompt begins with what the data has.
LEMMA OrdersBegin ==
  ASSUME TradeIInv, NEW c \in Slot, NEW steps, NEW t \in {1, 2}, NEW X, NEW carried,
         Sure(steps, Carrying \cup X, Settled), Brings(X, t, carried),
         Trade!Trade(c, steps, carried)
  PROVE  TradeIInv'
<1>1. TradeTypes
  BY DEF TradeIInv
<1>2. UNCHANGED <<data, rows, forms, wallet, asked, orders>> /\ clash' = (clash \/ Trade!Meets("setting"))
  BY DEF Trade!Trade, Trade!Quiet, Trade!tradeVars, Trade!Setting
<1>3. Calm /\ Len(forms') >= Len(forms)
  BY <1>1, <1>2, Unmoved
<1>4. PICK write, form : write = Trade!Known \cup carried /\ form = data["setting"]
  OBVIOUS
<1>5. PICK k : k = [Idle EXCEPT !.todo = steps, !.on = "setting", !.form = form, !.write = write]
  OBVIOUS
<1>6. /\ DOMAIN k = {"seen", "todo", "on", "form", "write"}
      /\ k.todo = steps /\ k.on = "setting" /\ k.form = form /\ k.write = write
  BY <1>5 DEF Idle
<1>7. Begins(c, k, "setting", form, write, steps)
  <2>1. calls' = [calls EXCEPT ![c] = k]
    BY <1>4, <1>5, TradeIdle DEF Trade!Trade, Trade!Setting
  <2> QED
    BY <1>6, <2>1 DEF Begins
<1>8. PICK K : K = Carrying \cup X
  OBVIOUS
<1>9. K \in SUBSET Facts /\ Sure(steps, K, Settled)
  BY <1>8, CarryingFacts DEF Facts, Brings
<1>10. /\ write \subseteq TradeWrite
       /\ \A w \in write : \/ w[1] = "token" /\ w[2] = t
                           \/ w[1] = "wallet" /\ w[2] = data["wallet"] /\ data["wallet"] # None
                           \/ w[1] \in {"was", "prompt"}
       /\ \E w \in write : w[1] = "token"
       /\ data["wallet"] # None => \E w \in write : w[1] = "wallet"
       /\ "answer" \in X => \E w \in write : w[1] = "prompt"
  <2>1. Begun(X, t, write)
    BY <1>4, BeginsWith
  <2> QED
    BY <2>1 DEF Begun
<1>11. Single(write)
  BY <1>10 DEF Single
<1>12. form \in (1..Len(forms')) \cup {None} /\ forms' \in Seq(TradeForm)
  BY <1>1, <1>2, <1>4 DEF TradeTypes
<1>13. /\ "form" \in K => data["setting"] # None
       /\ "saved" \in K => data["setting"] # None
       /\ "wallet" \in K => data["wallet"] # None
       /\ {"key", "pair", "noted", "mode"} \cap K = {}
       /\ "answer" \in K => "answer" \in X /\ t = data["token"]
  BY <1>8 DEF Carrying, Given, Settled, Brings
<1>14. Typed(k, K)
  BY <1>4, <1>6, <1>10, <1>13 DEF Typed, Has
<1>15. ASSUME SettledNow PROVE Means(k, K)'
  <2>1. SettledNow'
    BY <1>1, <1>3, <1>15, CalmSettled
  <2>2. "saved" \in K => k.form # None /\ Saved(k.form)'
    BY <1>2, <1>4, <1>6, <1>13, <2>1 DEF SettledNow, DataSaved
  <2>3. "wallet" \in K => \A w \in k.write : w[1] = "wallet" => w[2] = wallet'
    BY <1>2, <1>6, <1>10, <1>13, <1>15 DEF SettledNow, WalletKept
  <2>4. "answer" \in K => \A w \in k.write : w[1] = "token" => w[2] = asked'
    <3>1. t # None
      BY BotAssumption
    <3> QED
      BY <1>2, <1>6, <1>10, <1>13, <1>15, <3>1 DEF SettledNow, AskedSame
  <2> QED
    BY <1>13, <2>1, <2>2, <2>3, <2>4 DEF Means, SettledNow
<1> QED
  BY <1>2, <1>3, <1>7, <1>9, <1>10, <1>11, <1>12, <1>14, <1>15, SettingStart

LEMMA TradeButtons ==
  ASSUME TradeIInv, NEW c \in Slot,
         \/ Trade!buy(c) \/ Trade!sell(c) \/ Trade!swap_command(c)
         \/ Trade!start_buyx(c) \/ Trade!start_sellx(c)
  PROVE  TradeIInv'
<1>1. PICK X : X = {} /\ X \in SUBSET {"answer"} /\ Carrying \cup X = Carrying
  <2>1. {} \in SUBSET {"answer"}
    OBVIOUS
  <2>2. Carrying \cup {} = Carrying
    OBVIOUS
  <2> QED
    BY <2>1, <2>2
<1>2. None \in TradeTarget
  BY TradeTargets
<1>3. \E t \in {1, 2} : \E steps : Sure(steps, Carrying, Settled) /\ Trade!Trade(c, steps, {<<"token", t>>})
  <2>1. CASE Trade!buy(c)
    <3>1. PICK d : d = "order" /\ d \in {"order", "orderAsked"} /\ d # "orderAsked"
      OBVIOUS
    <3>2. Sure(Trade!Await("token") \o Trade!Missing \o Trade!Produce(d) \o Trade!Tell(None), Carrying, Settled)
      BY <1>1, <1>2, <3>1, OrderSeqs
    <3>3. PICK t \in {1, 2} :
            Trade!Trade(c, Trade!Await("token") \o Trade!Missing \o Trade!Produce(d) \o Trade!Tell(None),
                        {<<"token", t>>})
      BY <2>1, <3>1 DEF Trade!buy, Trade!Tokens
    <3> QED
      BY <3>2, <3>3
  <2>2. CASE Trade!sell(c)
    <3>1. PICK d : d = "order" /\ d \in {"order", "orderAsked"} /\ d # "orderAsked"
      OBVIOUS
    <3>2. Sure(Trade!Await("token") \o Trade!Missing \o Trade!Await("token") \o Trade!Produce(d) \o Trade!Tell(None),
               Carrying, Settled)
      BY <1>1, <1>2, <3>1, OrderSeqs
    <3>3. PICK t \in {1, 2} :
            Trade!Trade(c, Trade!Await("token") \o Trade!Missing \o Trade!Await("token") \o Trade!Produce(d)
                             \o Trade!Tell(None), {<<"token", t>>})
      BY <2>2, <3>1 DEF Trade!sell, Trade!Tokens
    <3> QED
      BY <3>2, <3>3
  <2>3. CASE Trade!swap_command(c)
    <3>1. PICK t \in {1, 2} :
            Trade!Trade(c, Trade!get_setting_from_db \o Trade!Await("token") \o Trade!Produce("order")
                             \o Trade!Tell(None), {<<"token", t>>})
      BY <2>3 DEF Trade!swap_command, Trade!Tokens
    <3> QED
      BY <3>1, SwapSeqs
  <2>4. CASE Trade!start_buyx(c)
    <3>1. Sure(Trade!Await("token") \o Trade!Missing \o Trade!Await("remember") \o Trade!Await("askBuy"),
               Carrying, Settled)
      BY StartSeqs
    <3>2. PICK t \in {1, 2} :
            Trade!Trade(c, Trade!Await("token") \o Trade!Missing \o Trade!Await("remember") \o Trade!Await("askBuy"),
                        {<<"token", t>>})
      BY <2>4 DEF Trade!start_buyx, Trade!Start, Trade!Tokens
    <3> QED
      BY <3>1, <3>2
  <2>5. CASE Trade!start_sellx(c)
    <3>1. Sure(Trade!Await("token") \o Trade!Missing \o Trade!Await("remember") \o Trade!Await("askSell"),
               Carrying, Settled)
      BY StartSeqs
    <3>2. PICK t \in {1, 2} :
            Trade!Trade(c, Trade!Await("token") \o Trade!Missing \o Trade!Await("remember") \o Trade!Await("askSell"),
                        {<<"token", t>>})
      BY <2>5 DEF Trade!start_sellx, Trade!Start, Trade!Tokens
    <3> QED
      BY <3>1, <3>2
  <2> QED
    BY <2>1, <2>2, <2>3, <2>4, <2>5
<1>4. PICK t \in {1, 2} : \E steps : Sure(steps, Carrying, Settled) /\ Trade!Trade(c, steps, {<<"token", t>>})
  BY <1>3
<1>5. PICK steps : Sure(steps, Carrying, Settled) /\ Trade!Trade(c, steps, {<<"token", t>>})
  BY <1>4
<1>6. Sure(steps, Carrying \cup X, Settled) /\ Brings(X, t, {<<"token", t>>})
  BY <1>1, <1>5 DEF Brings
<1> QED
  BY <1>1, <1>5, <1>6, OrdersBegin

LEMMA TradeAmounts ==
  ASSUME TradeIInv, NEW c \in Slot, Trade!handle_buyx(c) \/ Trade!handle_sellx(c) PROVE TradeIInv'
<1>1. PICK X : X = {"answer"} /\ X \in SUBSET {"answer"}
  OBVIOUS
<1>2. None \in TradeTarget /\ <<>> \in TradeTarget
  BY TradeTargets
<1>3. PICK t : t = data["token"]
  OBVIOUS
<1>4. t \in {1, 2}
  BY <1>3 DEF Trade!handle_buyx, Trade!handle_sellx, TradeIInv, TradeTypes
<1>5. PICK d : d = "orderAsked" /\ d \in {"order", "orderAsked"}
  OBVIOUS
<1>6. /\ Sure(Trade!Await("token") \o Trade!Missing \o Trade!Produce(d) \o Trade!Tell(<<>>), Carrying \cup X, Settled)
      /\ Sure(Trade!Await("token") \o Trade!Missing \o Trade!Await("token") \o Trade!Produce(d) \o Trade!Tell(None),
              Carrying \cup X, Settled)
  BY <1>1, <1>2, <1>5, OrderSeqs
<1>7. \E steps : Sure(steps, Carrying \cup X, Settled) /\ Trade!Trade(c, steps, Trade!Answering)
  <2>1. CASE Trade!handle_buyx(c)
    BY <2>1, <1>3, <1>5, <1>6 DEF Trade!handle_buyx
  <2>2. CASE Trade!handle_sellx(c)
    BY <2>2, <1>3, <1>5, <1>6 DEF Trade!handle_sellx
  <2> QED
    BY <2>1, <2>2
<1>8. Brings(X, t, Trade!Answering)
  BY <1>1, <1>3 DEF Brings
<1> QED
  BY <1>4, <1>7, <1>8, OrdersBegin

LEMMA TradeKey ==
  ASSUME TradeIInv, NEW c \in Slot, Trade!handle_new_private_key(c) PROVE TradeIInv'
<1>1. TradeTypes
  BY DEF TradeIInv
<1>2. PICK steps : steps = Trade!Await("owner") \o Trade!Await("newDefault") \o Trade!Await("register")
                             \o Trade!Tell(None) \o Trade!Await("clear")
  OBVIOUS
<1>3. PICK w \in Wallet :
        /\ calls' = [calls EXCEPT ![c] =
             [Idle EXCEPT !.todo = steps, !.on = "setting", !.write = {<<"key", w>>}]]
        /\ UNCHANGED <<data, rows, forms, wallet, asked, orders>> /\ clash' = (clash \/ Trade!Meets("setting"))
  BY <1>2, TradeIdle DEF Trade!handle_new_private_key, Trade!Quiet, Trade!tradeVars, Trade!Setting
<1>4. Calm /\ Len(forms') >= Len(forms)
  BY <1>1, <1>3, Unmoved
<1>5. PICK p, write : p = <<"key", w>> /\ write = {p}
  OBVIOUS
<1>6. p[1] = "key" /\ p \in TradeWrite
  BY <1>5 DEF TradeWrite
<1>7. PICK k : k = [Idle EXCEPT !.todo = steps, !.on = "setting", !.write = write]
  OBVIOUS
<1>8. /\ DOMAIN k = {"seen", "todo", "on", "form", "write"}
      /\ k.todo = steps /\ k.on = "setting" /\ k.form = None /\ k.write = write
  BY <1>7 DEF Idle
<1>9. Begins(c, k, "setting", None, write, steps)
  BY <1>3, <1>5, <1>7, <1>8 DEF Begins
<1>10. PICK K : K = Settled \cup {"key"}
  OBVIOUS
<1>11. K \in SUBSET Facts /\ Sure(steps, K, Settled)
  BY <1>2, <1>10, KeySeqs DEF Facts, Settled
<1>12. Typed(k, K)
  BY <1>5, <1>6, <1>8, <1>10 DEF Typed, Has, Settled
<1>13. ASSUME SettledNow PROVE Means(k, K)'
  <2>1. SettledNow'
    BY <1>1, <1>4, <1>13, CalmSettled
  <2> QED
    BY <1>10, <2>1 DEF Means, SettledNow, Settled
<1>14. write \in SUBSET TradeWrite /\ forms' \in Seq(TradeForm) /\ None \in (1..Len(forms')) \cup {None}
       /\ Single(write)
  BY <1>1, <1>3, <1>5, <1>6 DEF TradeTypes, Single
<1> QED
  BY <1>3, <1>4, <1>9, <1>11, <1>12, <1>13, <1>14, SettingStart

\* A step of the trading part keeps the invariant.
LEMMA TradeKeeps ==
  ASSUME TradeIInv, NEW c \in Slot, Trade!TradeStep(c) \/ Trade!DataStep(c)
  PROVE  TradeIInv'
<1>1. CASE Shows(c)
  BY <1>1, ShowsKeeps
<1>2. CASE Trade!SettingHandlers(c)
  BY <1>2, <1>1, TradeReaders, TradeLoadFirst, TradeShows, TradeToggles, TradePrompts, TradeAnswers
     DEF Trade!SettingHandlers
<1>3. CASE Trade!SwapHandlers(c)
  BY <1>3, <1>1, TradeReaders, TradeShows, TradeButtons, TradeAmounts DEF Trade!SwapHandlers
<1>4. CASE Trade!WalletHandlers(c)
  BY <1>4, <1>1, TradeShows, NewWalletShows, TradeKey DEF Trade!WalletHandlers
<1>5. CASE \/ Trade!Owner(c) \/ Trade!Fetch(c) \/ Trade!Set(c) \/ Trade!Token(c) \/ Trade!Shown(c)
           \/ Trade!Order(c) \/ Trade!NewDefault(c) \/ Trade!Register(c)
  BY <1>5, TradeOwner, TradeFetch, TradeSet, TradeToken, TradeShown, TradeOrders, TradeNewDefault,
     TradeRegister
<1>6. CASE Trade!SetOwn(c, "setAuto", Trade!FlipAuto) \/ Trade!SetOwn(c, "setSandwich", Trade!FlipSandwich)
  BY <1>6, TradeSetsOwn
<1>7. CASE Trade!DataStep(c)
  BY <1>7, TradeKeep, TradeResume, TradeKeepBoth, TradeRemember, TradeDecide, TradeClear
     DEF Trade!DataStep
<1> QED
  BY <1>2, <1>3, <1>4, <1>5, <1>6, <1>7 DEF Trade!TradeStep

-----------------------------------------------------------------------------
(***************************************************************************)
(* The parts together.                                                     *)
(***************************************************************************)
\* The notifiers and the middlewares have no dialogue of their own.
NoDialogue ==
  /\ calls = [c \in Slot |-> Idle] /\ data = Fresh /\ forms = <<>> /\ rows = <<>>

PartIInv ==
  /\ part = "copytrade" => CopyIInv
  /\ part = "monitor" => MonitorIInv
  /\ part = "trade" => TradeIInv
  /\ part = "access" => DoorIInv /\ NoDialogue
  /\ part = "notify" => NewsIInv /\ NoDialogue

IInv == part \in Parts /\ wallet \in Wallet /\ PartIInv

Known == {"copytrade", "monitor", "trade", "access", "notify"}

LEMMA PartKnown == part \in Parts => part \in Known
BY BotAssumption DEF Known

LEMMA DialogueBegins ==
  ASSUME NEW V, NEW D, NEW N, Suits(V, D, N), forms = <<>>, NEW v \in V, rows = <<v>>,
         data = Fresh, calls = [c \in Slot |-> Idle]
  PROVE  Dialogue(V, D, N)
<1>1. forms \in Seq(Form(V)) /\ Len(forms) = 0
  OBVIOUS
<1>2. rows \in Seq(V \cup {None})
  OBVIOUS
<1>3. data \in [Keys -> (1..Len(forms)) \cup {None}]
  BY DEF Fresh
<1>4. \A c \in Slot : calls[c] = Idle
  OBVIOUS
<1>5. \A c \in Slot : CallFits(calls[c], V, D, N)
  BY <1>4, IdleFits DEF Suits
<1> QED
  BY <1>1, <1>2, <1>3, <1>5 DEF Dialogue

LEMMA FreshData ==
  /\ DOMAIN Fresh = Keys /\ \A k \in Keys : Fresh[k] = None
  /\ {"setting", "wallet", "token", "card", "copytrade_settings", "monitor_settings", "monitor"}
       \subseteq Keys
BY DEF Fresh, Keys

LEMMA ChosenTyped == Trade!ChosenSetting \in TradeValue
<1>1. Trade!DefaultSetting \in TradeValue
  BY DEF Trade!DefaultSetting, TradeValue
<1> QED
  BY <1>1 DEF Trade!ChosenSetting, Trade!DefaultSetting, TradeValue

\* What the trading part begins with.
LEMMA TradeBegins == Init /\ part = "trade" => TradeIInv
<1> SUFFICES ASSUME Init, part = "trade" PROVE TradeIInv
  OBVIOUS
<1>1. /\ wallet = 1 /\ 1 \in Wallet /\ orders = <<>> /\ asked = None /\ clash = FALSE
      /\ calls = [c \in Slot |-> Idle]
  BY BotAssumption DEF Init
<1>2. rows = [w \in Wallet |-> IF w = 1 THEN Trade!ChosenSetting ELSE None]
  BY DEF Init, FirstRows
<1>3. rows \in [Wallet -> TradeValue \cup {None}] /\ rows[1] = Trade!ChosenSetting
  BY <1>1, <1>2, ChosenTyped
<1>4. PICK form : form = [row |-> 1, value |-> Trade!ChosenSetting]
  OBVIOUS
<1>5. form \in TradeForm
  BY <1>1, <1>4, ChosenTyped DEF TradeForm
<1>6. TradeTypes /\ SettledNow
  <2>1. CASE data = Fresh /\ forms = <<>>
    <3>1. /\ forms \in Seq(TradeForm) /\ DOMAIN data = Keys /\ \A k \in Keys : data[k] = None
      BY <2>1, FreshData
    <3> QED
      BY <1>1, <1>3, <3>1, FreshData DEF TradeTypes, SettledNow, DataSaved, WalletKept, AskedSame
  <2>2. CASE ~(data = Fresh /\ forms = <<>>)
    <3>1. PICK t : t = TRUE /\ data = [Fresh EXCEPT !["setting"] = 1, !["wallet"] = 1, !["card"] = t]
      BY <2>2 DEF Init
    <3>2. forms = <<form>>
      BY <1>4, <2>2 DEF Init
    <3>3. /\ DOMAIN data = Keys /\ data["setting"] = 1 /\ data["wallet"] = 1 /\ data["token"] = None
          /\ \A k \in {"copytrade_settings", "monitor_settings", "monitor"} : data[k] = None
      BY <3>1, FreshData
    <3>4. forms \in Seq(TradeForm) /\ Len(forms) = 1 /\ forms[1] = form
      BY <1>5, <3>2
    <3>5. TradeTypes
      BY <1>1, <1>3, <3>3, <3>4 DEF TradeTypes
    <3>6. Saved(1)
      BY <1>1, <1>3, <1>4, <3>4 DEF Saved
    <3> QED
      BY <1>1, <3>3, <3>5, <3>6 DEF SettledNow, DataSaved, WalletKept, AskedSame
  <2> QED
    BY <2>1, <2>2
<1>7. PICK k : k = Idle
  OBVIOUS
<1>8. /\ DOMAIN k = {"seen", "todo", "on", "form", "write"}
      /\ k.todo = <<>> /\ k.on = "" /\ k.form = None /\ k.write = {}
  BY <1>7 DEF Idle
<1>9. Light(k.todo) /\ Sure(k.todo, Settled, Settled)
  <2>1. Light(<<>>) /\ Sure(<<>>, Settled, Settled)
    BY FactSets, SureNone DEF Light
  <2> QED
    BY <1>8, <2>1
<1>10. Shaped(k) /\ ~Works(k)
  BY <1>8, <1>9 DEF Shaped, Works, Single, Unmarked, Has
<1>11. Typed(k, Settled)
  BY <1>8 DEF Typed, Settled, Has
<1>12. Settled \in SUBSET Facts
  BY FactSets
<1>13. Prepared(k)
  BY <1>9, <1>10, <1>11, <1>12 DEF Prepared
<1>14. \A c \in Slot : calls[c] = k
  BY <1>1, <1>7
<1>15. calls = [c \in Slot |-> calls[c]]
  BY <1>1
<1> QED
  BY <1>1, <1>6, <1>10, <1>13, <1>14, <1>15 DEF TradeIInv

LEMMA BotBegins == Init => IInv
<1> SUFFICES ASSUME Init PROVE IInv
  OBVIOUS
<1>1. part \in Parts /\ wallet \in Wallet /\ failures = 0 /\ clash = FALSE
      /\ calls = [c \in Slot |-> Idle]
  BY BotAssumption DEF Init
<1>2. part # "trade" => data = Fresh /\ forms = <<>>
  BY DEF Init
<1>3. CASE part = "copytrade"
  <2>1. rows = <<CopyTrade!StoredRow>>
    BY <1>3 DEF Init, FirstRows
  <2>2. CopyIInv
    BY <1>1, <1>2, <1>3, <2>1, CopySuits, CopyNewForm, DialogueBegins DEF CopyIInv
  <2> QED
    BY <1>1, <1>3, <2>2 DEF IInv, PartIInv
<1>4. CASE part = "monitor"
  <2>1. rows = <<Monitor!StoredRow>>
    BY <1>4 DEF Init, FirstRows
  <2>2. MonitorIInv
    BY <1>1, <1>2, <1>4, <2>1, MonitorSuits, MonitorNewForm, DialogueBegins DEF MonitorIInv
  <2> QED
    BY <1>1, <1>4, <2>2 DEF IInv, PartIInv
<1>5. CASE part = "trade"
  BY <1>1, <1>5, TradeBegins DEF IInv, PartIInv
<1>6. part \in {"access", "notify"} => NoDialogue
  BY <1>1, <1>2 DEF NoDialogue, Init, FirstRows
<1>7. CASE part = "access"
  BY <1>1, <1>6, <1>7, DoorInitial DEF IInv, PartIInv, Init
<1>8. CASE part = "notify"
  BY <1>1, <1>6, <1>8, NewsInitial DEF IInv, PartIInv, Init
<1> QED
  BY <1>1, <1>3, <1>4, <1>5, <1>7, <1>8, PartKnown DEF Known

\* Nothing changes.
LEMMA DialogueStays ==
  ASSUME NEW V, NEW D, NEW N, Dialogue(V, D, N), UNCHANGED <<forms, rows, data, calls>>
  PROVE  Dialogue(V, D, N)'
<1>1. forms' = forms /\ rows' = rows /\ data' = data /\ calls' = calls
  OBVIOUS
<1>2. ASSUME NEW c \in Slot PROVE CallFits(calls[c], V, D, N)'
  <2>1. CallFits(calls[c], V, D, N)
    BY DEF Dialogue
  <2> QED
    BY <1>1, <2>1 DEF CallFits
<1> QED
  BY <1>1, <1>2 DEF Dialogue

LEMMA TradeStays ==
  ASSUME TradeIInv, UNCHANGED <<forms, rows, data, calls, clash, wallet, orders, asked>> PROVE TradeIInv'
<1>1. /\ forms' = forms /\ rows' = rows /\ data' = data /\ calls' = calls /\ clash' = clash
      /\ wallet' = wallet /\ orders' = orders /\ asked' = asked
  OBVIOUS
<1>2. TradeTypes /\ clash \in BOOLEAN /\ calls = [c \in Slot |-> calls[c]]
  BY DEF TradeIInv
<1>3. TradeTypes' /\ (SettledNow => SettledNow')
  BY <1>1, <1>2 DEF TradeTypes, SettledNow, DataSaved, Saved, WalletKept, AskedSame
<1>4. ASSUME NEW c \in Slot PROVE Shaped(calls[c])'
  <2>1. Shaped(calls[c])
    BY DEF TradeIInv
  <2> QED
    BY <1>1, <2>1 DEF Shaped
<1>5. ASSUME NEW c \in Slot PROVE Prepared(calls[c])'
  <2>1. PICK k : k = calls[c]
    OBVIOUS
  <2>2. Shaped(k) /\ Prepared(k)
    BY <2>1 DEF TradeIInv
  <2>3. PICK K \in SUBSET Facts : /\ Sure(k.todo, K, Settled) /\ Typed(k, K)
                                  /\ ~clash /\ Works(k) => Means(k, K)
    BY <2>2 DEF Prepared
  <2>4. Calm
    BY <1>1 DEF Calm
  <2>5. ~clash' /\ Works(k) => Means(k, K)'
    BY <1>1, <1>2, <2>2, <2>3, <2>4, CalmMeans
  <2>6. Prepared(k)'
    BY <2>3, <2>5 DEF Prepared, Works, Typed, Has
  <2>7. calls'[c] = k
    BY <1>1, <2>1
  <2> QED
    BY <2>6, <2>7 DEF Prepared, Works, Typed, Has, Means
<1>6. ~clash => /\ \A c, d \in Slot : Works(calls[c]) /\ Works(calls[d]) => c = d
                /\ (\A c \in Slot : ~Works(calls[c])) => SettledNow
  BY DEF TradeIInv
<1>7. \A c \in Slot : Works(calls[c])' <=> Works(calls[c])
  BY <1>1 DEF Works
<1> QED
  BY <1>1, <1>2, <1>3, <1>4, <1>5, <1>6, <1>7 DEF TradeIInv

LEMMA BotStays == IInv /\ UNCHANGED vars => IInv'
<1> SUFFICES ASSUME IInv, UNCHANGED vars PROVE IInv'
  OBVIOUS
<1>1. /\ UNCHANGED <<forms, rows, data, calls, clash, failures>> /\ UNCHANGED <<wallet, orders, asked>>
      /\ part' = part /\ UNCHANGED doorVars /\ UNCHANGED notifyVars
  BY DEF vars, chatVars, tradeVars
<1>2. CopyIInv => CopyIInv'
  BY <1>1, DialogueStays DEF CopyIInv
<1>3. MonitorIInv => MonitorIInv'
  BY <1>1, DialogueStays DEF MonitorIInv
<1>4. TradeIInv => TradeIInv'
  BY <1>1, TradeStays
<1>5. DoorIInv => DoorIInv'
  BY <1>1, DoorUnchanged
<1>6. NewsIInv => NewsIInv'
  <2>1. news' = news /\ unsent' = unsent /\ told' = told /\ tries' = tries /\ failures' = failures
    BY <1>1 DEF notifyVars
  <2>2. \A k \in News!Kind : TriesOf(k) => TriesOf(k)'
    BY <2>1 DEF TriesOf
  <2>3. \A k \in News!Kind, r \in Reader : ToldOf(k, r) => ToldOf(k, r)'
    BY <2>1 DEF ToldOf, Pending
  <2>4. News!Kind' = News!Kind
    BY DEF News!Kind
  <2> QED
    BY <2>1, <2>2, <2>3, <2>4 DEF NewsIInv
<1>7. NoDialogue => NoDialogue'
  BY <1>1 DEF NoDialogue
<1> QED
  BY <1>1, <1>2, <1>3, <1>4, <1>5, <1>6, <1>7 DEF IInv, PartIInv

\* Where there is no dialogue no step on a table is awaited.
LEMMA NoTable == NoDialogue => \A c \in Slot : ~TableStep(c)
<1> SUFFICES ASSUME NoDialogue, NEW c \in Slot PROVE ~TableStep(c)
  OBVIOUS
<1>1. ~Running(c)
  BY DEF NoDialogue, Idle, Running
<1> QED
  BY <1>1 DEF TableStep, Read, Commit, Insert, Delete, ReadAll, At

LEMMA AnywhereKeeps ==
  ASSUME IInv, NEW c \in Slot, Anywhere(c) PROVE IInv'
<1>1. /\ part \in {"copytrade", "monitor", "trade"}
      /\ Receive(c) \/ Message(c) \/ Fail(c)
      /\ part' = part /\ UNCHANGED tradeVars /\ wallet' = wallet
  BY DEF Anywhere, tradeVars
<1>2. part = "copytrade" => CopyIInv'
  BY <1>1, CopySuits, TableKeeps DEF IInv, PartIInv, CopyIInv
<1>3. part = "monitor" => MonitorIInv'
  BY <1>1, MonitorSuits, TableKeeps DEF IInv, PartIInv, MonitorIInv
<1>4. part = "trade" => TradeIInv'
  BY <1>1, TradeReceive, TradeMessage, TradeFail DEF IInv, PartIInv
<1> QED
  BY <1>1, <1>2, <1>3, <1>4 DEF IInv, PartIInv

LEMMA OnTableKeeps ==
  ASSUME IInv, NEW c \in Slot, OnTable(c) PROVE IInv'
<1>1. TableStep(c) /\ part' = part /\ wallet' = wallet
  BY DEF OnTable, tradeVars
<1>2. part = "copytrade" => CopyIInv'
  BY <1>1, CopySuits, TableKeeps DEF IInv, PartIInv, CopyIInv
<1>3. part = "monitor" => MonitorIInv'
  BY <1>1, MonitorSuits, TableKeeps DEF IInv, PartIInv, MonitorIInv
<1>4. part \notin {"trade", "access", "notify"}
  BY <1>1, NoTableStep, NoTable DEF IInv, PartIInv
<1> QED
  BY <1>1, <1>2, <1>3, <1>4 DEF IInv, PartIInv

\* What the other two parts leave alone.
LEMMA DoorElsewhere ==
  ASSUME (\E s \in Slot : Door!AccessStep(s)) \/ Door!Tick
  PROVE  data' = data /\ forms' = forms /\ rows' = rows /\ calls' = calls
<1>1. ASSUME NEW s \in Slot, Door!AccessStep(s) PROVE Door!Elsewhere
  BY <1>1 DEF Door!AccessStep, Door!Arrive, Door!InitializeMiddleware, Door!AuthorizationMiddleware,
     Door!Serve, Door!start, Door!start_asset, Door!register, Door!create_default, Door!generate_code,
     Door!start_activation_code, Door!OtherText, Door!handle_activation_code,
     Door!get_user_license, Door!activate_user, Door!Activated, Door!Broken
<1>2. Door!Tick => Door!Elsewhere
  BY DEF Door!Tick
<1> QED
  BY <1>1, <1>2 DEF Door!Elsewhere

LEMMA NewsElsewhere ==
  ASSUME News!NotifyStep PROVE data' = data /\ forms' = forms /\ rows' = rows /\ calls' = calls
BY DEF News!NotifyStep, News!Deliver, News!_build_message, News!send_message, News!NotifyError,
   News!_handle_event, News!Restart, News!Elsewhere

LEMMA BotKeeps == IInv /\ [Next]_vars => IInv'
<1> SUFFICES ASSUME IInv, [Next]_vars PROVE IInv'
  OBVIOUS
<1>1. CASE UNCHANGED vars
  BY <1>1, BotStays
<1>2. CASE Next
  <2>1. PICK c \in Slot : \/ Anywhere(c) \/ OnTable(c) \/ InCopyTrade(c) \/ InMonitor(c)
                          \/ InTrade(c) \/ OnData(c) \/ AtTheDoor \/ Notifying
    BY <1>2 DEF Next
  <2>2. CASE InCopyTrade(c)
    <3>1. part = "copytrade" /\ part' = part /\ wallet' = wallet /\ CopyTrade!CopyTradeStep(c)
      BY <2>2 DEF InCopyTrade, tradeVars
    <3>2. CopyIInv'
      BY <3>1, CopyKeeps, BotAssumption DEF IInv, PartIInv
    <3> QED
      BY <3>1, <3>2 DEF IInv, PartIInv
  <2>3. CASE InMonitor(c)
    <3>1. part = "monitor" /\ part' = part /\ wallet' = wallet /\ Monitor!MonitorStep(c)
      BY <2>3 DEF InMonitor, tradeVars
    <3>2. MonitorIInv'
      BY <3>1, MonitorKeeps, BotAssumption DEF IInv, PartIInv
    <3> QED
      BY <3>1, <3>2 DEF IInv, PartIInv
  <2>4. CASE InTrade(c) \/ OnData(c)
    <3>1. part = "trade" /\ part' = part /\ (Trade!TradeStep(c) \/ Trade!DataStep(c))
      BY <2>4 DEF InTrade, OnData
    <3>2. TradeIInv'
      BY <3>1, TradeKeeps DEF IInv, PartIInv
    <3>3. wallet' \in Wallet
      BY <3>2 DEF TradeIInv, TradeTypes
    <3> QED
      BY <3>1, <3>2, <3>3 DEF IInv, PartIInv
  <2>5. CASE AtTheDoor
    <3>1. /\ part = "access" /\ part' = part /\ wallet' = wallet
          /\ (\E s \in Slot : Door!AccessStep(s)) \/ Door!Tick
      BY <2>5 DEF AtTheDoor, tradeVars
    <3>2. DoorIInv'
      BY <3>1, DoorKeeps DEF IInv, PartIInv
    <3>3. data' = data /\ forms' = forms /\ rows' = rows /\ calls' = calls
      BY <3>1, DoorElsewhere
    <3>4. NoDialogue'
      BY <3>1, <3>3 DEF IInv, PartIInv, NoDialogue
    <3> QED
      BY <3>1, <3>2, <3>4 DEF IInv, PartIInv
  <2>6. CASE Notifying
    <3>1. part = "notify" /\ part' = part /\ wallet' = wallet /\ News!NotifyStep
      BY <2>6 DEF Notifying, tradeVars
    <3>2. NewsIInv'
      BY <3>1, NewsKeeps DEF IInv, PartIInv
    <3>3. data' = data /\ forms' = forms /\ rows' = rows /\ calls' = calls
      BY <3>1, NewsElsewhere
    <3>4. NoDialogue'
      BY <3>1, <3>3 DEF IInv, PartIInv, NoDialogue
    <3> QED
      BY <3>1, <3>2, <3>4 DEF IInv, PartIInv
  <2> QED
    BY <2>1, <2>2, <2>3, <2>4, <2>5, <2>6, AnywhereKeeps, OnTableKeeps
<1> QED
  BY <1>1, <1>2

-----------------------------------------------------------------------------
(***************************************************************************)
(* What the invariant shows.                                               *)
(***************************************************************************)
LEMMA DialogueTyped ==
  ASSUME NEW V, NEW D, NEW N, Dialogue(V, D, N)
  PROVE  /\ \A k \in {"copytrade_settings", "monitor_settings", "monitor", "setting"} :
              data[k] \in DOMAIN forms \cup {None}
         /\ \A c \in Slot : calls[c].form \in DOMAIN forms \cup {None}
         /\ \A v \in Values : v \in V
<1>1. DOMAIN forms = 1..Len(forms) /\ data \in [Keys -> (1..Len(forms)) \cup {None}]
  BY DEF Dialogue
<1>2. \A c \in Slot : calls[c].form \in (1..Len(forms)) \cup {None}
  BY DEF Dialogue, CallFits
<1>3. ASSUME NEW v \in Values PROVE v \in V
  <2>1. CASE \E i \in DOMAIN forms : v = forms[i].value
    <3>1. PICK i \in DOMAIN forms : v = forms[i].value
      BY <2>1
    <3>2. forms[i] \in Form(V)
      BY DEF Dialogue
    <3> QED
      BY <3>1, <3>2 DEF Form
  <2>2. CASE \E r \in DOMAIN rows : rows[r] # None /\ v = rows[r]
    BY <2>2 DEF Dialogue
  <2> QED
    BY <2>1, <2>2 DEF Values
<1> QED
  BY <1>1, <1>2, <1>3 DEF Keys

LEMMA TradeTyped ==
  ASSUME TradeIInv
  PROVE  /\ \A k \in {"copytrade_settings", "monitor_settings", "monitor", "setting"} :
              data[k] \in DOMAIN forms \cup {None}
         /\ \A c \in Slot : calls[c].form \in DOMAIN forms \cup {None}
         /\ \A v \in Values : v \in TradeValue
<1>1. TradeTypes /\ DOMAIN forms = 1..Len(forms)
  BY DEF TradeIInv, TradeTypes
<1>2. \A c \in Slot : calls[c].form \in (1..Len(forms)) \cup {None}
  BY DEF TradeIInv, Shaped
<1>3. ASSUME NEW v \in Values PROVE v \in TradeValue
  <2>1. CASE \E i \in DOMAIN forms : v = forms[i].value
    <3>1. PICK i \in DOMAIN forms : v = forms[i].value
      BY <2>1
    <3>2. forms[i] \in TradeForm
      BY <1>1 DEF TradeTypes
    <3> QED
      BY <3>1, <3>2 DEF TradeForm
  <2>2. CASE \E r \in DOMAIN rows : rows[r] # None /\ v = rows[r]
    BY <1>1, <2>2 DEF TradeTypes
  <2> QED
    BY <2>1, <2>2 DEF Values
<1> QED
  BY <1>1, <1>2, <1>3 DEF TradeTypes

LEMMA BotEnough == IInv => Inv
<1> SUFFICES ASSUME IInv PROVE Inv
  OBVIOUS
<1>1. part \in Known /\ part \in Parts /\ wallet \in Wallet /\ PartIInv
  BY PartKnown DEF IInv
<1>2. CASE part = "copytrade"
  <2>1. Dialogue(CopyValue, CopyDo, CopyNeedy)
    BY <1>1, <1>2 DEF PartIInv, CopyIInv
  <2>2. TypeOK
    BY <1>1, <2>1, DialogueTyped DEF TypeOK
  <2>3. \A v \in Values : ~(v.follow /\ v.noSell)
    BY <2>1, DialogueTyped DEF CopyValue
  <2> QED
    BY <1>2, <2>2, <2>3 DEF Inv, ModesExclude
<1>3. CASE part = "monitor"
  <2>1. Dialogue(MonitorValue, MonitorDo, MonitorNeedy)
    BY <1>1, <1>3 DEF PartIInv, MonitorIInv
  <2>2. TypeOK
    BY <1>1, <2>1, DialogueTyped DEF TypeOK
  <2> QED
    BY <1>3, <2>2 DEF Inv, ModesExclude
<1>4. CASE part = "trade"
  <2>1. TradeIInv
    BY <1>1, <1>4 DEF PartIInv
  <2>2. TypeOK
    BY <1>1, <2>1, TradeTyped DEF TypeOK
  <2>3. \A v \in Values : ~(v.auto /\ v.sandwich)
    BY <2>1, TradeTyped DEF TradeValue
  <2> QED
    BY <1>4, <2>2, <2>3 DEF Inv, ModesExclude
<1>5. CASE part \in {"access", "notify"}
  <2>1. NoDialogue
    BY <1>1, <1>5 DEF PartIInv
  <2>2. TypeOK
    <3>1. \A k \in {"copytrade_settings", "monitor_settings", "monitor", "setting"} : data[k] = None
      BY <2>1, FreshData DEF NoDialogue
    <3>2. \A c \in Slot : calls[c].form = None
      BY <2>1 DEF NoDialogue, Idle
    <3> QED
      BY <1>1, <3>1, <3>2 DEF TypeOK
  <2>3. part = "access" => Door!AccessInv /\ Door!ServedInvited
    BY <1>1, DoorEnough DEF PartIInv
  <2>4. part = "notify" => News!NotifyInv
    BY <1>1, NewsEnough DEF PartIInv
  <2> QED
    BY <1>5, <2>2, <2>3, <2>4 DEF Inv, ModesExclude
<1> QED
  BY <1>1, <1>2, <1>3, <1>4, <1>5 DEF Known

\* Whatever updates of the chat overlap, and whichever calls fail: no copy trade both
\* follows sales and holds and no setting is in two modes that exclude one another;
\* licences agree with the codes that were used, nobody without one is served, and a
\* copy trade is acknowledged only when all its readers were told.
THEOREM BotCorrect == Spec => []Inv
<1>1. Init => IInv
  BY BotBegins
<1>2. IInv /\ [Next]_vars => IInv'
  BY BotKeeps
<1>3. IInv => Inv
  BY BotEnough
<1> QED
  BY <1>1, <1>2, <1>3, PTL DEF Spec

LEMMA CopyLeavesRows ==
  ASSUME NEW c \in Slot, CopyTrade!CopyTradeStep(c) PROVE rows' = rows
<1>1. CASE CopyTrade!MenuHandlers(c)
  BY <1>1 DEF CopyTrade!MenuHandlers, CopyTrade!start_copytrade, CopyTrade!refresh_copytrade,
     CopyTrade!stop_all_copytrade
<1>2. CASE CopyTrade!CreateHandlers(c)
  BY <1>2 DEF CopyTrade!CreateHandlers, CopyTrade!start_create_copytrade, CopyTrade!cancel_copytrade,
     CopyTrade!submit_copytrade, CopyTrade!create_start_set_address, CopyTrade!create_set_address,
     CopyTrade!create_start_set_alias, CopyTrade!create_set_alias, CopyTrade!create_start_set_amount,
     CopyTrade!create_set_amount, CopyTrade!create_start_set_priority, CopyTrade!create_set_priority,
     CopyTrade!create_start_set_slippage, CopyTrade!create_set_slippage,
     CopyTrade!create_toggle_auto_follow, CopyTrade!create_toggle_no_sell,
     CopyTrade!create_toggle_anti_sandwich, CopyTrade!create_toggle_auto_slippage,
     CopyTrade!Ask, CopyTrade!CreateAnswer, CopyTrade!Answer, CopyTrade!CreatePress, CopyTrade!Press
<1>3. CASE CopyTrade!EditHandlers(c)
  BY <1>3 DEF CopyTrade!EditHandlers, CopyTrade!handle_copytrade_selection, CopyTrade!back_to_copytrade,
     CopyTrade!edit_start_set_alias, CopyTrade!edit_set_alias, CopyTrade!edit_start_set_amount,
     CopyTrade!edit_set_amount, CopyTrade!edit_start_set_priority, CopyTrade!edit_set_priority,
     CopyTrade!edit_start_set_slippage, CopyTrade!edit_set_slippage, CopyTrade!edit_toggle_auto_follow,
     CopyTrade!edit_toggle_no_sell, CopyTrade!edit_toggle_anti_sandwich,
     CopyTrade!edit_toggle_auto_slippage, CopyTrade!toggle_copytrade, CopyTrade!delete_copytrade,
     CopyTrade!confirm_delete_copytrade, CopyTrade!cancel_delete_copytrade,
     CopyTrade!Ask, CopyTrade!EditAnswer, CopyTrade!Answer, CopyTrade!EditPress, CopyTrade!Press
<1>4. CASE CopyTrade!NewCopytrade(c) \/ CopyTrade!LoadCopytrade(c) \/ CopyTrade!ForgetCopytrade(c)
  BY <1>4 DEF CopyTrade!NewCopytrade, CopyTrade!LoadCopytrade, CopyTrade!Load,
     CopyTrade!ForgetCopytrade, CopyTrade!Forget
<1> QED
  BY <1>1, <1>2, <1>3, <1>4 DEF CopyTrade!CopyTradeStep

LEMMA MonitorLeavesRows ==
  ASSUME NEW c \in Slot, Monitor!MonitorStep(c) PROVE rows' = rows
BY DEF Monitor!MonitorStep, Monitor!enter_monitor_menu, Monitor!stop_all_monitor,
   Monitor!create_new_monitor, Monitor!back_parent, Monitor!submit_monitor,
   Monitor!create_start_set_address, Monitor!create_set_address, Monitor!create_start_set_alias,
   Monitor!create_set_alias, Monitor!handle_monitor_selection, Monitor!LoadMonitor,
   Monitor!edit_start_set_alias, Monitor!edit_set_alias, Monitor!toggle_monitor,
   Monitor!back_to_monitor, Monitor!delete_monitor, Monitor!cancel_delete_monitor,
   Monitor!confirm_delete_monitor, Monitor!ForgetMonitor,
   Monitor!Ask, Monitor!CreateAnswer, Monitor!Answer, Monitor!Press, Monitor!Load, Monitor!Forget

LEMMA TableLeavesDeleted ==
  ASSUME NEW c \in Slot, TableStep(c), rows = [r \in 1..Len(rows) |-> rows[r]], Len(rows) \in Nat,
         NEW r \in DOMAIN rows, rows[r] = None
  PROVE  rows'[r] = None
<1>1. CASE Commit(c)
  BY <1>1 DEF Commit
<1>2. CASE Insert(c)
  <2>1. PICK v : rows' = Append(rows, v)
    BY <1>2 DEF Insert
  <2>2. r \in 1..Len(rows)
    OBVIOUS
  <2> QED
    BY <2>1, <2>2
<1>3. CASE Delete(c)
  BY <1>3 DEF Delete
<1>4. CASE Read(c) \/ ReadAll(c)
  BY <1>4 DEF Read, ReadAll
<1> QED
  BY <1>1, <1>2, <1>3, <1>4 DEF TableStep

LEMMA StepLeavesDeleted ==
  ASSUME IInv, Next, part # "trade", NEW r \in DOMAIN rows, rows[r] = None PROVE rows'[r] = None
<1>1. PICK c \in Slot : \/ Anywhere(c) \/ OnTable(c) \/ InCopyTrade(c) \/ InMonitor(c)
                        \/ InTrade(c) \/ OnData(c) \/ AtTheDoor \/ Notifying
  BY DEF Next
<1>2. CASE Anywhere(c)
  BY <1>2 DEF Anywhere, Receive, Message, Fail
<1>3. CASE OnTable(c)
  <2>1. \E S : rows \in Seq(S)
    <3>1. part = "copytrade" => rows \in Seq(CopyValue \cup {None})
      BY DEF IInv, PartIInv, CopyIInv, Dialogue
    <3>2. part = "monitor" => rows \in Seq(MonitorValue \cup {None})
      BY DEF IInv, PartIInv, MonitorIInv, Dialogue
    <3>3. part \in {"access", "notify"} => rows \in Seq({})
      BY DEF IInv, PartIInv, NoDialogue
    <3> QED
      BY <3>1, <3>2, <3>3, PartKnown DEF Known, IInv
  <2>2. rows = [q \in 1..Len(rows) |-> rows[q]] /\ Len(rows) \in Nat
    BY <2>1
  <2> QED
    BY <1>3, <2>2, TableLeavesDeleted DEF OnTable
<1>4. CASE InCopyTrade(c) \/ InMonitor(c)
  BY <1>4, CopyLeavesRows, MonitorLeavesRows DEF InCopyTrade, InMonitor
<1>5. CASE AtTheDoor \/ Notifying
  BY <1>5, DoorElsewhere, NewsElsewhere DEF AtTheDoor, Notifying
<1> QED
  BY <1>1, <1>2, <1>3, <1>4, <1>5 DEF InTrade, OnData

\* A deleted copy trade or monitor is not written again by a handler that was still at
\* work on it, a prompt that was still open or a save that was already read.
THEOREM DeletedForGood == Spec => DeletedStaysDeleted
<1>1. IInv /\ [Next]_vars
        => [part # "trade" => \A r \in DOMAIN rows : rows[r] = None => rows'[r] = None]_vars
  BY StepLeavesDeleted
<1>2. Init => IInv
  BY BotBegins
<1>3. IInv /\ [Next]_vars => IInv'
  BY BotKeeps
<1> QED
  BY <1>1, <1>2, <1>3, PTL DEF Spec, DeletedStaysDeleted

\* Where a handler begins: its call starts anew, and of what orders use it changes
\* nothing in the data.
Starts(c) ==
  /\ calls[c].on = "" \/ calls[c].todo = <<>>
  /\ UNCHANGED <<wallet, orders, asked, astray, failures>> /\ SameData
  /\ \/ \E on, form, steps : Trade!Runs(c, on, form, steps)
     \/ \E X, t, carried : t \in {1, 2} /\ Brings(X, t, carried) /\ \E steps : Trade!Trade(c, steps, carried)
     \/ Trade!LoadFirst(c) \/ Trade!handle_new_private_key(c)

LEMMA SettingStarts ==
  ASSUME TradeIInv, NEW c \in Slot, Trade!SettingHandlers(c) PROVE Starts(c)
<1> USE DEF Trade!Quiet, Trade!tradeVars
<1>1. UNCHANGED data => SameData
  <2>1. ASSUME UNCHANGED data PROVE SameData
    <3>1. PICK v : v = TRUE
      OBVIOUS
    <3> QED
      BY <2>1, <3>1, CardOnly
  <2> QED
    BY <2>1
<1>2. ASSUME NEW f, Trade!Prompt(c, f), calls[c].on = "" \/ calls[c].todo = <<>> PROVE Starts(c)
  <2>1. PICK v : v = TRUE
    OBVIOUS
  <2>2. SameData
    BY <1>2, <2>1, CardOnly DEF Trade!Prompt
  <2> QED
    BY <1>2, <2>2 DEF Starts, Trade!Prompt
<1>3. ASSUME NEW on, NEW form, NEW steps, Trade!Runs(c, on, form, steps),
             UNCHANGED <<data, wallet, orders, asked, astray, failures>>,
             calls[c].on = "" \/ calls[c].todo = <<>>
      PROVE  Starts(c)
  BY <1>1, <1>3 DEF Starts
<1>4. ASSUME NEW change(_), NEW after, Trade!Change(c, change, after), calls[c].todo = <<>> PROVE Starts(c)
  BY <1>3, <1>4 DEF Trade!Change
<1>5. ASSUME NEW f, NEW after, Trade!Entered(c, f, after) PROVE Starts(c)
  BY <1>3, <1>5 DEF Trade!Entered, Trade!WithSetting, Trade!Change
<1>6. CASE Trade!setting_menu(c)
  BY <1>3, <1>6 DEF Trade!setting_menu
<1>7. CASE Trade!LoadFirst(c)
  BY <1>1, <1>7 DEF Trade!LoadFirst, Starts
<1>8. CASE Trade!Reinput(c)
  BY <1>3, <1>8 DEF Trade!Reinput
<1>9. CASE Trade!toggle_auto_slippage(c) \/ Trade!toggle_auto_buy(c) \/ Trade!toggle_auto_sell(c)
  BY <1>3, <1>9 DEF Trade!toggle_auto_slippage, Trade!toggle_auto_buy, Trade!toggle_auto_sell,
     Trade!WithSetting, Trade!Change
<1>10. CASE \/ Trade!edit_quick_slippage(c) \/ Trade!edit_sandwich_slippage(c)
            \/ Trade!edit_buy_priority_fee(c) \/ Trade!edit_sell_priority_fee(c)
            \/ Trade!set_buy_amount(c) \/ Trade!set_sell_amount(c)
  BY <1>2, <1>10 DEF Trade!edit_quick_slippage, Trade!edit_sandwich_slippage, Trade!edit_buy_priority_fee,
     Trade!edit_sell_priority_fee, Trade!set_buy_amount, Trade!set_sell_amount, Trade!WithSetting
<1>11. CASE \/ Trade!handle_quick_slippage(c) \/ Trade!handle_sandwich_slippage(c)
            \/ Trade!handle_buy_priority_fee(c) \/ Trade!handle_sell_priority_fee(c)
            \/ Trade!handle_custom_buy_amount(c) \/ Trade!handle_custom_sell_amount(c)
  BY <1>5, <1>11 DEF Trade!handle_quick_slippage, Trade!handle_sandwich_slippage,
     Trade!handle_buy_priority_fee, Trade!handle_sell_priority_fee, Trade!handle_custom_buy_amount,
     Trade!handle_custom_sell_amount
<1> QED
  BY <1>6, <1>7, <1>8, <1>9, <1>10, <1>11 DEF Trade!SettingHandlers

LEMMA SwapStarts ==
  ASSUME TradeIInv, NEW c \in Slot, Trade!SwapHandlers(c) PROVE Starts(c)
<1> USE DEF Trade!Quiet, Trade!tradeVars
<1>1. UNCHANGED data => SameData
  <2>1. ASSUME UNCHANGED data PROVE SameData
    <3>1. PICK v : v = TRUE
      OBVIOUS
    <3> QED
      BY <2>1, <3>1, CardOnly
  <2> QED
    BY <2>1
<1>2. ASSUME NEW on, NEW form, NEW steps, Trade!Runs(c, on, form, steps),
             UNCHANGED <<data, wallet, orders, asked, astray, failures>>, calls[c].on = ""
      PROVE  Starts(c)
  BY <1>1, <1>2 DEF Starts
<1>3. ASSUME NEW t \in {1, 2}, NEW steps, Trade!Trade(c, steps, {<<"token", t>>}), calls[c].on = ""
      PROVE  Starts(c)
  <2>1. Brings({}, t, {<<"token", t>>})
    BY DEF Brings
  <2>2. UNCHANGED <<data, wallet, orders, asked, astray, failures>>
    BY <1>3 DEF Trade!Trade
  <2> QED
    BY <1>1, <1>3, <2>1, <2>2 DEF Starts
<1>4. ASSUME NEW steps, Trade!Trade(c, steps, Trade!Answering), calls[c].on = "", data["token"] # None
      PROVE  Starts(c)
  <2>1. PICK t : t = data["token"]
    OBVIOUS
  <2>2. t \in {1, 2}
    BY <1>4, <2>1 DEF TradeIInv, TradeTypes
  <2>3. Brings({"answer"}, t, Trade!Answering)
    BY <2>1 DEF Brings
  <2>4. UNCHANGED <<data, wallet, orders, asked, astray, failures>>
    BY <1>4 DEF Trade!Trade
  <2> QED
    BY <1>1, <1>4, <2>2, <2>3, <2>4 DEF Starts
<1>5. CASE \/ Trade!start_swap(c) \/ Trade!info_command(c) \/ Trade!show_token_menu(c)
           \/ Trade!refresh_token_menu(c) \/ Trade!toggle_quick_mode(c) \/ Trade!toggle_sandwich_mode(c)
  BY <1>2, <1>5 DEF Trade!start_swap, Trade!info_command, Trade!show_token_menu, Trade!ShowToken,
     Trade!refresh_token_menu, Trade!toggle_quick_mode, Trade!toggle_sandwich_mode, Trade!Toggle
<1>6. CASE \/ Trade!buy(c) \/ Trade!sell(c) \/ Trade!swap_command(c)
           \/ Trade!start_buyx(c) \/ Trade!start_sellx(c)
  <2>1. PICK t \in {1, 2} : calls[c].on = "" /\ \E steps : Trade!Trade(c, steps, {<<"token", t>>})
    BY <1>6 DEF Trade!buy, Trade!sell, Trade!swap_command, Trade!start_buyx, Trade!start_sellx,
       Trade!Start, Trade!Tokens
  <2> QED
    BY <1>3, <2>1
<1>7. CASE Trade!handle_buyx(c) \/ Trade!handle_sellx(c)
  <2>1. calls[c].on = "" /\ data["token"] # None /\ \E steps : Trade!Trade(c, steps, Trade!Answering)
    BY <1>7 DEF Trade!handle_buyx, Trade!handle_sellx
  <2> QED
    BY <1>4, <2>1
<1> QED
  BY <1>5, <1>6, <1>7 DEF Trade!SwapHandlers

LEMMA WalletStarts ==
  ASSUME TradeIInv, NEW c \in Slot, Trade!WalletHandlers(c) PROVE Starts(c)
<1> USE DEF Trade!Quiet, Trade!tradeVars
<1>1. PICK v : v = TRUE
  OBVIOUS
<1>2. data' = data \/ data' = [data EXCEPT !["card"] = v]
  BY <1>1 DEF Trade!WalletHandlers, Trade!refresh, Trade!new_wallet, Trade!export,
     Trade!import_wallet, Trade!handle_new_private_key
<1>3. SameData
  BY <1>2, CardOnly
<1>4. UNCHANGED <<wallet, orders, asked, astray, failures>> /\ calls[c].on = ""
  BY DEF Trade!WalletHandlers, Trade!refresh, Trade!new_wallet, Trade!export,
     Trade!import_wallet, Trade!handle_new_private_key
<1>5. (\E on, form, steps : Trade!Runs(c, on, form, steps)) \/ Trade!handle_new_private_key(c)
  BY DEF Trade!WalletHandlers, Trade!refresh, Trade!new_wallet, Trade!export, Trade!import_wallet
<1> QED
  BY <1>3, <1>4, <1>5 DEF Starts

LEMMA HandlersStart ==
  ASSUME TradeIInv, NEW c \in Slot,
         Trade!SettingHandlers(c) \/ Trade!SwapHandlers(c) \/ Trade!WalletHandlers(c)
  PROVE  Starts(c)
BY SettingStarts, SwapStarts, WalletStarts

\* What an order begins with has been the chat's, until a call fails or a menu goes
\* astray.  It says nothing of clashes: it holds however handlers overlap.
Unstray ==
  /\ data["wallet"] \in {None, wallet} \cup Trade!Replaced
  /\ data["token"] \in {None, asked} \cup Trade!Prompting
  /\ \A c \in Slot : Vouched(calls[c])

StrayIInv ==
  part = "trade" => failures \in Nat /\ (failures = 0 /\ ~astray => Unstray)

Carries(o, k, name) == \A w \in o.write : w[1] = name => w \in k.write

LEMMA StrayMoves ==
  ASSUME TradeIInv, Unstray, NEW c \in Slot, NEW k, calls' = [calls EXCEPT ![c] = k], Vouched(k),
         \/ data'["wallet"] \in {None, wallet'}
         \/ /\ data'["wallet"] = data["wallet"] /\ Carries(calls[c], k, "replaced")
            /\ wallet' = wallet \/ \E w \in k.write : w[1] = "replaced" /\ w[2] = wallet,
         \/ data'["token"] \in {None, asked'}
         \/ \E w \in k.write : w[1] = "prompting" /\ w[2] = data'["token"]
         \/ data'["token"] = data["token"] /\ asked' = asked /\ Carries(calls[c], k, "prompting")
  PROVE  Unstray'
<1>1. calls'[c] = k /\ \A d \in Slot : d # c => calls'[d] = calls[d]
  BY DEF TradeIInv
<1>2. \A d \in Slot : Vouched(calls[d])'
  BY <1>1 DEF Unstray, Vouched
<1>3. ASSUME NEW name, NEW w \in k.write, w[1] = name
      PROVE  w[2] \in (UNION {Trade!Kept(d, name) : d \in Slot})'
  BY <1>1, <1>3 DEF Trade!Kept
<1>4. ASSUME NEW name, Carries(calls[c], k, name), NEW v \in UNION {Trade!Kept(d, name) : d \in Slot}
      PROVE  v \in (UNION {Trade!Kept(d, name) : d \in Slot})'
  <2>1. PICK d \in Slot : v \in Trade!Kept(d, name)
    OBVIOUS
  <2>2. PICK w \in calls[d].write : w[1] = name /\ w[2] = v
    BY <2>1 DEF Trade!Kept
  <2>3. w \in calls'[d].write
    BY <1>1, <1>4, <2>2 DEF Carries
  <2> QED
    BY <2>2, <2>3 DEF Trade!Kept
<1>5. data'["wallet"] \in {None, wallet'} \cup Trade!Replaced'
  <2>1. CASE data'["wallet"] \notin {None, wallet'}
    <3>1. /\ data'["wallet"] = data["wallet"] /\ Carries(calls[c], k, "replaced")
          /\ wallet' = wallet \/ \E w \in k.write : w[1] = "replaced" /\ w[2] = wallet
      BY <2>1
    <3>2. CASE data["wallet"] \in Trade!Replaced
      BY <1>4, <3>1, <3>2 DEF Trade!Replaced
    <3>3. CASE data["wallet"] \notin Trade!Replaced
      <4>1. data["wallet"] = wallet /\ wallet' # wallet
        BY <2>1, <3>1, <3>3 DEF Unstray
      <4> QED
        BY <1>3, <3>1, <4>1 DEF Trade!Replaced
    <3> QED
      BY <3>2, <3>3
  <2> QED
    BY <2>1
<1>6. data'["token"] \in {None, asked'} \cup Trade!Prompting'
  <2>1. CASE \E w \in k.write : w[1] = "prompting" /\ w[2] = data'["token"]
    BY <1>3, <2>1 DEF Trade!Prompting
  <2>2. CASE data'["token"] = data["token"] /\ asked' = asked /\ Carries(calls[c], k, "prompting")
    BY <1>4, <2>2 DEF Trade!Prompting, Unstray
  <2> QED
    BY <2>1, <2>2
<1> QED
  BY <1>2, <1>5, <1>6 DEF Unstray

\* A call without marks may become any other that is vouched for.
LEMMA UnmarkedMoves ==
  ASSUME TradeIInv, Unstray, NEW c \in Slot, Unmarked(calls[c]),
         NEW k, calls' = [calls EXCEPT ![c] = k], Vouched(k),
         data'["wallet"] = data["wallet"], data'["token"] = data["token"],
         wallet' = wallet, asked' = asked
  PROVE  Unstray'
<1>1. Carries(calls[c], k, "replaced") /\ Carries(calls[c], k, "prompting")
  BY DEF Carries, Unmarked, Has
<1> QED
  BY <1>1, StrayMoves

LEMMA StartUnmarked ==
  ASSUME TradeIInv, NEW c \in Slot, calls[c].on = "" \/ calls[c].todo = <<>> PROVE Unmarked(calls[c])
<1>1. CASE calls[c].on = ""
  <2>1. calls[c].on # "setting"
    BY <1>1
  <2> QED
    BY <2>1 DEF TradeIInv, Shaped
<1>2. CASE calls[c].todo = <<>>
  <2>1. PICK K \in SUBSET Facts : Sure(calls[c].todo, K, Settled) /\ Typed(calls[c], K)
    BY DEF TradeIInv, Prepared
  <2>2. Settled \subseteq K
    BY <1>2, <2>1, SureEnd
  <2> QED
    BY <2>1, <2>2 DEF Typed, Settled, Unmarked
<1> QED
  BY <1>1, <1>2

LEMMA VouchedNone == ASSUME NEW k, k.write = {} PROVE Vouched(k)
BY DEF Vouched

LEMMA StartsStray ==
  ASSUME TradeIInv, Unstray, NEW c \in Slot, Starts(c) PROVE Unstray'
<1>1. Unmarked(calls[c])
  BY StartUnmarked DEF Starts
<1>2. /\ wallet' = wallet /\ asked' = asked
      /\ data'["wallet"] = data["wallet"] /\ data'["token"] = data["token"]
  BY DEF Starts, SameData, Keys
<1>3. ASSUME NEW on, NEW form, NEW steps, Trade!Runs(c, on, form, steps) PROVE Unstray'
  <2>1. PICK k : Begins(c, k, on, form, {}, steps)
    BY <1>3, RunsBegins
  <2>2. calls' = [calls EXCEPT ![c] = k] /\ Vouched(k)
    BY <2>1, VouchedNone DEF Begins
  <2> QED
    BY <1>1, <1>2, <2>2, UnmarkedMoves
<1>4. ASSUME NEW X, NEW t \in {1, 2}, NEW carried, Brings(X, t, carried), NEW steps,
             Trade!Trade(c, steps, carried)
      PROVE  Unstray'
  <2>1. PICK write : write = Trade!Known \cup carried
    OBVIOUS
  <2>2. PICK k : k = [Idle EXCEPT !.todo = steps, !.on = "setting", !.form = data["setting"], !.write = write]
    OBVIOUS
  <2>3. calls' = [calls EXCEPT ![c] = k] /\ k.write = write
    <3>1. k.write = write
      BY <2>2 DEF Idle
    <3> QED
      BY <1>4, <2>1, <2>2, <3>1, TradeIdle DEF Trade!Trade, Trade!Setting
  <2>4. Begun(X, t, write)
    BY <1>4, <2>1, BeginsWith
  <2>5. ASSUME NEW w \in write, w[1] = "wallet" PROVE \E r \in write : r[1] = "was" /\ r[2] = w[2]
    <3>1. w[2] \in {wallet} \cup Trade!Replaced
      BY <2>4, <2>5 DEF Begun, Unstray
    <3> QED
      BY <2>4, <3>1 DEF Begun
  <2>6. ASSUME NEW w \in write, w[1] = "token", \E r \in write : r[1] = "prompt"
        PROVE  \E r \in write : r[1] = "prompt" /\ r[2] = w[2]
    <3>1. X = {"answer"} /\ t = data["token"]
      BY <1>4, <2>4, <2>6 DEF Begun, Brings
    <3>2. w[2] = t /\ t # None
      BY <2>4, <2>6, BotAssumption DEF Begun
    <3>3. w[2] \in {asked} \cup Trade!Prompting
      BY <3>1, <3>2 DEF Unstray
    <3> QED
      BY <2>4, <3>1, <3>3 DEF Begun
  <2>7. Vouched(k)
    BY <2>3, <2>5, <2>6 DEF Vouched
  <2> QED
    BY <1>1, <1>2, <2>3, <2>7, UnmarkedMoves
<1>5. CASE Trade!LoadFirst(c)
  <2>1. PICK o, k : o = calls[c]
                    /\ k = [o EXCEPT !.todo = Trade!get_setting_from_db \o Trade!Await("resume"), !.on = "setting"]
    OBVIOUS
  <2>2. calls' = [calls EXCEPT ![c] = k]
    BY <1>5, <2>1 DEF Trade!LoadFirst, Trade!Setting, TradeIInv
  <2>3. k.write = o.write /\ Vouched(o)
    BY <2>1 DEF TradeIInv, Shaped, Unstray
  <2>4. Vouched(k)
    BY <2>3 DEF Vouched
  <2> QED
    BY <1>1, <1>2, <2>2, <2>4, UnmarkedMoves
<1>6. CASE Trade!handle_new_private_key(c)
  <2>1. PICK steps : steps = Trade!Await("owner") \o Trade!Await("newDefault") \o Trade!Await("register")
                               \o Trade!Tell(None) \o Trade!Await("clear")
    OBVIOUS
  <2>2. PICK w \in Wallet :
          calls' = [calls EXCEPT ![c] = [Idle EXCEPT !.todo = steps, !.on = "setting", !.write = {<<"key", w>>}]]
    BY <1>6, <2>1, TradeIdle DEF Trade!handle_new_private_key, Trade!Setting
  <2>3. PICK p, k : p = <<"key", w>> /\ k = [Idle EXCEPT !.todo = steps, !.on = "setting", !.write = {p}]
    OBVIOUS
  <2>4. k.write = {p} /\ p[1] = "key"
    BY <2>3 DEF Idle
  <2>5. calls' = [calls EXCEPT ![c] = k] /\ Vouched(k)
    BY <2>2, <2>3, <2>4 DEF Vouched
  <2> QED
    BY <1>1, <1>2, <2>5, UnmarkedMoves
<1> QED
  BY <1>3, <1>4, <1>5, <1>6 DEF Starts

\* The call of c goes on, with what it kept, or ends.
Onward(c) ==
  \E k : /\ calls' = [calls EXCEPT ![c] = k]
         /\ k.write = calls[c].write \/ k.write = {}

LEMMA GoesOnward ==
  ASSUME TradeIInv, NEW c \in Slot, Trade!Goes(c) \/ Trade!Ends(c) \/ Goes(c) PROVE Onward(c)
<1>1. PICK o, rest, k : o = calls[c] /\ rest = Tail(o.todo) /\ k = [o EXCEPT !.todo = rest]
  OBVIOUS
<1>2. k.write = o.write
  BY <1>1 DEF TradeIInv, Shaped
<1>3. calls' = [calls EXCEPT ![c] = Idle] \/ calls' = [calls EXCEPT ![c] = k]
  BY <1>1, TradeIdle DEF Trade!Goes, Trade!Ends, Goes, TradeIInv
<1> QED
  BY <1>1, <1>2, <1>3, TradeIdle DEF Onward

LEMMA StepUnmarked ==
  ASSUME TradeIInv, NEW c \in Slot, NEW d, Trade!At(c, d), {"kept", "asked"} \subseteq Needs(d)
  PROVE  Unmarked(calls[c])
<1>1. PICK o : o = calls[c]
  OBVIOUS
<1>2. PICK K \in SUBSET Facts : Needs(d) \subseteq K /\ Typed(o, K)
  BY <1>1, TradeRunning
<1> QED
  BY <1>1, <1>2 DEF Typed, Unmarked

\* What orders use of the data and of the chat.
Same == /\ data'["wallet"] = data["wallet"] /\ data'["token"] = data["token"]
        /\ wallet' = wallet /\ asked' = asked

LEMMA PlainStep ==
  ASSUME TradeIInv, Unstray, NEW c \in Slot, NEW d, Trade!At(c, d), {"kept", "asked"} \subseteq Needs(d),
         Onward(c), Same
  PROVE  Unstray'
<1>1. PICK k : calls' = [calls EXCEPT ![c] = k] /\ (k.write = calls[c].write \/ k.write = {})
  BY DEF Onward
<1>2. Vouched(k)
  BY <1>1 DEF Unstray, Vouched
<1> QED
  BY <1>1, <1>2, StepUnmarked, UnmarkedMoves DEF Same

LEMMA SimpleStray ==
  ASSUME TradeIInv, Unstray, NEW c \in Slot,
         \/ Trade!Fetch(c) \/ Trade!Set(c) \/ Trade!Token(c) \/ Trade!Order(c) \/ Trade!NewDefault(c)
         \/ Trade!SetOwn(c, "setAuto", Trade!FlipAuto) \/ Trade!SetOwn(c, "setSandwich", Trade!FlipSandwich)
         \/ Trade!Keep(c) \/ Trade!Resume(c)
  PROVE  Unstray'
<1> USE DEF Trade!tradeVars
<1>1. DOMAIN data = Keys
  BY DEF TradeIInv, TradeTypes
<1>2. CASE Trade!Fetch(c)
  <2>1. PICK d : d = "fetch"
    OBVIOUS
  <2>2. Onward(c)
    <3>1. CASE Trade!Ends(c)
      BY <3>1, GoesOnward
    <3>2. CASE ~Trade!Ends(c)
      <4>1. PICK o, k : o = calls[c] /\ k = [o EXCEPT !.todo = Tail(o.todo), !.form = Len(forms) + 1]
        OBVIOUS
      <4>2. k.write = o.write
        BY <4>1 DEF TradeIInv, Shaped
      <4>3. calls' = [calls EXCEPT ![c] = k]
        BY <1>2, <3>2, <4>1 DEF Trade!Fetch, TradeIInv
      <4> QED
        BY <4>1, <4>2, <4>3 DEF Onward
    <3> QED
      BY <3>1, <3>2
  <2>3. Trade!At(c, d) /\ Same
    BY <1>2, <2>1 DEF Trade!Fetch, Same
  <2>4. {"kept", "asked"} \subseteq Needs(d)
    BY <2>1 DEF Needs
  <2> QED
    BY <2>2, <2>3, <2>4, PlainStep
<1>3. CASE Trade!Set(c) \/ Trade!Token(c) \/ Trade!NewDefault(c)
  <2>1. PICK d : d \in {"set", "token", "newDefault"} /\ Trade!At(c, d)
    BY <1>3 DEF Trade!Set, Trade!Token, Trade!NewDefault
  <2>2. Onward(c) /\ Same
    BY <1>3, GoesOnward DEF Trade!Set, Trade!Token, Trade!NewDefault, Same
  <2>3. {"kept", "asked"} \subseteq Needs(d)
    BY <2>1 DEF Needs
  <2> QED
    BY <2>1, <2>2, <2>3, PlainStep
<1>4. CASE Trade!Order(c)
  <2>1. PICK d : d \in {"order", "orderAsked"} /\ Trade!At(c, d)
    BY <1>4 DEF Trade!Order
  <2>2. Onward(c) /\ Same
    BY <1>4, GoesOnward DEF Trade!Order, Same
  <2>3. {"kept", "asked"} \subseteq Needs(d)
    BY <2>1 DEF Needs
  <2> QED
    BY <2>1, <2>2, <2>3, PlainStep
<1>5. CASE Trade!SetOwn(c, "setAuto", Trade!FlipAuto) \/ Trade!SetOwn(c, "setSandwich", Trade!FlipSandwich)
  <2>1. PICK d : d \in {"setAuto", "setSandwich"} /\ Trade!At(c, d)
    BY <1>5 DEF Trade!SetOwn
  <2>2. Onward(c) /\ Same
    BY <1>5, GoesOnward DEF Trade!SetOwn, Same
  <2>3. {"kept", "asked"} \subseteq Needs(d)
    BY <2>1 DEF Needs
  <2> QED
    BY <2>1, <2>2, <2>3, PlainStep
<1>6. CASE Trade!Keep(c)
  <2>1. PICK d : d = "keep" /\ Trade!At(c, d)
    BY <1>6 DEF Trade!Keep
  <2>2. Onward(c) /\ Same
    BY <1>1, <1>6, GoesOnward DEF Trade!Keep, Trade!Setting, Same, Keys
  <2>3. {"kept", "asked"} \subseteq Needs(d)
    BY <2>1 DEF Needs
  <2> QED
    BY <2>1, <2>2, <2>3, PlainStep
<1>7. CASE Trade!Resume(c)
  <2>1. PICK d : d = "resume" /\ Trade!At(c, d)
    BY <1>7 DEF Trade!Resume
  <2>2. PICK k : k = [Idle EXCEPT !.seen = calls[c].seen, !.on = "loaded"]
    OBVIOUS
  <2>3. k.write = {} /\ calls' = [calls EXCEPT ![c] = k]
    <3>1. k.write = {}
      BY <2>2 DEF Idle
    <3> QED
      BY <1>7, <2>2, <3>1, TradeIdle DEF Trade!Resume
  <2>4. Onward(c) /\ Same
    BY <1>1, <1>7, <2>3 DEF Trade!Resume, Trade!Setting, Same, Onward, Keys
  <2>5. {"kept", "asked"} \subseteq Needs(d)
    BY <2>1 DEF Needs
  <2> QED
    BY <2>1, <2>4, <2>5, PlainStep
<1> QED
  BY <1>2, <1>3, <1>4, <1>5, <1>6, <1>7

LEMMA OwnerStray ==
  ASSUME TradeIInv, Unstray, NEW c \in Slot, Trade!Owner(c) PROVE Unstray'
<1>1. PICK o, d : o = calls[c] /\ d = "owner" /\ Trade!At(c, d)
  BY DEF Trade!Owner
<1>2. PICK p, q, W : /\ p = <<"wallet", wallet>> /\ q = <<"was", wallet>>
                     /\ W = {w \in o.write : w[1] # "wallet"} \cup {p} \cup {q}
  OBVIOUS
<1>3. p[1] = "wallet" /\ p[2] = wallet /\ q[1] = "was" /\ q[2] = wallet
  BY <1>2
<1>4. PICK k : k = [o EXCEPT !.todo = Tail(o.todo), !.write = W]
  OBVIOUS
<1>5. k.write = W /\ calls' = [calls EXCEPT ![c] = k] /\ Vouched(o)
  BY <1>1, <1>2, <1>4 DEF Trade!Owner, Trade!Carry, TradeIInv, Shaped, Unstray
<1>6. /\ \A w \in W : (w \in o.write /\ w[1] # "wallet") \/ w = p \/ w = q
      /\ \A w \in o.write : w[1] # "wallet" => w \in W
      /\ q \in W
  BY <1>2
<1>7. Vouched(k)
  BY <1>3, <1>5, <1>6 DEF Vouched
<1>8. {"kept", "asked"} \subseteq Needs(d)
  BY <1>1 DEF Needs
<1>9. Same
  BY DEF Trade!Owner, Trade!tradeVars, Same
<1> QED
  BY <1>1, <1>5, <1>7, <1>8, <1>9, StepUnmarked, UnmarkedMoves DEF Same

LEMMA DecideStray ==
  ASSUME TradeIInv, Unstray, NEW c \in Slot, Trade!Decide(c) PROVE Unstray'
<1>1. PICK o, d, n, p : /\ o = calls[c] /\ d = "decide" /\ n = Trade!Mode(forms[o.form].value)
                        /\ p = <<"mode", n>> /\ Trade!At(c, d)
  BY DEF Trade!Decide
<1>2. PICK W, s : W = {w \in o.write : w[1] # "mode"} \cup {p}
                  /\ s = (IF n = "auto" THEN Trade!Tell(None) ELSE <<>>) \o Tail(o.todo)
  OBVIOUS
<1>3. PICK k : k = [o EXCEPT !.todo = s, !.write = W]
  OBVIOUS
<1>4. k.write = W /\ calls' = [calls EXCEPT ![c] = k] /\ Vouched(o) /\ p[1] = "mode"
  BY <1>1, <1>2, <1>3 DEF Trade!Decide, Trade!Carry, TradeIInv, Shaped, Unstray
<1>5. /\ \A w \in W : (w \in o.write /\ w[1] # "mode") \/ w = p
      /\ \A w \in o.write : w[1] # "mode" => w \in W
  BY <1>2
<1>6. Vouched(k)
  BY <1>4, <1>5 DEF Vouched
<1>7. {"kept", "asked"} \subseteq Needs(d)
  BY <1>1 DEF Needs
<1>8. Same
  BY DEF Trade!Decide, Trade!tradeVars, Same
<1> QED
  BY <1>1, <1>4, <1>6, <1>7, <1>8, StepUnmarked, UnmarkedMoves DEF Same

LEMMA KeepBothStray ==
  ASSUME TradeIInv, Unstray, NEW c \in Slot, Trade!KeepBoth(c), ~astray' PROVE Unstray'
<1>1. PICK d : d = "keepBoth" /\ Trade!At(c, d)
  BY DEF Trade!KeepBoth
<1>2. DOMAIN data = Keys
  BY DEF TradeIInv, TradeTypes
<1>3. /\ data'["wallet"] = wallet' /\ data'["token"] = data["token"]
      /\ wallet' = wallet /\ asked' = asked
  BY <1>2 DEF Trade!KeepBoth, Trade!Setting, Keys
<1>4. PICK k : calls' = [calls EXCEPT ![c] = k] /\ (k.write = calls[c].write \/ k.write = {})
  BY GoesOnward DEF Trade!KeepBoth, Onward
<1>5. Vouched(k)
  BY <1>4 DEF Unstray, Vouched
<1>6. Unmarked(calls[c])
  BY <1>1, StepUnmarked DEF Needs
<1>7. Carries(calls[c], k, "prompting")
  BY <1>6 DEF Carries, Unmarked, Has
<1> QED
  BY <1>3, <1>4, <1>5, <1>7, StrayMoves

LEMMA RememberStray ==
  ASSUME TradeIInv, Unstray, NEW c \in Slot, Trade!Remember(c), ~astray' PROVE Unstray'
<1>1. DOMAIN data = Keys
  BY DEF TradeIInv, TradeTypes
<1>2. PICK o, t, p : o = calls[c] /\ t = Trade!Carried(c, "token")[2] /\ p = <<"prompting", t>>
  OBVIOUS
<1>3. data'["wallet"] = wallet' /\ data'["token"] = t
  BY <1>1, <1>2 DEF Trade!Remember, Trade!Setting, Keys
<1>4. PICK k : k = [o EXCEPT !.todo = Tail(o.todo), !.write = @ \cup {p}]
  OBVIOUS
<1>5. /\ k.write = o.write \cup {p} /\ calls' = [calls EXCEPT ![c] = k] /\ Vouched(o)
      /\ p[1] = "prompting" /\ p[2] = t
  BY <1>2, <1>4 DEF Trade!Remember, TradeIInv, Shaped, Unstray
<1>6. Vouched(k)
  BY <1>5 DEF Vouched
<1> QED
  BY <1>3, <1>5, <1>6, StrayMoves

LEMMA ShownStray ==
  ASSUME TradeIInv, Unstray, NEW c \in Slot, Trade!Shown(c), ~astray' PROVE Unstray'
<1>1. PICK o, d : o = calls[c] /\ d \in {"askBuy", "askSell"} /\ Trade!At(c, d)
  BY DEF Trade!Shown
<1>2. /\ calls' = [calls EXCEPT ![c] = Idle] /\ data'["token"] \in {None, asked'}
      /\ data'["wallet"] = data["wallet"] /\ wallet' = wallet
  BY TradeIdle DEF Trade!Shown, Trade!Ends
<1>3. PICK K \in SUBSET Facts : Needs(d) \subseteq K /\ Typed(o, K)
  BY <1>1, TradeRunning
<1>4. "kept" \in Needs(d)
  BY <1>1 DEF Needs
<1>5. Carries(calls[c], Idle, "replaced")
  BY <1>1, <1>3, <1>4 DEF Carries, Typed, Has
<1> QED
  BY <1>2, <1>5, TradeIdle, VouchedNone, StrayMoves

LEMMA RegisterStray ==
  ASSUME TradeIInv, Unstray, NEW c \in Slot, Trade!Register(c) PROVE Unstray'
<1>1. PICK o, d, w : /\ o = calls[c] /\ d = "register" /\ Trade!At(c, d)
                     /\ w = Trade!Carried(c, "wallet")[2]
  BY DEF Trade!Register
<1>2. {"kept", "asked"} \subseteq Needs(d) /\ data' = data /\ asked' = asked
  BY <1>1 DEF Needs, Trade!Register
<1>3. CASE wallet # w
  <2>1. Trade!Ends(c) /\ wallet' = wallet
    BY <1>1, <1>3 DEF Trade!Register
  <2> QED
    BY <1>1, <1>2, <2>1, GoesOnward, PlainStep DEF Same
<1>4. CASE wallet = w
  <2>1. PICK p : p = <<"replaced", wallet>>
    OBVIOUS
  <2>2. PICK k : k = [o EXCEPT !.todo = Tail(o.todo), !.write = @ \cup {p}]
    OBVIOUS
  <2>3. /\ k.write = o.write \cup {p} /\ calls' = [calls EXCEPT ![c] = k] /\ Vouched(o)
        /\ p[1] = "replaced" /\ p[2] = wallet
    BY <1>1, <1>4, <2>1, <2>2 DEF Trade!Register, TradeIInv, Shaped, Unstray
  <2>4. Vouched(k)
    BY <2>3 DEF Vouched
  <2>5. Carries(o, k, "replaced") /\ Carries(o, k, "prompting")
    BY <2>3 DEF Carries
  <2> QED
    BY <1>1, <1>2, <2>3, <2>4, <2>5, StrayMoves
<1> QED
  BY <1>3, <1>4

LEMMA ClearStray ==
  ASSUME TradeIInv, Unstray, NEW c \in Slot, Trade!Clear(c) PROVE Unstray'
<1>1. DOMAIN data = Keys
  BY DEF TradeIInv, TradeTypes
<1>2. /\ calls' = [calls EXCEPT ![c] = Idle]
      /\ data'["wallet"] = None /\ data'["token"] = None
  BY <1>1, TradeIdle DEF Trade!Clear, Trade!Ends, Keys
<1> QED
  BY <1>2, TradeIdle, VouchedNone, StrayMoves

\* Updates that come in, and messages that go out.
LEMMA AnywhereStray ==
  ASSUME TradeIInv, Unstray, NEW c \in Slot, Receive(c) \/ Message(c), UNCHANGED tradeVars
  PROVE  Unstray'
<1>1. Same
  BY DEF Receive, Message, tradeVars, Same
<1>2. CASE Receive(c)
  <2>1. PICK k : k = [calls[c] EXCEPT !.seen = fsm]
    OBVIOUS
  <2>2. calls[c] = Idle /\ calls' = [calls EXCEPT ![c] = k]
    BY <1>2, <2>1 DEF Receive, TradeIInv
  <2>3. k.write = {}
    <3>1. k.write = calls[c].write
      BY <2>1 DEF TradeIInv, Shaped
    <3> QED
      BY <2>2, <3>1, TradeIdle
  <2>4. Unmarked(calls[c])
    BY <2>2, TradeIdle DEF Unmarked, Has
  <2> QED
    BY <1>1, <2>2, <2>3, <2>4, VouchedNone, UnmarkedMoves DEF Same
<1>3. CASE Message(c)
  <2>1. PICK o, d : o = calls[c] /\ d = Head(o.todo).do /\ Running(c) /\ Goes(c) /\ d \in {"tell", "tidy"}
    BY <1>3 DEF Message, At
  <2>2. PICK K \in SUBSET Facts, M \in SUBSET Facts :
          /\ d \in TradeDo /\ M \subseteq After(K, d) /\ Sure(Tail(o.todo), M, Settled) /\ Typed(o, K)
    BY <2>1, NextStep
  <2>3. After(K, d) = K
    BY <2>1, <2>2 DEF TradeDo, After, Kills, Gives
  <2>4. CASE Tail(o.todo) = <<>>
    <3>1. Settled \subseteq K
      BY <2>2, <2>3, <2>4, SureEnd
    <3>2. Unmarked(o)
      BY <2>2, <3>1 DEF Typed, Settled, Unmarked
    <3>3. calls' = [calls EXCEPT ![c] = Idle]
      BY <2>1, <2>4 DEF Goes
    <3> QED
      BY <1>1, <2>1, <3>2, <3>3, TradeIdle, VouchedNone, UnmarkedMoves DEF Same
  <2>5. CASE Tail(o.todo) # <<>>
    <3>1. PICK k : k = [o EXCEPT !.todo = Tail(o.todo)]
      OBVIOUS
    <3>2. k.write = o.write /\ calls' = [calls EXCEPT ![c] = k] /\ Vouched(o)
      BY <2>1, <2>5, <3>1 DEF Goes, TradeIInv, Shaped, Unstray
    <3>3. Vouched(k) /\ Carries(o, k, "replaced") /\ Carries(o, k, "prompting")
      BY <3>2 DEF Vouched, Carries
    <3> QED
      BY <1>1, <2>1, <3>2, <3>3, StrayMoves DEF Same
  <2> QED
    BY <2>4, <2>5
<1> QED
  BY <1>2, <1>3

\* A step of the trading part, other than a failing call, and what was astray before.
LEMMA TradeStray ==
  ASSUME TradeIInv, NEW c \in Slot, Trade!TradeStep(c) \/ Trade!DataStep(c)
  PROVE  failures' = failures /\ (~astray' => ~astray) /\ (Unstray /\ ~astray' => Unstray')
<1> USE DEF Trade!tradeVars
<1>1. CASE Trade!SettingHandlers(c) \/ Trade!SwapHandlers(c) \/ Trade!WalletHandlers(c)
  BY <1>1, HandlersStart, StartsStray DEF Starts
<1>2. CASE \/ Trade!Fetch(c) \/ Trade!Set(c) \/ Trade!Token(c) \/ Trade!Order(c) \/ Trade!NewDefault(c)
           \/ Trade!SetOwn(c, "setAuto", Trade!FlipAuto) \/ Trade!SetOwn(c, "setSandwich", Trade!FlipSandwich)
           \/ Trade!Keep(c) \/ Trade!Resume(c)
  <2>1. astray' = astray /\ failures' = failures
    BY <1>2 DEF Trade!Fetch, Trade!Set, Trade!Token, Trade!Order, Trade!NewDefault, Trade!SetOwn,
       Trade!Keep, Trade!Resume
  <2> QED
    BY <1>2, <2>1, SimpleStray
<1>3. CASE Trade!Owner(c)
  BY <1>3, OwnerStray DEF Trade!Owner
<1>4. CASE Trade!Decide(c)
  BY <1>4, DecideStray DEF Trade!Decide
<1>5. CASE Trade!KeepBoth(c)
  BY <1>5, KeepBothStray DEF Trade!KeepBoth
<1>6. CASE Trade!Remember(c)
  BY <1>6, RememberStray DEF Trade!Remember
<1>7. CASE Trade!Shown(c)
  BY <1>7, ShownStray DEF Trade!Shown
<1>8. CASE Trade!Register(c)
  BY <1>8, RegisterStray DEF Trade!Register
<1>9. CASE Trade!Clear(c)
  BY <1>9, ClearStray DEF Trade!Clear
<1> QED
  BY <1>1, <1>2, <1>3, <1>4, <1>5, <1>6, <1>7, <1>8, <1>9 DEF Trade!TradeStep, Trade!DataStep

LEMMA StrayBegins == Init => StrayIInv
<1> SUFFICES ASSUME Init PROVE StrayIInv
  OBVIOUS
<1>1. failures = 0 /\ wallet = 1 /\ calls = [c \in Slot |-> Idle]
  BY DEF Init
<1>2. data["wallet"] \in {None, wallet} /\ data["token"] = None
  <2>1. CASE data = Fresh
    BY <2>1, FreshData
  <2>2. CASE data # Fresh
    <3>1. PICK t : t = TRUE /\ data = [Fresh EXCEPT !["setting"] = 1, !["wallet"] = 1, !["card"] = t]
      BY <2>2 DEF Init
    <3> QED
      BY <1>1, <3>1, FreshData
  <2> QED
    BY <2>1, <2>2
<1>3. \A c \in Slot : Vouched(calls[c])
  BY <1>1, TradeIdle, VouchedNone
<1> QED
  BY <1>1, <1>2, <1>3 DEF StrayIInv, Unstray

LEMMA StrayKeeps == IInv /\ StrayIInv /\ [Next]_vars => StrayIInv'
<1> SUFFICES ASSUME IInv, StrayIInv, [Next]_vars PROVE StrayIInv'
  OBVIOUS
<1>1. CASE UNCHANGED vars
  <2>1. /\ failures' = failures /\ part' = part /\ astray' = astray /\ data' = data /\ wallet' = wallet
        /\ asked' = asked /\ calls' = calls
    BY <1>1 DEF vars, chatVars, tradeVars
  <2>2. Unstray => Unstray'
    BY <2>1 DEF Unstray, Trade!Replaced, Trade!Prompting, Trade!Kept, Vouched
  <2> QED
    BY <2>1, <2>2 DEF StrayIInv
<1>2. CASE Next
  <2>1. PICK c \in Slot : \/ Anywhere(c) \/ OnTable(c) \/ InCopyTrade(c) \/ InMonitor(c)
                          \/ InTrade(c) \/ OnData(c) \/ AtTheDoor \/ Notifying
    BY <1>2 DEF Next
  <2>2. part' = part
    BY <2>1 DEF Anywhere, OnTable, InCopyTrade, InMonitor, InTrade, OnData, AtTheDoor, Notifying
  <2>3. ASSUME part = "trade" PROVE failures' \in Nat /\ (failures' = 0 /\ ~astray' => Unstray')
    <3>1. TradeIInv /\ failures \in Nat /\ (failures = 0 /\ ~astray => Unstray)
      BY <2>3 DEF IInv, PartIInv, StrayIInv
    <3>2. CASE Fail(c) /\ Anywhere(c)
      <4>1. failures' = failures + 1
        BY <3>2 DEF Fail
      <4> QED
        BY <3>1, <4>1
    <3>3. CASE Anywhere(c) /\ ~Fail(c)
      <4>1. (Receive(c) \/ Message(c)) /\ UNCHANGED tradeVars /\ astray' = astray
        BY <3>3 DEF Anywhere, tradeVars
      <4>2. failures' = failures
        BY <4>1 DEF Receive, Message
      <4> QED
        BY <3>1, <4>1, <4>2, AnywhereStray
    <3>4. CASE InTrade(c) \/ OnData(c)
      BY <3>1, <3>4, TradeStray DEF InTrade, OnData
    <3>5. ~OnTable(c)
      BY <3>1, NoTableStep DEF OnTable
    <3> QED
      BY <2>1, <2>3, <3>2, <3>3, <3>4, <3>5 DEF InCopyTrade, InMonitor, AtTheDoor, Notifying
  <2> QED
    BY <2>2, <2>3 DEF StrayIInv
<1> QED
  BY <1>1, <1>2

LEMMA OthersLeaveOrders ==
  ASSUME TradeIInv, NEW c \in Slot, Trade!TradeStep(c) \/ Trade!DataStep(c), ~Trade!Order(c)
  PROVE  orders' = orders
<1>1. CASE \/ Trade!Owner(c) \/ Trade!Fetch(c) \/ Trade!Set(c) \/ Trade!Token(c) \/ Trade!Shown(c)
           \/ Trade!NewDefault(c) \/ Trade!Register(c)
  BY <1>1 DEF Trade!tradeVars, Trade!Owner, Trade!Fetch, Trade!Set, Trade!Token, Trade!Shown,
     Trade!NewDefault, Trade!Register
<1>2. CASE Trade!SetOwn(c, "setAuto", Trade!FlipAuto) \/ Trade!SetOwn(c, "setSandwich", Trade!FlipSandwich)
  BY <1>2 DEF Trade!tradeVars, Trade!SetOwn
<1>3. CASE Trade!DataStep(c)
  BY <1>3 DEF Trade!DataStep, Trade!Keep, Trade!Resume, Trade!KeepBoth, Trade!Remember, Trade!Decide,
     Trade!Clear, Trade!tradeVars
<1>4. CASE Trade!SettingHandlers(c) \/ Trade!SwapHandlers(c) \/ Trade!WalletHandlers(c)
  BY <1>4, HandlersStart DEF Starts
<1> QED
  BY <1>1, <1>2, <1>3, <1>4 DEF Trade!TradeStep

LEMMA StepOrdersRight ==
  ASSUME IInv, StrayIInv, Next, orders' # orders
  PROVE  LET o == orders'[Len(orders')]
         IN /\ failures = 0 /\ ~astray => o.wallet \in o.were /\ (o.answer => o.token \in o.prompts)
            /\ ~clash => /\ o.wallet = wallet /\ o.mode = Trade!Mode(rows[wallet])
                         /\ o.answer => o.token = asked
<1>1. PICK c \in Slot : \/ Anywhere(c) \/ OnTable(c) \/ InCopyTrade(c) \/ InMonitor(c)
                        \/ InTrade(c) \/ OnData(c) \/ AtTheDoor \/ Notifying
  BY DEF Next
<1>2. part = "trade" /\ (Trade!TradeStep(c) \/ Trade!DataStep(c))
  BY <1>1 DEF Anywhere, OnTable, InCopyTrade, InMonitor, AtTheDoor, Notifying, tradeVars, InTrade, OnData
<1>3. TradeIInv
  BY <1>2 DEF IInv, PartIInv
<1>4. Trade!Order(c)
  BY <1>2, <1>3, OthersLeaveOrders
<1>5. PICK x \in TradeOrder :
        /\ orders' = Append(orders, x)
        /\ ~clash => /\ x.wallet = wallet /\ x.mode = Trade!Mode(rows[wallet])
                     /\ x.answer => x.token = asked
        /\ Vouched(calls[c]) => x.wallet \in x.were /\ (x.answer => x.token \in x.prompts)
  BY <1>3, <1>4, OrderMade
<1>6. orders \in Seq(TradeOrder)
  BY <1>3 DEF TradeIInv, TradeTypes
<1>7. orders'[Len(orders')] = x
  BY <1>5, <1>6
<1>8. failures = 0 /\ ~astray => Vouched(calls[c])
  BY <1>2 DEF StrayIInv, Unstray
<1> QED
  BY <1>5, <1>7, <1>8

\* However orders, menus and imports overlap, an order goes out from a wallet that was
\* the chat's when its handler began or asked for it, and an answer buys the token of a
\* prompt that stood then, as long as no call failed, no menu put a replaced wallet back
\* and no prompts crossed.  Where no two handlers met it is the wallet and the mode of
\* the moment, and the token asked for.
THEOREM OrdersRight == Spec => OrderAsAsked
<1>1. IInv /\ StrayIInv /\ [Next]_vars
        => [orders' # orders =>
              LET o == orders'[Len(orders')]
              IN /\ failures = 0 /\ ~astray =>
                      o.wallet \in o.were /\ (o.answer => o.token \in o.prompts)
                 /\ ~clash => /\ o.wallet = wallet
                              /\ o.mode = Trade!Mode(rows[wallet])
                              /\ o.answer => o.token = asked]_vars
  BY StepOrdersRight
<1>2. Init => IInv /\ StrayIInv
  BY BotBegins, StrayBegins
<1>3. IInv /\ StrayIInv /\ [Next]_vars => IInv' /\ StrayIInv'
  BY BotKeeps, StrayKeeps
<1> QED
  BY <1>1, <1>2, <1>3, PTL DEF Spec, OrderAsAsked
=============================================================================
