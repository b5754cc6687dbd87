------------------------- MODULE MonitorControlProofs -------------------------
(***************************************************************************)
(* The invariant of MonitorControl, that a row changes only after its      *)
(* event was published, and that a failing call changes none, for any      *)
(* rows, chats, wallets, calls, failures and restarts.                     *)
(***************************************************************************)
EXTENDS MonitorControl, TLAPS

Event == [event : {"pause", "resume"}, wallet : Wallet]

-----------------------------------------------------------------------------
(***************************************************************************)
(* The last event of a wallet on a channel                                 *)
(***************************************************************************)
Mentions(c, w) == \E i \in DOMAIN c : c[i].wallet = w

EndsWith(c, w, e) ==
  \E i \in DOMAIN c :
    /\ c[i].wallet = w /\ c[i].event = e
    /\ \A j \in DOMAIN c : c[j].wallet = w => j <= i

\* An event that is published is the last of its wallet, and of no other.
LEMMA Published ==
  ASSUME NEW c \in Seq(Event), NEW m \in Event, NEW w
  PROVE  /\ Append(c, m) \in Seq(Event)
         /\ Mentions(Append(c, m), w) <=> Mentions(c, w) \/ w = m.wallet
         /\ w # m.wallet => \A e : EndsWith(Append(c, m), w, e) <=> EndsWith(c, w, e)
         /\ w = m.wallet => \A e : EndsWith(Append(c, m), w, e) <=> e = m.event
<1> DEFINE a == Append(c, m)
           n == Len(c)
<1>1. /\ a \in Seq(Event) /\ n \in Nat
      /\ DOMAIN c = 1..n /\ DOMAIN a = 1..(n + 1)
      /\ \A i \in 1..n : a[i] = c[i]
      /\ a[n + 1] = m
  OBVIOUS
<1> HIDE DEF a, n
<1>2. 1..(n + 1) = 1..n \cup {n + 1} /\ \A i \in 1..n : i <= n + 1 /\ ~(n + 1 <= i)
  BY <1>1
<1>3. Mentions(a, w) <=> Mentions(c, w) \/ w = m.wallet
  BY <1>1, <1>2 DEF Mentions
<1>4. ASSUME w # m.wallet, NEW e PROVE EndsWith(a, w, e) <=> EndsWith(c, w, e)
  BY <1>1, <1>2, <1>4 DEF EndsWith
<1>5. ASSUME w = m.wallet, NEW e PROVE EndsWith(a, w, e) <=> e = m.event
  <2>1. \A i \in 1..(n + 1) : i <= n + 1
    BY <1>1
  <2>2. \A i \in 1..(n + 1) : n + 1 <= i => i = n + 1
    BY <1>1
  <2> QED
    BY <1>1, <1>2, <1>5, <2>1, <2>2 DEF EndsWith
<1> QED
  BY <1>1, <1>3, <1>4, <1>5 DEF a

\* Taking the first event leaves the last one of a wallet, unless it is the first.
LEMMA Taken ==
  ASSUME NEW c \in Seq(Event), c # <<>>, NEW w
  PROVE  /\ Tail(c) \in Seq(Event) /\ Head(c) \in Event
         /\ Mentions(c, w) <=> Mentions(Tail(c), w) \/ w = Head(c).wallet
         /\ Mentions(Tail(c), w) \/ w # Head(c).wallet =>
              \A e : EndsWith(Tail(c), w, e) <=> EndsWith(c, w, e)
         /\ ~Mentions(Tail(c), w) /\ w = Head(c).wallet =>
              \A e : EndsWith(c, w, e) <=> e = Head(c).event
<1> DEFINE b == Tail(c)
           m == Head(c)
           n == Len(c) - 1
<1>1. /\ b \in Seq(Event) /\ m \in Event /\ n \in Nat
      /\ DOMAIN c = 1..(n + 1) /\ DOMAIN b = 1..n
      /\ \A i \in 1..n : b[i] = c[i + 1]
      /\ c[1] = m
  OBVIOUS
<1> HIDE DEF b, m, n
<1>2. \A i \in 1..(n + 1) : i = 1 \/ (i - 1 \in 1..n /\ (i - 1) + 1 = i /\ c[i] = b[i - 1])
  BY <1>1
<1>3. \A i \in 1..n : i + 1 \in 1..(n + 1) /\ 1 <= i + 1 /\ ~(i + 1 <= 1)
  BY <1>1
<1>4. Mentions(c, w) <=> Mentions(b, w) \/ w = m.wallet
  <2>1. ASSUME Mentions(c, w) PROVE Mentions(b, w) \/ w = m.wallet
    BY <1>1, <1>2, <2>1 DEF Mentions
  <2>2. ASSUME Mentions(b, w) PROVE Mentions(c, w)
    BY <1>1, <1>3, <2>2 DEF Mentions
  <2>3. ASSUME w = m.wallet PROVE Mentions(c, w)
    BY <1>1, <2>3 DEF Mentions
  <2> QED
    BY <2>1, <2>2, <2>3
<1>5. ASSUME Mentions(b, w) \/ w # m.wallet, NEW e
      PROVE  EndsWith(b, w, e) <=> EndsWith(c, w, e)
  <2>1. ASSUME EndsWith(b, w, e) PROVE EndsWith(c, w, e)
    <3>1. PICK i \in 1..n : /\ b[i].wallet = w /\ b[i].event = e
                            /\ \A j \in 1..n : b[j].wallet = w => j <= i
      BY <1>1, <2>1 DEF EndsWith
    <3>2. \A j \in 1..(n + 1) : c[j].wallet = w => j <= i + 1
      BY <1>1, <1>2, <3>1
    <3> QED
      BY <1>1, <1>3, <3>1, <3>2 DEF EndsWith
  <2>2. ASSUME EndsWith(c, w, e) PROVE EndsWith(b, w, e)
    <3>1. PICK i \in 1..(n + 1) : /\ c[i].wallet = w /\ c[i].event = e
                                  /\ \A j \in 1..(n + 1) : c[j].wallet = w => j <= i
      BY <1>1, <2>2 DEF EndsWith
    <3>2. i # 1
      BY <1>1, <1>3, <1>5, <3>1 DEF Mentions
    <3>3. i - 1 \in 1..n /\ c[i] = b[i - 1]
      BY <1>2, <3>2
    <3>4. \A j \in 1..n : b[j].wallet = w => j <= i - 1
      BY <1>1, <1>3, <3>1, <3>3
    <3> QED
      BY <1>1, <3>1, <3>3, <3>4 DEF EndsWith
  <2> QED
    BY <2>1, <2>2
<1>6. ASSUME ~Mentions(b, w), w = m.wallet, NEW e
      PROVE  EndsWith(c, w, e) <=> e = m.event
  <2>1. \A i \in 1..(n + 1) : c[i].wallet = w <=> i = 1
    BY <1>1, <1>2, <1>3, <1>6 DEF Mentions
  <2> QED
    BY <1>1, <2>1 DEF EndsWith
<1> QED
  BY <1>1, <1>4, <1>5, <1>6 DEF b, m

LEMMA OnEmpty ==
  ASSUME NEW w PROVE ~Mentions(<<>>, w) /\ \A e : ~EndsWith(<<>>, w, e)
BY DEF Mentions, EndsWith

LEMMA EndsMentions ==
  ASSUME NEW c, NEW w, NEW e, EndsWith(c, w, e) PROVE Mentions(c, w)
BY DEF Mentions, EndsWith

-----------------------------------------------------------------------------
(***************************************************************************)
(* The inductive invariant                                                 *)
(***************************************************************************)
\* What a call has in its hands: a commit comes after every row it changes was
\* announced, and only a pause is taken back.
CallInv ==
  \A t \in Call :
    LET o == op[t]
    IN /\ o.unheard \subseteq o.said /\ o.left \cap o.said = {}
       /\ o.stage = "publish" => o.dirty \subseteq o.left \cup o.said
       /\ o.stage = "commit" => o.left = {} /\ o.dirty \subseteq o.said
       /\ o.stage = "undo" => o.left = {} /\ o.to = "off"
       /\ o.undoes => o.to = "off"

\* Without a connection there is nothing to hear, and before the rows are read
\* nothing to watch.
TrackerInv ==
  /\ ~listening => channel = <<>>
  /\ ~Started => watched = {}
  /\ phase = "monitors" => todo = {}
  /\ phase \in {"monitors", "copytrades"} => watched = {}

\* No two calls touch the same wallet, unless it is disturbed.
Alone ==
  \A t, u \in Call : \A r \in Touched(op[t]), q \in Touched(op[u]) :
    WalletOf[r] = WalletOf[q] /\ WalletOf[r] \notin disturbed => t = u

\* The rows a call touches are as it found them; one whose pause it announced is
\* the only active row of its wallet.
StableRow(o, r) ==
  /\ r \notin o.dirty => rows[r] = o.to
  /\ r \in o.dirty /\ o.to = "off" => rows[r] = "on"
  /\ r \in o.said /\ o.to # "on" =>
       \A q \in Row \ {r} : WalletOf[q] = WalletOf[r] => rows[q] # "on"

Stable ==
  \A t \in Call : \A r \in Touched(op[t]) :
    WalletOf[r] \notin disturbed => StableRow(op[t], r)

\* The rows the tracker has read in this life.
Seen == CASE phase = "copytrades"       -> Monitors
          [] phase \in {"fill", "loop"} -> Row
          [] OTHER                      -> {}

HasEvent(w) == Mentions(channel, w)

\* What the tracker will think of a wallet when it has caught up, and the rows that
\* this comes from.
Viewed(w) ==
  \/ EndsWith(channel, w, "resume")
  \/ ~HasEvent(w) /\ w \in watched \cup todo

Known(w) == IF HasEvent(w) THEN Row ELSE Seen

\* A call in flight has told this life of the tracker what the wallet will be.
Told(t, w) == \E r \in op[t].said \ op[t].unheard : WalletOf[r] = w

\* What a call announced before this life of the tracker and has yet to commit.
Owed(t, w) == {r \in op[t].unheard \cap op[t].dirty : WalletOf[r] = w}

\* The tracker's view is that of the call that told it, otherwise that of the rows;
\* what it was not told is not among the rows it has read.
FollowedBy(w) ==
  /\ \A t \in Call : Told(t, w) =>
       (HasEvent(w) \/ phase = "loop") /\ (Viewed(w) <=> op[t].to = "on")
  /\ (\A t \in Call : ~Told(t, w)) => (Viewed(w) <=> w \in ActiveWallets(Known(w)))
  /\ \A t \in Call : Owed(t, w) \cap Seen = {} /\ (HasEvent(w) /\ Owed(t, w) # {} => Told(t, w))

Followed == Started => \A w \in Wallet \ disturbed : FollowedBy(w)

ControlIInv == TypeOK /\ CallInv /\ TrackerInv /\ Alone /\ Stable /\ Followed

-----------------------------------------------------------------------------
(***************************************************************************)
(* Lemmas                                                                  *)
(***************************************************************************)
LEMMA Constants ==
  /\ Old \subseteq Row /\ Monitors \subseteq Row
  /\ \A r \in Row : WalletOf[r] \in Wallet
  /\ MaxCalls \in Nat /\ MaxFaults \in Nat /\ MaxBoots \in Nat
BY ConstantsAssumption

LEMMA IdleIs ==
  /\ Idle \in OpType /\ Idle.stage = "idle" /\ Idle.to = "new" /\ ~Idle.undoes
  /\ Idle.left = {} /\ Idle.said = {} /\ Idle.unheard = {} /\ Idle.dirty = {}
  /\ Touched(Idle) = {}
BY DEF Idle, OpType, Status, Touched

LEMMA ActiveIs ==
  ASSUME NEW S \in SUBSET Row, NEW w
  PROVE  /\ w \in ActiveWallets(S) <=> \E r \in S : rows[r] = "on" /\ WalletOf[r] = w
         /\ w \in ActiveWallets(S)' <=> \E r \in S : rows'[r] = "on" /\ WalletOf[r] = w
BY DEF ActiveWallets, Wallets

LEMMA SeenRows == Seen \subseteq Row
BY Constants DEF Seen

\* A wallet's view comes from its rows: what is and is not active of them.
LEMMA KnownIs ==
  ASSUME NEW w
  PROVE  /\ HasEvent(w) => (w \in ActiveWallets(Known(w)) <=> w \in ActiveWallets(Row))
         /\ ~HasEvent(w) => (w \in ActiveWallets(Known(w)) <=> w \in ActiveWallets(Seen))
         /\ (HasEvent(w) => (w \in ActiveWallets(Known(w)) <=> w \in ActiveWallets(Row)))'
         /\ (~HasEvent(w) => (w \in ActiveWallets(Known(w)) <=> w \in ActiveWallets(Seen)))'
BY DEF Known

\* One call of many takes a step.
LEMMA OneCall ==
  ASSUME TypeOK, NEW t \in Call, NEW n \in OpType, n.stage = "idle" => n = Idle,
         op' = [op EXCEPT ![t] = n]
  PROVE  /\ op' \in [Call -> OpType]
         /\ op'[t] = n /\ \A u \in Call \ {t} : op'[u] = op[u]
         /\ \A u \in Call : op'[u].stage = "idle" => op'[u] = Idle
BY DEF TypeOK

\* What a call does to its record for a wallet, as far as the tracker is concerned.
SameFor(t, w) ==
  /\ Told(t, w)' <=> Told(t, w)
  /\ Told(t, w) => op'[t].to = op[t].to
  /\ Owed(t, w)' \subseteq Owed(t, w)

\* It ends, and of what it announced for the wallet it changes nothing.
EndsFor(t, w) ==
  /\ op'[t] = Idle
  /\ \A r \in op[t].said \cap op[t].dirty : WalletOf[r] # w

LEMMA SameCall == ASSUME NEW t, NEW w, op'[t] = op[t] PROVE SameFor(t, w)
BY DEF SameFor, Told, Owed

\* Where calls continue or end without a change the tracker's view stays right:
\* the rows that were announced were as announced before.
LEMMA FollowKeeps ==
  ASSUME TypeOK, CallInv, Stable, NEW w \in Wallet \ disturbed, FollowedBy(w),
         \A r \in Row : WalletOf[r] = w => rows'[r] = rows[r], phase' = phase,
         Viewed(w)' <=> Viewed(w), HasEvent(w)' <=> HasEvent(w),
         \A t \in Call : SameFor(t, w) \/ EndsFor(t, w)
  PROVE  FollowedBy(w)'
<1>1. \A t \in Call : Told(t, w)' => SameFor(t, w)
  BY IdleIs DEF EndsFor, Told
<1>2. \A t \in Call : Owed(t, w)' # {} => SameFor(t, w)
  BY IdleIs DEF EndsFor, Owed
<1>3. \A t \in Call : Owed(t, w)' \subseteq Owed(t, w)
  BY <1>2 DEF SameFor
<1>4. Seen' = Seen
  BY DEF Seen
<1>5. \A t \in Call : Told(t, w)' =>
        (HasEvent(w) \/ phase = "loop")' /\ (Viewed(w)' <=> op'[t].to = "on")
  BY <1>1 DEF FollowedBy, SameFor
<1>6. \A t \in Call : /\ Owed(t, w)' \cap Seen' = {}
                      /\ HasEvent(w)' /\ Owed(t, w)' # {} => Told(t, w)'
  BY <1>1, <1>2, <1>3, <1>4 DEF FollowedBy, SameFor
<1>7. w \in ActiveWallets(Known(w))' <=> w \in ActiveWallets(Known(w))
  <2>1. \A S \in SUBSET Row : w \in ActiveWallets(S)' <=> w \in ActiveWallets(S)
    BY ActiveIs
  <2> QED
    BY <1>4, <2>1, KnownIs, SeenRows, Constants
<1>8. ASSUME \A t \in Call : ~Told(t, w)'
      PROVE  Viewed(w)' <=> w \in ActiveWallets(Known(w))'
  <2>1. CASE \A t \in Call : ~Told(t, w)
    BY <1>7, <2>1 DEF FollowedBy
  <2>2. CASE \E t \in Call : Told(t, w)
    <3>1. PICK t \in Call : Told(t, w)
      BY <2>2
    <3>2. PICK q \in op[t].said : WalletOf[q] = w
      BY <3>1 DEF Told
    <3>3. EndsFor(t, w)
      BY <1>8, <3>1 DEF SameFor
    <3>4. q \notin op[t].dirty
      BY <3>2, <3>3 DEF EndsFor
    <3>5. q \in Touched(op[t]) /\ q \in Row
      BY <3>2 DEF Touched, TypeOK, OpType
    <3>6. StableRow(op[t], q)
      BY <3>2, <3>5 DEF Stable
    <3>7. rows[q] = op[t].to
      BY <3>4, <3>6 DEF StableRow
    <3>8. Viewed(w) <=> op[t].to = "on"
      BY <3>1 DEF FollowedBy
    <3>9. w \in ActiveWallets(Row) <=> op[t].to = "on"
      <4>1. CASE op[t].to = "on"
        BY <3>2, <3>5, <3>7, <4>1, ActiveIs
      <4>2. CASE op[t].to # "on"
        BY <3>2, <3>5, <3>6, <3>7, <4>2, ActiveIs DEF StableRow
      <4> QED
        BY <4>1, <4>2
    <3>10. HasEvent(w) \/ phase = "loop"
      BY <3>1 DEF FollowedBy
    <3>11. w \in ActiveWallets(Known(w)) <=> w \in ActiveWallets(Row)
      BY <3>10 DEF Known, Seen
    <3> QED
      BY <1>7, <3>8, <3>9, <3>11
  <2> QED
    BY <2>1, <2>2
<1> QED
  BY <1>5, <1>6, <1>8 DEF FollowedBy

LEMMA SameView ==
  ASSUME UNCHANGED <<channel, tracker>>, NEW w
  PROVE  /\ Viewed(w)' <=> Viewed(w)
         /\ HasEvent(w)' <=> HasEvent(w)
         /\ Started' <=> Started
         /\ phase' = phase
BY DEF Viewed, HasEvent, Started, tracker

LEMMA AloneKeeps ==
  ASSUME Alone, disturbed \subseteq disturbed',
         \A t \in Call : Touched(op'[t]) \subseteq Touched(op[t])
  PROVE  Alone'
BY DEF Alone

LEMMA StableKeeps ==
  ASSUME Stable, disturbed \subseteq disturbed', rows' = rows,
         \A t \in Call : \/ Touched(op'[t]) = {}
                         \/ /\ Touched(op'[t]) \subseteq Touched(op[t])
                            /\ op'[t].to = op[t].to /\ op'[t].dirty = op[t].dirty
                            /\ op'[t].said \subseteq op[t].said
  PROVE  Stable'
<1> SUFFICES ASSUME NEW t \in Call, NEW r \in Touched(op'[t]), WalletOf[r] \notin disturbed'
             PROVE  StableRow(op[t], r)'
  BY DEF Stable
<1>1. r \in Touched(op[t]) /\ WalletOf[r] \notin disturbed
  OBVIOUS
<1>2. StableRow(op[t], r)
  BY <1>1 DEF Stable
<1> QED
  BY <1>2 DEF StableRow

LEMMA WalletsIn == ASSUME NEW S \in SUBSET Row PROVE Wallets(S) \subseteq Wallet
BY Constants DEF Wallets

LEMMA TouchedIn == ASSUME NEW o \in OpType PROVE Touched(o) \subseteq Row
BY DEF Touched, OpType

LEMMA RestingCalls ==
  ASSUME TypeOK, NEW t \in Call, t \notin InFlight PROVE op[t] = Idle
BY DEF TypeOK, InFlight

-----------------------------------------------------------------------------
(***************************************************************************)
(* The invariant is kept: calls that begin                                 *)
(***************************************************************************)
LEMMA BeginKeeps ==
  ASSUME ControlIInv, NEW t \in Call, NEW o \in OpType, Begin(t, o),
         o.stage \in {"publish", "commit"}, o.said = {}, o.unheard = {},
         o.dirty \subseteq o.left, o.stage = "commit" => o.left = {},
         o.undoes => o.to = "off",
         \A r \in Touched(o) : /\ r \notin o.dirty => rows[r] = o.to
                               /\ r \in o.dirty /\ o.to = "off" => rows[r] = "on"
  PROVE  ControlIInv'
<1> USE DEF ControlIInv, Begin
<1>1. op[t] = Idle
  BY RestingCalls
<1>2. /\ op' \in [Call -> OpType]
      /\ op'[t] = o /\ \A u \in Call \ {t} : op'[u] = op[u]
      /\ \A u \in Call : op'[u].stage = "idle" => op'[u] = Idle
  BY OneCall
<1>3. TypeOK'
  <2>1. disturbed' \subseteq Wallet
    BY WalletsIn, TouchedIn DEF TypeOK
  <2>2. calls' \in 0..MaxCalls
    BY Constants DEF TypeOK
  <2> QED
    BY <1>2, <2>1, <2>2 DEF TypeOK, tracker, Started
<1>4. CallInv'
  BY <1>2 DEF CallInv
<1>5. TrackerInv'
  BY DEF TrackerInv, tracker, Started
<1>6. Alone'
  <2>1. ASSUME NEW u \in Call \ {t}, NEW r \in Touched(o), NEW q \in Touched(op[u]),
               WalletOf[r] = WalletOf[q]
        PROVE  WalletOf[r] \in disturbed'
    <3>1. u \in InFlight
      BY <2>1, RestingCalls, IdleIs
    <3> QED
      BY <2>1, <3>1 DEF Wallets
  <2>2. disturbed \subseteq disturbed'
    OBVIOUS
  <2> QED
    BY <1>2, <2>1, <2>2 DEF Alone
<1>7. Stable'
  <2> SUFFICES ASSUME NEW u \in Call, NEW r \in Touched(op'[u]), WalletOf[r] \notin disturbed'
               PROVE  StableRow(op[u], r)'
    BY DEF Stable
  <2>1. CASE u = t
    BY <1>2, <2>1 DEF StableRow
  <2>2. CASE u # t
    BY <1>2, <2>2 DEF Stable, StableRow
  <2> QED
    BY <2>1, <2>2
<1>8. Followed'
  <2> SUFFICES ASSUME Started', NEW w \in Wallet \ disturbed' PROVE FollowedBy(w)'
    BY DEF Followed
  <2>1. /\ Viewed(w)' <=> Viewed(w)
        /\ HasEvent(w)' <=> HasEvent(w)
        /\ Started' <=> Started
        /\ phase' = phase
    BY SameView
  <2>2. FollowedBy(w) /\ w \in Wallet \ disturbed
    BY <2>1 DEF Followed
  <2>3. SameFor(t, w)
    BY <1>1, <1>2, IdleIs DEF SameFor, Told, Owed
  <2>4. \A u \in Call : SameFor(u, w)
    BY <1>2, <2>3, SameCall
  <2> QED
    BY <2>1, <2>2, <2>4, FollowKeeps
<1> QED
  BY <1>3, <1>4, <1>5, <1>6, <1>7, <1>8

LEMMA AddKeeps ==
  ASSUME ControlIInv, NEW t \in Call, NEW r \in Row, Add(t, r) PROVE ControlIInv'
<1> DEFINE o == [Idle EXCEPT !.stage = "publish", !.to = "on", !.left = {r}, !.dirty = {r}]
<1>1. /\ o \in OpType /\ o.stage = "publish" /\ o.to = "on" /\ o.left = {r} /\ o.dirty = {r}
      /\ o.said = {} /\ o.unheard = {} /\ ~o.undoes
  BY DEF Idle, OpType, Status
<1>2. Begin(t, o)
  BY DEF Add
<1> HIDE DEF o
<1> QED
  BY <1>1, <1>2, BeginKeeps DEF Touched

LEMMA UpdateKeeps ==
  ASSUME ControlIInv, NEW t \in Call, NEW r \in Row, NEW s \in {"on", "off"},
         NEW announced \in {{r}, Changed({r}, s)}, Update(t, r, s, announced)
  PROVE  ControlIInv'
<1> DEFINE d == Changed({r}, s)
           o == [Idle EXCEPT !.stage = IF announced = {} THEN "commit" ELSE "publish",
                             !.to = s, !.left = announced, !.dirty = d]
<1>1. d \subseteq {r} /\ announced \subseteq {r} /\ d \subseteq announced
      /\ (r \in d <=> rows[r] # s)
  BY DEF Changed
<1>2. /\ o \in OpType /\ o.stage = IF announced = {} THEN "commit" ELSE "publish"
      /\ o.to = s /\ o.left = announced /\ o.dirty = d
      /\ o.said = {} /\ o.unheard = {} /\ ~o.undoes
  BY <1>1 DEF Idle, OpType, Status
<1>3. Begin(t, o) /\ rows[r] \in {"on", "off"}
  BY DEF Update, Existing
<1> HIDE DEF o, d
<1>4. \A q \in Touched(o) : /\ q \notin o.dirty => rows[q] = o.to
                            /\ q \in o.dirty /\ o.to = "off" => rows[q] = "on"
  BY <1>1, <1>2, <1>3 DEF Touched
<1>5. o.stage \in {"publish", "commit"} /\ (o.stage = "commit" => o.left = {})
  BY <1>2
<1> QED
  BY <1>1, <1>2, <1>3, <1>4, <1>5, BeginKeeps

LEMMA DeleteKeeps ==
  ASSUME ControlIInv, NEW t \in Call, NEW r \in Row, Delete(t, r) PROVE ControlIInv'
<1> DEFINE o == [Idle EXCEPT !.stage = "publish", !.to = "gone", !.left = {r}, !.dirty = {r}]
<1>1. /\ o \in OpType /\ o.stage = "publish" /\ o.to = "gone" /\ o.left = {r} /\ o.dirty = {r}
      /\ o.said = {} /\ o.unheard = {} /\ ~o.undoes
  BY DEF Idle, OpType, Status
<1>2. Begin(t, o)
  BY DEF Delete
<1> HIDE DEF o
<1> QED
  BY <1>1, <1>2, BeginKeeps DEF Touched

LEMMA InactiveAllKeeps ==
  ASSUME ControlIInv, NEW t \in Call, NEW mine \in SUBSET Existing, NEW undoes \in BOOLEAN,
         InactiveAll(t, mine, undoes)
  PROVE  ControlIInv'
<1> DEFINE d == Changed(mine, "off")
           o == [Idle EXCEPT !.stage = "publish", !.to = "off", !.left = mine,
                             !.dirty = d, !.undoes = undoes]
<1>1. /\ mine \subseteq Row /\ d \subseteq mine
      /\ \A r \in mine : (r \in d <=> rows[r] # "off") /\ rows[r] \in {"on", "off"}
  BY DEF Changed, Existing
<1>2. /\ o \in OpType /\ o.stage = "publish" /\ o.to = "off" /\ o.left = mine /\ o.dirty = d
      /\ o.said = {} /\ o.unheard = {}
  BY <1>1 DEF Idle, OpType, Status
<1>3. Begin(t, o)
  BY DEF InactiveAll
<1> HIDE DEF o, d
<1>4. \A q \in Touched(o) : /\ q \notin o.dirty => rows[q] = o.to
                            /\ q \in o.dirty /\ o.to = "off" => rows[q] = "on"
  BY <1>1, <1>2 DEF Touched
<1> QED
  BY <1>1, <1>2, <1>3, <1>4, BeginKeeps

LEMMA NewCallKeeps ==
  ASSUME ControlIInv, NEW t \in Call, NewCall(t) PROVE ControlIInv'
<1> USE Constants
<1>1. CASE AddMonitor(t) \/ AddCopyTrade(t)
  BY <1>1, AddKeeps DEF AddMonitor, AddCopyTrade
<1>2. CASE UpdateMonitor(t)
  BY <1>2, UpdateKeeps DEF UpdateMonitor
<1>3. CASE UpdateCopyTrade(t)
  BY <1>3, UpdateKeeps DEF UpdateCopyTrade
<1>4. CASE DeleteMonitor(t) \/ DeleteCopyTrade(t)
  BY <1>4, DeleteKeeps DEF DeleteMonitor, DeleteCopyTrade
<1>5. CASE InactiveAllMonitors(t)
  <2>1. PICK c \in Chat : InactiveAll(t, {r \in Existing \cap Monitors : ChatOf[r] = c}, TRUE)
    BY <1>5 DEF InactiveAllMonitors
  <2> QED
    BY <2>1, InactiveAllKeeps
<1>6. CASE InactiveAllCopyTrades(t)
  <2>1. PICK c \in Chat : InactiveAll(t, {r \in Existing \ Monitors : ChatOf[r] = c}, FALSE)
    BY <1>6 DEF InactiveAllCopyTrades
  <2> QED
    BY <2>1, InactiveAllKeeps
<1> QED
  BY <1>1, <1>2, <1>3, <1>4, <1>5, <1>6 DEF NewCall

-----------------------------------------------------------------------------
(***************************************************************************)
(* The invariant is kept: calls that continue and end                      *)
(***************************************************************************)
LEMMA ReplyCounts ==
  ASSUME TypeOK, NEW reply \in Replies, Reply(reply) PROVE faults' \in 0..MaxFaults
BY Constants DEF TypeOK, Reply

\* What a publication changes for the row's wallet, and for the others.
LEMMA PublishIs ==
  ASSUME TypeOK, TrackerInv, UNCHANGED <<listening, tracker>>,
         NEW r \in Row, NEW event \in {"pause", "resume"}, NEW reply, Publish(r, event, reply)
  PROVE  /\ channel' \in Seq(Event)
         /\ ~listening \/ reply = "refused" => channel' = channel
         /\ \A w \in Wallet : w # WalletOf[r] =>
              (Viewed(w)' <=> Viewed(w)) /\ (HasEvent(w)' <=> HasEvent(w))
         /\ listening /\ reply # "refused" =>
              HasEvent(WalletOf[r])' /\ (Viewed(WalletOf[r])' <=> event = "resume")
<1>1. CASE listening /\ reply # "refused"
  <2> DEFINE m == [event |-> event, wallet |-> WalletOf[r]]
  <2>1. m \in Event /\ m.wallet = WalletOf[r] /\ m.event = event /\ channel \in Seq(Event)
    BY Constants DEF Event, TypeOK
  <2>2. channel' = Append(channel, m)
    BY <1>1 DEF Publish
  <2> HIDE DEF m
  <2>3. ASSUME NEW w \in Wallet, w # WalletOf[r]
        PROVE  (Viewed(w)' <=> Viewed(w)) /\ (HasEvent(w)' <=> HasEvent(w))
    BY <2>1, <2>2, <2>3, Published DEF Viewed, HasEvent, tracker
  <2>4. HasEvent(WalletOf[r])' /\ (Viewed(WalletOf[r])' <=> event = "resume")
    BY <2>1, <2>2, Published DEF Viewed, HasEvent
  <2> QED
    BY <1>1, <2>1, <2>2, <2>3, <2>4, Published
<1>2. CASE ~(listening /\ reply # "refused")
  <2>1. channel' = channel
    BY <1>2 DEF Publish
  <2> QED
    BY <1>2, <2>1 DEF TypeOK, Event, Viewed, HasEvent, tracker
<1> QED
  BY <1>1, <1>2

\* The parts that concern one call only, or nothing but the tracker.
LEMMA CallStepKeeps ==
  ASSUME ControlIInv, NEW t \in Call, NEW n \in OpType, n.stage = "idle" => n = Idle,
         op' = [op EXCEPT ![t] = n], rows' \in [Row -> Status], UNCHANGED <<listening, tracker, calls, boots>>,
         channel' \in Seq(Event), ~listening => channel' = channel,
         faults' \in 0..MaxFaults, disturbed \subseteq disturbed', disturbed' \subseteq Wallet,
         Touched(n) \subseteq Touched(op[t]),
         n.unheard \subseteq n.said, n.left \cap n.said = {},
         n.stage = "publish" => n.dirty \subseteq n.left \cup n.said,
         n.stage = "commit" => n.left = {} /\ n.dirty \subseteq n.said,
         n.stage = "undo" => n.left = {} /\ n.to = "off",
         n.undoes => n.to = "off"
  PROVE  TypeOK' /\ CallInv' /\ TrackerInv' /\ Alone'
<1> USE DEF ControlIInv
<1>1. /\ op' \in [Call -> OpType]
      /\ op'[t] = n /\ \A u \in Call \ {t} : op'[u] = op[u]
      /\ \A u \in Call : op'[u].stage = "idle" => op'[u] = Idle
  BY OneCall
<1>2. TypeOK'
  BY <1>1 DEF TypeOK, tracker, Started, Event
<1>3. CallInv'
  BY <1>1 DEF CallInv
<1>4. TrackerInv'
  BY DEF TrackerInv, tracker, Started
<1>5. Alone'
  <2>1. \A u \in Call : Touched(op'[u]) \subseteq Touched(op[u])
    BY <1>1
  <2> QED
    BY <2>1, AloneKeeps
<1> QED
  BY <1>2, <1>3, <1>4, <1>5

\* The tracker's view after a call was told something: it is the only call that
\* concerns the wallet.
LEMMA ToldAlone ==
  ASSUME ControlIInv, NEW t \in Call, NEW r \in Touched(op[t]), WalletOf[r] \notin disturbed,
         \A u \in Call \ {t} : op'[u] = op[u]
  PROVE  \A u \in Call \ {t} :
           /\ ~Told(u, WalletOf[r]) /\ ~Told(u, WalletOf[r])'
           /\ Owed(u, WalletOf[r]) = {} /\ Owed(u, WalletOf[r])' = {}
<1> SUFFICES ASSUME NEW u \in Call \ {t}
             PROVE  /\ ~Told(u, WalletOf[r]) /\ ~Told(u, WalletOf[r])'
                    /\ Owed(u, WalletOf[r]) = {} /\ Owed(u, WalletOf[r])' = {}
  OBVIOUS
<1>1. op[u].unheard \subseteq op[u].said /\ op[u].said \subseteq Touched(op[u])
  BY DEF ControlIInv, CallInv, Touched
<1>2. \A q \in Touched(op[u]) : WalletOf[q] # WalletOf[r]
  BY DEF ControlIInv, Alone
<1> QED
  BY <1>1, <1>2 DEF Told, Owed

\* The event was sent: the tracker will think of the wallet what the call will make
\* of it, and of the others what it thought before.
LEMMA AnnouncedKeeps ==
  ASSUME ControlIInv, NEW t \in Call, NEW r \in Row, op[t].stage = "publish", r \in op[t].left,
         Reply("ok"), Publish(r, EventOf(op[t]), "ok"),
         op' = [op EXCEPT ![t] =
                  [op[t] EXCEPT !.stage = IF op[t].left = {r} THEN "commit" ELSE "publish",
                                !.left = @ \ {r}, !.said = @ \cup {r}]],
         disturbed' = disturbed \cup (IF Disturbs(r, EventOf(op[t])) THEN {WalletOf[r]} ELSE {}),
         UNCHANGED <<rows, listening, tracker, calls, boots>>
  PROVE  ControlIInv'
<1> DEFINE o == op[t]
           n == [o EXCEPT !.stage = IF o.left = {r} THEN "commit" ELSE "publish",
                          !.left = @ \ {r}, !.said = @ \cup {r}]
           w0 == WalletOf[r]
<1> USE DEF ControlIInv
<1>1. o \in OpType /\ o.unheard \subseteq o.said /\ o.left \cap o.said = {}
      /\ o.dirty \subseteq o.left \cup o.said /\ (o.undoes => o.to = "off")
  BY DEF TypeOK, CallInv
<1>2. /\ n \in OpType /\ n.stage = IF o.left = {r} THEN "commit" ELSE "publish"
      /\ n.to = o.to /\ n.left = o.left \ {r} /\ n.said = o.said \cup {r}
      /\ n.unheard = o.unheard /\ n.dirty = o.dirty /\ n.undoes = o.undoes
  BY <1>1 DEF OpType
<1>3. op' = [op EXCEPT ![t] = n] /\ w0 \in Wallet
  BY Constants
<1> HIDE DEF n
<1>4. EventOf(o) \in {"pause", "resume"} /\ (EventOf(o) = "resume" <=> o.to = "on")
  BY DEF EventOf
<1>5. /\ channel' \in Seq(Event)
      /\ ~listening => channel' = channel
      /\ \A w \in Wallet : w # w0 =>
           (Viewed(w)' <=> Viewed(w)) /\ (HasEvent(w)' <=> HasEvent(w))
      /\ listening => HasEvent(w0)' /\ (Viewed(w0)' <=> EventOf(o) = "resume")
  BY <1>4, PublishIs
<1>6. /\ op' \in [Call -> OpType]
      /\ op'[t] = n /\ \A u \in Call \ {t} : op'[u] = op[u]
  BY <1>2, <1>3, OneCall
<1>7. faults' \in 0..MaxFaults
  BY ReplyCounts DEF Replies
<1>8. Touched(n) \subseteq Touched(o) /\ r \in Touched(o)
  BY <1>2 DEF Touched
<1>9. TypeOK' /\ CallInv' /\ TrackerInv' /\ Alone'
  <2>1. rows' \in [Row -> Status] /\ disturbed' \subseteq Wallet
    BY <1>3 DEF TypeOK
  <2>2. /\ n.unheard \subseteq n.said /\ n.left \cap n.said = {}
        /\ n.dirty \subseteq n.left \cup n.said
        /\ n.stage = "commit" => n.left = {} /\ n.dirty \subseteq n.said
        /\ n.stage # "undo" /\ n.stage # "idle"
        /\ n.undoes => n.to = "off"
    <3>1. n.stage \in {"publish", "commit"} /\ (n.stage = "commit" => n.left = {})
      BY <1>2
    <3> QED
      BY <1>1, <1>2, <3>1
  <2>3. disturbed \subseteq disturbed'
    OBVIOUS
  <2> QED
    BY <1>2, <1>3, <1>5, <1>7, <1>8, <2>1, <2>2, <2>3, CallStepKeeps
<1>10. Stable'
  <2> SUFFICES ASSUME NEW u \in Call, NEW q \in Touched(op'[u]), WalletOf[q] \notin disturbed'
               PROVE  StableRow(op[u], q)'
    BY DEF Stable
  <2>1. q \in Touched(op[u]) /\ StableRow(op[u], q)
    BY <1>6, <1>8 DEF Stable
  <2>2. CASE u = t /\ q = r
    <3>1. o.to # "on" => \A p \in Row \ {r} : WalletOf[p] = WalletOf[r] => rows[p] # "on"
      BY <2>2 DEF Disturbs, EventOf
    <3> QED
      BY <1>2, <1>6, <2>1, <2>2, <3>1 DEF StableRow
  <2>3. CASE u # t \/ q # r
    BY <1>2, <1>6, <2>1, <2>3 DEF StableRow
  <2> QED
    BY <2>2, <2>3
<1>11. Followed'
  <2> SUFFICES ASSUME Started', NEW w \in Wallet \ disturbed' PROVE FollowedBy(w)'
    BY DEF Followed
  <2>1. Started /\ phase' = phase /\ w \in Wallet \ disturbed /\ FollowedBy(w)
    BY DEF Started, tracker, Followed
  <2>2. CASE w # w0
    <3>1. SameFor(t, w)
      BY <1>2, <1>6, <2>2 DEF SameFor, Told, Owed
    <3>2. \A u \in Call : SameFor(u, w)
      BY <1>6, <3>1, SameCall
    <3> QED
      BY <1>5, <2>1, <2>2, <3>2, FollowKeeps
  <2>3. CASE w = w0
    <3>1. listening
      BY <2>1, <2>3 DEF Disturbs
    <3>2. Told(t, w)'
      BY <1>1, <1>2, <1>6, <2>3 DEF Told
    <3>3. \A u \in Call \ {t} : ~Told(u, w)' /\ Owed(u, w)' = {}
      BY <1>6, <1>8, <2>1, <2>3, ToldAlone
    <3>4. HasEvent(w)' /\ (Viewed(w)' <=> op'[t].to = "on")
      BY <1>2, <1>4, <1>5, <1>6, <2>3, <3>1
    <3>5. Owed(t, w)' \cap Seen' = {}
      <4>1. Owed(t, w)' = Owed(t, w) /\ Seen' = Seen
        BY <1>2, <1>6, <2>1 DEF Owed, Seen
      <4> QED
        BY <2>1, <4>1 DEF FollowedBy
    <3> QED
      BY <3>2, <3>3, <3>4, <3>5 DEF FollowedBy
  <2> QED
    BY <2>2, <2>3
<1> QED
  BY <1>9, <1>10, <1>11

\* The event was not sent, or it is not known: what was announced is not committed,
\* so what stands announced must be what the row is.
LEMMA AnnounceFailsKeeps ==
  ASSUME ControlIInv, NEW t \in Call, NEW r \in Row, op[t].stage = "publish", r \in op[t].left,
         NEW reply \in {"refused", "lost"}, Reply(reply), Publish(r, EventOf(op[t]), reply),
         NEW n, n = IF op[t].undoes /\ op[t].said # {}
                    THEN [op[t] EXCEPT !.stage = "undo", !.left = {}] ELSE Idle,
         op' = [op EXCEPT ![t] = n],
         disturbed \subseteq disturbed', disturbed' \subseteq Wallet,
         reply = "lost" /\ (Disturbs(r, EventOf(op[t])) \/ r \in op[t].dirty)
            => WalletOf[r] \in disturbed',
         n = Idle => \A q \in op[t].said \cap op[t].dirty : WalletOf[q] \in disturbed',
         UNCHANGED <<rows, listening, tracker, calls, boots>>
  PROVE  ControlIInv'
<1> DEFINE o == op[t]
           w0 == WalletOf[r]
<1> USE DEF ControlIInv
<1>1. o \in OpType /\ o.unheard \subseteq o.said /\ o.left \cap o.said = {}
      /\ o.dirty \subseteq o.left \cup o.said /\ (o.undoes => o.to = "off")
  BY DEF TypeOK, CallInv
<1>2. \/ n = Idle
      \/ /\ n \in OpType /\ n.stage = "undo" /\ n.to = o.to /\ n.left = {} /\ n.said = o.said
         /\ n.unheard = o.unheard /\ n.dirty = o.dirty /\ o.to = "off"
  BY <1>1 DEF OpType
<1>3. n \in OpType /\ w0 \in Wallet /\ (n.stage = "idle" => n = Idle)
  BY <1>2, IdleIs, Constants
<1>4. EventOf(o) \in {"pause", "resume"} /\ (EventOf(o) = "resume" <=> o.to = "on")
  BY DEF EventOf
<1>5. /\ channel' \in Seq(Event)
      /\ ~listening \/ reply = "refused" => channel' = channel
      /\ \A w \in Wallet : w # w0 =>
           (Viewed(w)' <=> Viewed(w)) /\ (HasEvent(w)' <=> HasEvent(w))
      /\ listening /\ reply # "refused" =>
           HasEvent(w0)' /\ (Viewed(w0)' <=> EventOf(o) = "resume")
  BY <1>4, PublishIs
<1>6. /\ op' \in [Call -> OpType]
      /\ op'[t] = n /\ \A u \in Call \ {t} : op'[u] = op[u]
  BY <1>3, OneCall
<1>7. faults' \in 0..MaxFaults
  BY ReplyCounts DEF Replies
<1>8. Touched(n) \subseteq Touched(o) /\ r \in Touched(o)
  BY <1>2, IdleIs DEF Touched
<1>9. TypeOK' /\ CallInv' /\ TrackerInv' /\ Alone'
  <2>1. rows' \in [Row -> Status]
    BY DEF TypeOK
  <2>2. /\ n.unheard \subseteq n.said /\ n.left = {}
        /\ n.stage \in {"idle", "undo"} /\ (n.stage = "undo" => n.to = "off")
        /\ n.undoes => n.to = "off"
    BY <1>1, <1>2, IdleIs
  <2> QED
    BY <1>3, <1>5, <1>7, <1>8, <2>1, <2>2, CallStepKeeps
<1>10. Stable'
  BY <1>2, <1>6, <1>8, IdleIs, StableKeeps
<1>11. Followed'
  <2> SUFFICES ASSUME Started', NEW w \in Wallet \ disturbed' PROVE FollowedBy(w)'
    BY DEF Followed
  <2>1. Started /\ phase' = phase /\ w \in Wallet \ disturbed /\ FollowedBy(w)
    BY DEF Started, tracker, Followed
  <2>2. CASE w # w0 \/ reply = "refused"
    <3>1. (Viewed(w)' <=> Viewed(w)) /\ (HasEvent(w)' <=> HasEvent(w))
      <4>1. CASE w # w0
        BY <1>5, <4>1
      <4>2. CASE reply = "refused"
        BY <1>5, <4>2, SameView
      <4> QED
        BY <2>2, <4>1, <4>2
    <3>2. CASE n = Idle
      <4>1. EndsFor(t, w)
        BY <1>6, <3>2 DEF EndsFor
      <4> QED
        BY <1>6, <2>1, <3>1, <4>1, SameCall, FollowKeeps
    <3>3. CASE n # Idle
      <4>1. SameFor(t, w)
        BY <1>2, <1>6, <3>3 DEF SameFor, Told, Owed
      <4> QED
        BY <1>6, <2>1, <3>1, <4>1, SameCall, FollowKeeps
    <3> QED
      BY <3>2, <3>3
  <2>3. CASE w = w0 /\ reply = "lost"
    <3>1. listening /\ r \notin o.dirty /\ ~Disturbs(r, EventOf(o))
      BY <2>1, <2>3 DEF Disturbs
    <3>2. rows[r] = o.to
      BY <1>8, <2>1, <2>3, <3>1 DEF Stable, StableRow
    <3>3. w \in ActiveWallets(Row)' <=> o.to = "on"
      <4>1. CASE o.to = "on"
        BY <2>3, <3>2, <4>1, ActiveIs
      <4>2. CASE o.to # "on"
        BY <2>3, <3>1, <3>2, <4>2, ActiveIs DEF Disturbs, EventOf
      <4> QED
        BY <4>1, <4>2
    <3>4. HasEvent(w)' /\ (Viewed(w)' <=> o.to = "on")
      BY <1>4, <1>5, <2>3, <3>1
    <3>5. \A u \in Call \ {t} : ~Told(u, w)' /\ Owed(u, w)' = {}
      BY <1>6, <1>8, <2>1, <2>3, ToldAlone
    <3>6. Told(t, w)' => op'[t].to = o.to
      BY <1>2, <1>6, IdleIs DEF Told
    <3>7. Owed(t, w)' = {}
      <4>1. CASE n = Idle
        BY <1>6, <4>1, IdleIs DEF Owed
      <4>2. CASE n # Idle
        <5> SUFFICES ASSUME NEW q \in o.unheard \cap o.dirty, WalletOf[q] = w PROVE FALSE
          BY <1>2, <1>6, <4>2 DEF Owed
        <5>1. q \in Touched(o) /\ o.to = "off" /\ q # r /\ q \in Row
          BY <1>1, <1>2, <3>1, <4>2 DEF Touched, OpType
        <5>2. rows[q] = "on"
          BY <2>1, <5>1 DEF Stable, StableRow
        <5> QED
          BY <2>3, <3>1, <5>1, <5>2 DEF Disturbs, EventOf
      <4> QED
        BY <4>1, <4>2
    <3>8. w \in ActiveWallets(Known(w))' <=> o.to = "on"
      BY <3>3, <3>4, KnownIs
    <3> QED
      BY <3>4, <3>5, <3>6, <3>7, <3>8 DEF FollowedBy
  <2> QED
    BY <2>2, <2>3
<1> QED
  BY <1>9, <1>10, <1>11

LEMMA AnnounceKeeps ==
  ASSUME ControlIInv, NEW t \in Call, NEW r \in Row, Announce(t, r) PROVE ControlIInv'
<1> DEFINE o == op[t]
           w0 == WalletOf[r]
           done == [o EXCEPT !.stage = IF o.left = {r} THEN "commit" ELSE "publish",
                             !.left = @ \ {r}, !.said = @ \cup {r}]
           failed == IF o.undoes /\ o.said # {}
                     THEN [o EXCEPT !.stage = "undo", !.left = {}] ELSE Idle
           broken(reply) == (IF failed = Idle THEN o.said ELSE {})
                            \cup (IF reply = "lost" THEN {r} ELSE {})
<1>1. PICK reply \in Replies :
        /\ Reply(reply) /\ Publish(r, EventOf(o), reply)
        /\ op' = [op EXCEPT ![t] = IF reply = "ok" THEN done ELSE failed]
        /\ disturbed' = disturbed \cup
             (IF reply # "refused" /\ Disturbs(r, EventOf(o)) THEN {w0} ELSE {})
             \cup (IF reply = "ok" THEN {} ELSE Wallets(broken(reply) \cap o.dirty))
  BY DEF Announce
<1>2. /\ o.stage = "publish" /\ r \in o.left
      /\ UNCHANGED <<rows, listening, tracker, calls, boots>>
  BY DEF Announce
<1>3. CASE reply = "ok"
  BY <1>1, <1>2, <1>3, AnnouncedKeeps
<1>4. CASE reply # "ok"
  <2> DEFINE n == failed
  <2>1. reply \in {"refused", "lost"}
    BY <1>4 DEF Replies
  <2>2. op' = [op EXCEPT ![t] = n] /\ o \in OpType /\ disturbed \subseteq Wallet /\ w0 \in Wallet
    BY <1>1, <1>4, Constants DEF ControlIInv, TypeOK
  <2>3. broken(reply) \cap o.dirty \subseteq Row
    BY <2>2 DEF OpType
  <2>4. disturbed' = disturbed \cup (IF reply # "refused" /\ Disturbs(r, EventOf(o)) THEN {w0} ELSE {})
                               \cup Wallets(broken(reply) \cap o.dirty)
    BY <1>1, <1>4
  <2>5. disturbed \subseteq disturbed' /\ disturbed' \subseteq Wallet
    BY <2>2, <2>3, <2>4, WalletsIn
  <2>6. reply = "lost" /\ (Disturbs(r, EventOf(o)) \/ r \in o.dirty) => w0 \in disturbed'
    BY <2>4 DEF Wallets
  <2>7. n = Idle => \A q \in o.said \cap o.dirty : WalletOf[q] \in disturbed'
    BY <2>4 DEF Wallets
  <2>8. n = IF o.undoes /\ o.said # {} THEN [o EXCEPT !.stage = "undo", !.left = {}] ELSE Idle
    OBVIOUS
  <2>9. Reply(reply) /\ Publish(r, EventOf(o), reply)
    BY <1>1
  <2> HIDE DEF n, failed, done, broken
  <2> QED
    BY <1>2, <2>1, <2>2, <2>5, <2>6, <2>7, <2>8, <2>9, AnnounceFailsKeeps
<1> QED
  BY <1>3, <1>4

\* A RESUME takes the pause back: the row it is for was active before, and no other
\* row of the wallet can have been paused by this call.
LEMMA UndoKeeps ==
  ASSUME ControlIInv, NEW t \in Call, NEW r \in Row, Undo(t, r) PROVE ControlIInv'
<1> DEFINE o == op[t]
           w0 == WalletOf[r]
           less == [o EXCEPT !.said = @ \ {r}, !.unheard = @ \ {r}]
<1> USE DEF ControlIInv
<1>1. PICK reply \in Replies :
        /\ Reply(reply) /\ Publish(r, "resume", reply)
        /\ op' = [op EXCEPT ![t] = IF reply # "ok" \/ o.said = {r} THEN Idle ELSE less]
        /\ disturbed' = disturbed \cup
             (IF Disturbs(r, "resume") \/ r \notin o.dirty THEN {w0} ELSE {})
             \cup (IF reply = "ok" THEN {}
                   ELSE Wallets((o.said \ (IF reply = "lost" THEN {r} ELSE {})) \cap o.dirty))
  BY DEF Undo
<1>2. /\ o.stage = "undo" /\ r \in o.said
      /\ UNCHANGED <<rows, listening, tracker, calls, boots>>
  BY DEF Undo
<1>3. o \in OpType /\ o.unheard \subseteq o.said /\ o.left = {} /\ o.to = "off"
  BY <1>2 DEF TypeOK, CallInv
<1> DEFINE n == IF reply # "ok" \/ o.said = {r} THEN Idle ELSE less
<1>4. /\ less \in OpType /\ less.stage = "undo" /\ less.to = "off" /\ less.left = {}
      /\ less.said = o.said \ {r} /\ less.unheard = o.unheard \ {r} /\ less.dirty = o.dirty
  BY <1>2, <1>3 DEF OpType
<1>5. op' = [op EXCEPT ![t] = n] /\ w0 \in Wallet /\ (n = Idle \/ (n = less /\ reply = "ok"))
  BY <1>1, Constants
<1>6. reply # "ok" => n = Idle
  OBVIOUS
<1>7. n = Idle /\ reply = "ok" => o.said = {r}
  BY <1>4, IdleIs
<1> HIDE DEF n, less
<1>8. n \in OpType /\ (n.stage = "idle" => n = Idle)
  BY <1>4, <1>5, IdleIs
<1>9. /\ channel' \in Seq(Event)
      /\ ~listening \/ reply = "refused" => channel' = channel
      /\ \A w \in Wallet : w # w0 =>
           (Viewed(w)' <=> Viewed(w)) /\ (HasEvent(w)' <=> HasEvent(w))
      /\ listening /\ reply # "refused" => HasEvent(w0)' /\ Viewed(w0)'
  BY <1>1, <1>2, PublishIs
<1>10. /\ op' \in [Call -> OpType]
       /\ op'[t] = n /\ \A u \in Call \ {t} : op'[u] = op[u]
  BY <1>5, <1>8, OneCall
<1>11. faults' \in 0..MaxFaults
  BY <1>1, ReplyCounts
<1>12. Touched(n) \subseteq Touched(o) /\ r \in Touched(o)
  BY <1>2, <1>3, <1>4, <1>5, IdleIs DEF Touched
<1>13. /\ disturbed \subseteq disturbed' /\ disturbed' \subseteq Wallet
       /\ w0 \in disturbed' \/ (~Disturbs(r, "resume") /\ r \in o.dirty /\ reply # "refused")
       /\ reply # "ok" => \A q \in (o.said \ {r}) \cap o.dirty : WalletOf[q] \in disturbed'
  <2>1. disturbed' \subseteq Wallet
    <3>1. (o.said \ (IF reply = "lost" THEN {r} ELSE {})) \cap o.dirty \subseteq Row
      BY <1>3 DEF OpType
    <3> QED
      BY <1>1, <1>5, <3>1, WalletsIn DEF TypeOK
  <2>2. w0 \in disturbed' \/ (~Disturbs(r, "resume") /\ r \in o.dirty /\ reply # "refused")
    BY <1>1, <1>2 DEF Wallets
  <2>3. reply # "ok" => \A q \in (o.said \ {r}) \cap o.dirty : WalletOf[q] \in disturbed'
    BY <1>1 DEF Wallets
  <2> QED
    BY <1>1, <2>1, <2>2, <2>3
<1>14. TypeOK' /\ CallInv' /\ TrackerInv' /\ Alone'
  <2>1. rows' \in [Row -> Status]
    BY <1>2 DEF TypeOK
  <2>2. /\ n.unheard \subseteq n.said /\ n.left = {}
        /\ n.stage \in {"idle", "undo"} /\ (n.stage = "undo" => n.to = "off")
        /\ n.undoes => n.to = "off"
    BY <1>3, <1>4, <1>5, IdleIs
  <2> QED
    BY <1>2, <1>5, <1>8, <1>9, <1>11, <1>12, <1>13, <2>1, <2>2, CallStepKeeps
<1>15. Stable'
  <2>1. Touched(n) = {} \/ (n.to = o.to /\ n.dirty = o.dirty /\ n.said \subseteq o.said)
    BY <1>3, <1>4, <1>5, IdleIs
  <2> QED
    BY <1>2, <1>10, <1>12, <1>13, <2>1, StableKeeps
<1>16. Followed'
  <2> SUFFICES ASSUME Started', NEW w \in Wallet \ disturbed' PROVE FollowedBy(w)'
    BY DEF Followed
  <2>1. Started /\ phase' = phase /\ w \in Wallet \ disturbed /\ FollowedBy(w)
    BY <1>2, <1>13 DEF Started, tracker, Followed
  <2>2. CASE w # w0
    <3>1. CASE n = Idle
      <4>1. EndsFor(t, w)
        BY <1>7, <1>10, <1>13, <2>2, <3>1 DEF EndsFor
      <4> QED
        BY <1>2, <1>9, <1>10, <2>1, <2>2, <4>1, SameCall, FollowKeeps
    <3>2. CASE n = less
      <4>1. SameFor(t, w)
        BY <1>3, <1>4, <1>10, <2>2, <3>2 DEF SameFor, Told, Owed
      <4> QED
        BY <1>2, <1>9, <1>10, <2>1, <2>2, <4>1, SameCall, FollowKeeps
    <3> QED
      BY <1>5, <3>1, <3>2
  <2>3. CASE w = w0
    <3>1. listening /\ r \in o.dirty /\ reply # "refused"
      BY <1>13, <2>1, <2>3 DEF Disturbs
    <3>2. rows[r] = "on"
      BY <1>3, <1>12, <2>1, <2>3, <3>1 DEF Stable, StableRow
    <3>3. \A q \in o.said \ {r} : WalletOf[q] # w
      <4> SUFFICES ASSUME NEW q \in o.said \ {r}, WalletOf[q] = w PROVE FALSE
        OBVIOUS
      <4>1. StableRow(o, q)
        BY <2>1 DEF Stable, Touched
      <4> QED
        BY <1>3, <2>3, <3>2, <4>1 DEF StableRow
    <3>4. ~Told(t, w)' /\ Owed(t, w)' = {}
      BY <1>3, <1>4, <1>5, <1>10, <3>3, IdleIs DEF Told, Owed
    <3>5. \A u \in Call \ {t} : ~Told(u, w)' /\ Owed(u, w)' = {}
      BY <1>10, <1>12, <2>1, <2>3, ToldAlone
    <3>6. HasEvent(w)' /\ Viewed(w)'
      BY <1>9, <2>3, <3>1
    <3>7. w \in ActiveWallets(Known(w))'
      <4>1. w \in ActiveWallets(Row)'
        BY <1>2, <2>3, <3>2, ActiveIs
      <4> QED
        BY <3>6, <4>1, KnownIs
    <3> QED
      BY <3>4, <3>5, <3>6, <3>7 DEF FollowedBy
  <2> QED
    BY <2>2, <2>3
<1> QED
  BY <1>14, <1>15, <1>16

\* Calls end without a change.
LEMMA EndKeeps ==
  ASSUME ControlIInv, UNCHANGED <<rows, channel, listening, tracker, calls, boots>>,
         faults' \in 0..MaxFaults,
         op' \in [Call -> OpType], \A t \in Call : op'[t] = op[t] \/ op'[t] = Idle,
         disturbed \subseteq disturbed', disturbed' \subseteq Wallet,
         \A t \in Call : op'[t] # op[t] =>
           \A r \in op[t].said \cap op[t].dirty : WalletOf[r] \in disturbed'
  PROVE  ControlIInv'
<1> USE DEF ControlIInv
<1>1. TypeOK'
  BY DEF TypeOK, tracker, Started
<1>2. CallInv'
  BY IdleIs DEF CallInv
<1>3. TrackerInv'
  BY DEF TrackerInv, tracker, Started
<1>4. Alone'
  BY IdleIs, AloneKeeps
<1>5. Stable'
  BY IdleIs, StableKeeps
<1>6. Followed'
  <2> SUFFICES ASSUME Started', NEW w \in Wallet \ disturbed' PROVE FollowedBy(w)'
    BY DEF Followed
  <2>1. /\ Viewed(w)' <=> Viewed(w)
        /\ HasEvent(w)' <=> HasEvent(w)
        /\ Started' <=> Started
        /\ phase' = phase
    BY SameView
  <2>2. FollowedBy(w) /\ w \in Wallet \ disturbed
    BY <2>1 DEF Followed
  <2>3. \A t \in Call : SameFor(t, w) \/ EndsFor(t, w)
    BY SameCall DEF EndsFor
  <2> QED
    BY <2>1, <2>2, <2>3, FollowKeeps
<1> QED
  BY <1>1, <1>2, <1>3, <1>4, <1>5, <1>6

LEMMA BotCrashKeeps == ASSUME ControlIInv, BotCrash PROVE ControlIInv'
<1> USE DEF ControlIInv, BotCrash
<1>1. \A t \in Call : op[t].said \cap op[t].dirty \subseteq Row
  BY DEF TypeOK, OpType
<1>2. disturbed' \subseteq Wallet
  BY <1>1, WalletsIn DEF TypeOK
<1>3. \A t \in Call : \A r \in op[t].said \cap op[t].dirty : WalletOf[r] \in disturbed'
  BY DEF Wallets
<1>4. op' \in [Call -> OpType] /\ (\A t \in Call : op'[t] = Idle) /\ faults' \in 0..MaxFaults
  BY IdleIs DEF TypeOK
<1> QED
  BY <1>2, <1>3, <1>4, EndKeeps

\* The rows are as announced, for the wallets that one call alone concerns.
LEMMA CommittedKeeps ==
  ASSUME ControlIInv, NEW t \in Call, op[t].stage = "commit",
         op' = [op EXCEPT ![t] = Idle], faults' \in 0..MaxFaults,
         rows' = [r \in Row |-> IF r \in op[t].dirty THEN op[t].to ELSE rows[r]],
         UNCHANGED <<channel, listening, tracker, disturbed, calls, boots>>
  PROVE  ControlIInv'
<1> DEFINE o == op[t]
<1> USE DEF ControlIInv
<1>1. o \in OpType /\ o.dirty \subseteq o.said /\ o.said \subseteq Touched(o) /\ o.said \subseteq Row
      /\ o.unheard \subseteq o.said
  BY DEF TypeOK, CallInv, Touched, OpType
<1>2. /\ op' \in [Call -> OpType]
      /\ op'[t] = Idle /\ \A u \in Call \ {t} : op'[u] = op[u]
  BY IdleIs, OneCall
<1>3. /\ rows' \in [Row -> Status]
      /\ \A r \in Row : rows'[r] = IF r \in o.dirty THEN o.to ELSE rows[r]
  BY <1>1 DEF TypeOK, OpType
<1>4. TypeOK' /\ CallInv' /\ TrackerInv' /\ Alone'
  BY <1>3, IdleIs, CallStepKeeps DEF TypeOK, Event
<1>5. Stable'
  <2> SUFFICES ASSUME NEW u \in Call, NEW r \in Touched(op'[u]), WalletOf[r] \notin disturbed'
               PROVE  StableRow(op[u], r)'
    BY DEF Stable
  <2>1. u # t /\ op'[u] = op[u]
    BY <1>2, IdleIs
  <2>2. r \in Row
    BY <2>1, TouchedIn DEF TypeOK
  <2>3. \A q \in Row : WalletOf[q] = WalletOf[r] => rows'[q] = rows[q]
    BY <1>1, <1>3, <2>1 DEF Alone
  <2>4. StableRow(op[u], r)
    BY <2>1 DEF Stable
  <2> QED
    BY <2>1, <2>2, <2>3, <2>4 DEF StableRow
<1>6. Followed'
  <2> SUFFICES ASSUME Started', NEW w \in Wallet \ disturbed' PROVE FollowedBy(w)'
    BY DEF Followed
  <2>1. /\ Viewed(w)' <=> Viewed(w)
        /\ HasEvent(w)' <=> HasEvent(w)
        /\ Started' <=> Started
        /\ phase' = phase
    BY SameView
  <2>2. FollowedBy(w) /\ w \in Wallet \ disturbed
    BY <2>1 DEF Followed
  <2>3. CASE \A q \in o.dirty : WalletOf[q] # w
    <3>1. \A r \in Row : WalletOf[r] = w => rows'[r] = rows[r]
      BY <1>3, <2>3
    <3>2. EndsFor(t, w)
      BY <1>2, <2>3 DEF EndsFor
    <3> QED
      BY <1>2, <2>1, <2>2, <3>1, <3>2, SameCall, FollowKeeps
  <2>4. CASE \E q \in o.dirty : WalletOf[q] = w
    <3>1. PICK q \in o.dirty : WalletOf[q] = w
      BY <2>4
    <3>2. q \in o.said /\ q \in Touched(o) /\ q \in Row
      BY <1>1
    <3>3. \A u \in Call \ {t} : /\ ~Told(u, w) /\ ~Told(u, w)'
                                /\ Owed(u, w) = {} /\ Owed(u, w)' = {}
      BY <1>2, <2>2, <3>1, <3>2, ToldAlone
    <3>4. ~Told(t, w)' /\ Owed(t, w)' = {}
      BY <1>2, IdleIs DEF Told, Owed
    <3>5. Viewed(w) <=> w \in ActiveWallets(Known(w))'
      <4>1. CASE Told(t, w)
        <5>1. (HasEvent(w) \/ phase = "loop") /\ (Viewed(w) <=> o.to = "on")
          BY <2>2, <4>1 DEF FollowedBy
        <5>2. w \in ActiveWallets(Row)' <=> o.to = "on"
          <6>1. rows'[q] = o.to
            BY <1>3, <3>1, <3>2
          <6>2. o.to # "on" => \A p \in Row \ {q} : WalletOf[p] = w => rows[p] # "on"
            BY <2>2, <3>1, <3>2 DEF Stable, StableRow
          <6> QED
            BY <1>3, <3>1, <3>2, <6>1, <6>2, ActiveIs
        <5>3. Known(w)' = Row
          BY <2>1, <5>1 DEF Known, Seen
        <5> QED
          BY <5>1, <5>2, <5>3 DEF Known
      <4>2. CASE ~Told(t, w)
        <5>1. q \in Owed(t, w)
          BY <3>1, <3>2, <4>2 DEF Told, Owed
        <5>2. ~HasEvent(w) /\ Owed(t, w) \cap Seen = {}
          BY <2>2, <4>2, <5>1 DEF FollowedBy
        <5>3. \A r \in Seen : WalletOf[r] = w => rows'[r] = rows[r]
          BY <1>1, <1>3, <4>2, <5>2, SeenRows DEF Told, Owed
        <5>4. w \in ActiveWallets(Seen)' <=> w \in ActiveWallets(Seen)
          <6>1. Seen' = Seen
            BY <2>1 DEF Seen
          <6>2. w \in ActiveWallets(Seen) <=> \E r \in Seen : rows[r] = "on" /\ WalletOf[r] = w
            BY DEF ActiveWallets, Wallets
          <6>3. w \in ActiveWallets(Seen)' <=> \E r \in Seen : rows'[r] = "on" /\ WalletOf[r] = w
            BY <6>1 DEF ActiveWallets, Wallets
          <6> QED
            BY <5>3, <6>2, <6>3
        <5>5. Viewed(w) <=> w \in ActiveWallets(Known(w))
          BY <2>2, <3>3, <4>2 DEF FollowedBy
        <5> QED
          BY <2>1, <5>2, <5>4, <5>5, KnownIs
      <4> QED
        BY <4>1, <4>2
    <3> QED
      BY <2>1, <3>3, <3>4, <3>5 DEF FollowedBy
  <2> QED
    BY <2>3, <2>4
<1> QED
  BY <1>4, <1>5, <1>6

LEMMA CommitKeeps == ASSUME ControlIInv, NEW t \in Call, Commit(t) PROVE ControlIInv'
<1> DEFINE o == op[t]
           vanished == o.to # "gone" /\ \E r \in o.dirty : rows[r] = "gone"
<1>1. PICK reply \in Replies :
        /\ Reply(reply)
        /\ IF reply = "refused" \/ vanished
           THEN UNCHANGED rows /\ disturbed' = disturbed \cup Wallets(o.said \cap o.dirty)
           ELSE /\ rows' = [r \in Row |-> IF r \in o.dirty THEN o.to ELSE rows[r]]
                /\ UNCHANGED disturbed
  BY DEF Commit
<1>2. /\ o.stage = "commit" /\ op' = [op EXCEPT ![t] = Idle]
      /\ UNCHANGED <<channel, listening, tracker, calls, boots>>
  BY DEF Commit
<1>3. faults' \in 0..MaxFaults
  BY <1>1, ReplyCounts DEF ControlIInv
<1>4. CASE reply = "refused" \/ vanished
  <2>1. UNCHANGED rows /\ disturbed' = disturbed \cup Wallets(o.said \cap o.dirty)
    BY <1>1, <1>4
  <2>2. o.said \cap o.dirty \subseteq Row /\ disturbed \subseteq Wallet /\ op \in [Call -> OpType]
    BY DEF ControlIInv, TypeOK, OpType
  <2>3. disturbed' \subseteq Wallet
    BY <2>1, <2>2, WalletsIn
  <2>4. \A r \in o.said \cap o.dirty : WalletOf[r] \in disturbed'
    BY <2>1 DEF Wallets
  <2>5. op' \in [Call -> OpType] /\ op'[t] = Idle /\ \A u \in Call \ {t} : op'[u] = op[u]
    BY <1>2, <2>2, IdleIs
  <2> QED
    BY <1>2, <1>3, <2>1, <2>3, <2>4, <2>5, EndKeeps
<1>5. CASE ~(reply = "refused" \/ vanished)
  BY <1>1, <1>2, <1>3, <1>5, CommittedKeeps
<1> QED
  BY <1>4, <1>5

-----------------------------------------------------------------------------
(***************************************************************************)
(* The invariant is kept: the wallet tracker                               *)
(***************************************************************************)
\* While the calls and the rows stay as they are.
LEMMA CallsKeep ==
  ASSUME ControlIInv, UNCHANGED database, disturbed \subseteq disturbed'
  PROVE  CallInv' /\ Alone' /\ Stable'
<1> USE DEF ControlIInv, database
<1>1. CallInv'
  BY DEF CallInv
<1>2. Alone'
  BY AloneKeeps
<1>3. Stable'
  BY StableKeeps
<1> QED
  BY <1>1, <1>2, <1>3

LEMMA SameCalls ==
  ASSUME UNCHANGED database, NEW w
  PROVE  /\ \A t \in Call : /\ Told(t, w)' <=> Told(t, w)
                            /\ Owed(t, w)' = Owed(t, w)
                            /\ SameFor(t, w)
BY DEF SameFor, Told, Owed, database

LEMMA EmptyIn == <<>> \in Seq([event : {"pause", "resume"}, wallet : Wallet])
OBVIOUS

LEMMA DownKeeps ==
  ASSUME ControlIInv, GoesDown, UNCHANGED <<database, disturbed, calls, boots>>, faults' \in 0..MaxFaults
  PROVE  ControlIInv'
<1>1. CallInv' /\ Alone' /\ Stable'
  BY CallsKeep
<1>2. TypeOK' /\ TrackerInv' /\ Followed'
  BY EmptyIn DEF ControlIInv, GoesDown, database, TypeOK, TrackerInv, Followed, Started
<1> QED
  BY <1>1, <1>2 DEF ControlIInv

LEMMA BootKeeps == ASSUME ControlIInv, Boot \/ Crash PROVE ControlIInv'
<1>1. CASE Boot
  <2>1. CallInv' /\ Alone' /\ Stable'
    BY <1>1, CallsKeep DEF Boot
  <2>2. boots' \in 0..MaxBoots
    BY <1>1, Constants DEF Boot, ControlIInv, TypeOK
  <2>3. TypeOK' /\ TrackerInv' /\ Followed'
    BY <1>1, <2>2 DEF ControlIInv, Boot, database, TypeOK, TrackerInv, Followed, Started
  <2> QED
    BY <2>1, <2>3 DEF ControlIInv
<1>2. CASE Crash
  <2>1. faults' \in 0..MaxFaults
    BY <1>2 DEF Crash, ControlIInv, TypeOK
  <2> QED
    BY <1>2, <2>1, DownKeeps DEF Crash
<1> QED
  BY <1>1, <1>2

\* A new life has heard nothing and read nothing.
LEMMA SubscribeKeeps == ASSUME ControlIInv, Subscribe PROVE ControlIInv'
<1> USE DEF ControlIInv
<1>1. CASE Reply("refused") /\ GoesDown /\ UNCHANGED <<op, disturbed>>
  <2>1. faults' \in 0..MaxFaults
    BY <1>1, ReplyCounts DEF Replies
  <2> QED
    BY <1>1, <2>1, DownKeeps DEF Subscribe, database
<1>2. CASE /\ phase' = "monitors" /\ listening' = TRUE
           /\ op' = [t \in Call |-> [op[t] EXCEPT !.unheard = op[t].said]]
           /\ disturbed' = disturbed \cap UNION {Wallets(Touched(op[t])) : t \in InFlight}
           /\ UNCHANGED <<channel, todo, watched, faults>>
  <2>1. phase = "boot" /\ UNCHANGED <<rows, calls, boots>>
    BY DEF Subscribe
  <2>2. \A t \in Call : op[t] \in OpType
    BY DEF TypeOK
  <2>3. \A t \in Call : /\ op'[t] \in OpType
                        /\ op'[t].stage = op[t].stage /\ op'[t].to = op[t].to
                        /\ op'[t].left = op[t].left /\ op'[t].said = op[t].said
                        /\ op'[t].dirty = op[t].dirty /\ op'[t].undoes = op[t].undoes
                        /\ op'[t].unheard = op[t].said
    BY <1>2, <2>2 DEF OpType
  <2>4. \A t \in Call : op[t] = Idle => op'[t] = Idle
    <3>1. [Idle EXCEPT !.unheard = {}] = Idle
      BY DEF Idle
    <3> QED
      BY <1>2, <3>1, IdleIs
  <2>5. op' \in [Call -> OpType] /\ \A t \in Call : Touched(op'[t]) = Touched(op[t])
    <3>1. op' = [t \in Call |-> op'[t]]
      BY <1>2
    <3> QED
      BY <2>3, <3>1 DEF Touched
  <2>6. todo = {} /\ channel = <<>> /\ watched = {}
    BY <2>1 DEF TypeOK, TrackerInv, Started
  <2>7. TypeOK'
    <3>1. \A t \in Call : op'[t].stage = "idle" => op'[t] = Idle
      BY <2>3, <2>4 DEF TypeOK
    <3>2. disturbed' \subseteq Wallet
      BY <1>2 DEF TypeOK
    <3> QED
      BY <1>2, <2>1, <2>5, <2>6, <3>1, <3>2, EmptyIn DEF TypeOK, Started
  <2>8. CallInv'
    BY <2>3 DEF CallInv
  <2>9. TrackerInv'
    BY <1>2, <2>6 DEF TrackerInv, Started
  <2>10. \A t \in Call : \A r \in Touched(op[t]) : WalletOf[r] \notin disturbed' => WalletOf[r] \notin disturbed
    <3> SUFFICES ASSUME NEW t \in Call, NEW r \in Touched(op[t]), WalletOf[r] \in disturbed
                 PROVE  WalletOf[r] \in disturbed'
      OBVIOUS
    <3>1. t \in InFlight
      BY RestingCalls, IdleIs
    <3> QED
      BY <1>2, <3>1 DEF Wallets
  <2>11. Alone'
    BY <2>5, <2>10 DEF Alone
  <2>12. Stable'
    <3> SUFFICES ASSUME NEW t \in Call, NEW r \in Touched(op'[t]), WalletOf[r] \notin disturbed'
                 PROVE  StableRow(op[t], r)'
      BY DEF Stable
    <3>1. StableRow(op[t], r)
      BY <2>5, <2>10 DEF Stable
    <3> QED
      BY <2>1, <2>3, <3>1 DEF StableRow
  <2>13. Followed'
    <3> SUFFICES ASSUME NEW w \in Wallet PROVE FollowedBy(w)'
      BY DEF Followed
    <3>1. ~HasEvent(w)' /\ ~Viewed(w)'
      BY <1>2, <2>6, OnEmpty DEF HasEvent, Viewed
    <3>2. Seen' = {}
      BY <1>2 DEF Seen
    <3>3. \A t \in Call : ~Told(t, w)'
      BY <2>3 DEF Told
    <3>4. w \notin ActiveWallets(Known(w))'
      <4>1. Known(w)' = {}
        BY <3>1, <3>2 DEF Known
      <4> QED
        BY <4>1 DEF ActiveWallets, Wallets
    <3> QED
      BY <3>1, <3>2, <3>3, <3>4 DEF FollowedBy
  <2> QED
    BY <2>7, <2>8, <2>9, <2>11, <2>12, <2>13
<1> QED
  BY <1>1, <1>2 DEF Subscribe

\* Where the channel and the calls stay and the view of the wallets too.
LEMMA ViewKeeps ==
  ASSUME ControlIInv, UNCHANGED database, phase \in {"copytrades", "fill", "loop"},
         NEW w \in Wallet \ disturbed,
         Viewed(w)' <=> Viewed(w), HasEvent(w)' => HasEvent(w),
         Seen' = Seen, phase = "loop" => phase' = "loop",
         HasEvent(w) => HasEvent(w)' \/ phase' = "loop"
  PROVE  FollowedBy(w)'
<1>1. FollowedBy(w)
  BY DEF ControlIInv, Followed, Started
<1>2. \A t \in Call : (Told(t, w)' <=> Told(t, w)) /\ Owed(t, w)' = Owed(t, w) /\ op'[t] = op[t]
  BY SameCalls DEF database
<1>3. w \in ActiveWallets(Known(w))' <=> w \in ActiveWallets(Known(w))
  <2>1. Known(w)' = Known(w)
    BY DEF Known, Seen
  <2> QED
    BY <2>1 DEF ActiveWallets, Wallets, database
<1> QED
  BY <1>1, <1>2, <1>3 DEF FollowedBy

\* The rows of a table are read: what an earlier announcement will make of them
\* nobody hears, so that its wallets are disturbed.
LEMMA ReadKeeps ==
  ASSUME ControlIInv, NEW S \in SUBSET Row, phase \in {"monitors", "copytrades"},
         phase' = IF phase = "monitors" THEN "copytrades" ELSE "fill",
         S = IF phase = "monitors" THEN Monitors ELSE Row \ Monitors,
         todo' = todo \cup ActiveWallets(S), disturbed' = disturbed \cup Unheard(S),
         UNCHANGED <<database, channel, listening, watched, calls, boots, faults>>
  PROVE  ControlIInv'
<1> USE DEF ControlIInv
<1>1. /\ todo' \subseteq Wallet /\ disturbed' \subseteq Wallet /\ disturbed \subseteq disturbed'
  <2>1. ActiveWallets(S) \subseteq Wallet
    BY Constants DEF ActiveWallets, Wallets
  <2>2. Unheard(S) \subseteq Wallet
    <3>1. \A t \in Call : op[t].unheard \cap op[t].dirty \cap S \subseteq Row
      OBVIOUS
    <3> QED
      BY <3>1, WalletsIn DEF Unheard
  <2> QED
    BY <2>1, <2>2 DEF TypeOK
<1>2. CallInv' /\ Alone' /\ Stable'
  BY <1>1, CallsKeep
<1>3. TypeOK' /\ TrackerInv'
  BY <1>1 DEF TypeOK, TrackerInv, database, Started
<1>4. Followed'
  <2> SUFFICES ASSUME NEW w \in Wallet \ disturbed' PROVE FollowedBy(w)'
    BY DEF Followed
  <2>1. FollowedBy(w)
    BY <1>1 DEF Followed, Started
  <2>2. \A t \in Call : (Told(t, w)' <=> Told(t, w)) /\ Owed(t, w)' = Owed(t, w) /\ op'[t] = op[t]
    BY SameCalls DEF database
  <2>3. /\ HasEvent(w)' <=> HasEvent(w)
        /\ EndsWith(channel, w, "resume")' <=> EndsWith(channel, w, "resume")
    BY DEF HasEvent
  <2>4. Seen' = Seen \cup S /\ Seen \subseteq Row /\ watched = {} /\ watched' = {}
        /\ (phase = "monitors" => todo = {} /\ Seen = {})
    BY Constants DEF Seen, TrackerInv
  <2>5. \A t \in Call : Owed(t, w)' \cap Seen' = {}
    <3> SUFFICES ASSUME NEW t \in Call, NEW r \in Owed(t, w), r \in S PROVE FALSE
      BY <2>1, <2>2, <2>4 DEF FollowedBy
    <3>1. r \in op[t].unheard \cap op[t].dirty \cap S /\ WalletOf[r] = w
      BY DEF Owed
    <3>2. t \in InFlight
      BY <3>1, RestingCalls, IdleIs
    <3>3. w \in Unheard(S)
      BY <3>1, <3>2 DEF Unheard, Wallets
    <3> QED
      BY <3>3
  <2>6. CASE HasEvent(w)
    <3>1. Viewed(w)' <=> Viewed(w)
      BY <2>3, <2>6 DEF Viewed
    <3>2. w \in ActiveWallets(Known(w))' <=> w \in ActiveWallets(Known(w))
      BY <2>3, <2>6 DEF Known, ActiveWallets, Wallets, database
    <3> QED
      BY <2>1, <2>2, <2>3, <2>5, <2>6, <3>1, <3>2 DEF FollowedBy
  <2>7. CASE ~HasEvent(w)
    <3>1. \A t \in Call : ~Told(t, w)
      BY <2>1, <2>7 DEF FollowedBy
    <3>2. Viewed(w) <=> w \in ActiveWallets(Seen)
      BY <2>1, <2>7, <3>1, KnownIs DEF FollowedBy
    <3>3. ~EndsWith(channel, w, "resume")
      BY <2>7, EndsMentions DEF HasEvent
    <3>4. Viewed(w)' <=> w \in todo'
      BY <2>3, <2>4, <2>7, <3>3 DEF Viewed
    <3>5. w \in todo <=> w \in ActiveWallets(Seen)
      BY <2>4, <2>7, <3>2, <3>3 DEF Viewed
    <3>6. w \in ActiveWallets(Known(w))' <=> w \in ActiveWallets(Seen) \/ w \in ActiveWallets(S)
      <4>1. Known(w)' = Seen \cup S
        BY <2>3, <2>4, <2>7 DEF Known
      <4> QED
        BY <4>1 DEF ActiveWallets, Wallets, database
    <3> QED
      BY <2>2, <2>3, <2>5, <2>7, <3>1, <3>4, <3>5, <3>6 DEF FollowedBy
  <2> QED
    BY <2>6, <2>7
<1> QED
  BY <1>2, <1>3, <1>4

LEMMA ReadsKeep == ASSUME ControlIInv, ReadMonitors \/ ReadCopyTrades PROVE ControlIInv'
<1> SUFFICES ASSUME NEW S, NEW from, NEW next, Read(S, from, next),
                    \/ S = Monitors /\ from = "monitors" /\ next = "copytrades"
                    \/ S = Row \ Monitors /\ from = "copytrades" /\ next = "fill"
             PROVE  ControlIInv'
  BY DEF ReadMonitors, ReadCopyTrades
<1>1. CASE Reply("refused") /\ GoesDown /\ UNCHANGED disturbed
  <2>1. faults' \in 0..MaxFaults
    BY <1>1, ReplyCounts DEF Replies, ControlIInv
  <2> QED
    BY <1>1, <2>1, DownKeeps DEF Read
<1>2. CASE /\ todo' = todo \cup ActiveWallets(S) /\ phase' = next
           /\ disturbed' = disturbed \cup Unheard(S)
           /\ UNCHANGED <<channel, listening, watched, faults>>
  <2>1. S \in SUBSET Row /\ phase = from /\ UNCHANGED <<database, calls, boots>>
    BY Constants DEF Read
  <2> QED
    BY <1>2, <2>1, ReadKeeps
<1> QED
  BY <1>1, <1>2 DEF Read

LEMMA FillKeeps ==
  ASSUME ControlIInv, Filled \/ Reconnect \/ \E w \in Wallet : SubscribeWallet(w)
  PROVE  ControlIInv'
<1> USE DEF ControlIInv
<1>1. /\ UNCHANGED <<database, channel, disturbed, calls, boots, faults>>
      /\ phase \in {"fill", "loop"} /\ phase' \in {"fill", "loop"}
      /\ (phase = "loop" => phase' = "loop")
      /\ watched' \cup todo' = watched \cup todo
      /\ TypeOK' /\ TrackerInv'
  <2>1. CASE Filled
    BY <2>1 DEF Filled, TypeOK, TrackerInv, database, Started
  <2>2. CASE Reconnect
    BY <2>2 DEF Reconnect, TypeOK, TrackerInv, database, tracker, Started
  <2>3. ASSUME NEW w \in Wallet, SubscribeWallet(w)
        PROVE  /\ UNCHANGED <<database, channel, disturbed, calls, boots, faults>>
               /\ phase \in {"fill", "loop"} /\ phase' \in {"fill", "loop"}
               /\ (phase = "loop" => phase' = "loop")
               /\ watched' \cup todo' = watched \cup todo
               /\ TypeOK' /\ TrackerInv'
    BY <2>3 DEF SubscribeWallet, TypeOK, TrackerInv, database, Started
  <2> QED
    BY <2>1, <2>2, <2>3
<1>2. CallInv' /\ Alone' /\ Stable'
  BY <1>1, CallsKeep
<1>3. Followed'
  <2> SUFFICES ASSUME NEW w \in Wallet \ disturbed PROVE FollowedBy(w)'
    BY <1>1 DEF Followed
  <2>1. HasEvent(w)' <=> HasEvent(w)
    BY <1>1 DEF HasEvent
  <2>2. Viewed(w)' <=> Viewed(w)
    BY <1>1, <2>1 DEF Viewed
  <2>3. Seen' = Seen
    BY <1>1 DEF Seen
  <2> QED
    BY <1>1, <2>1, <2>2, <2>3, ViewKeeps
<1> QED
  BY <1>1, <1>2, <1>3

\* The handler makes of the wallet what the tracker would think of it.
LEMMA ProcessEventKeeps == ASSUME ControlIInv, ProcessEvent PROVE ControlIInv'
<1> DEFINE m == Head(channel)
<1> USE DEF ControlIInv
<1>1. /\ phase = "loop" /\ channel # <<>> /\ channel' = Tail(channel)
      /\ watched' = IF m.event = "resume" THEN watched \cup {m.wallet} ELSE watched \ {m.wallet}
      /\ UNCHANGED <<database, listening, phase, todo, disturbed, calls, boots, faults>>
  BY DEF ProcessEvent
<1>2. channel \in Seq(Event) /\ todo = {}
  BY <1>1 DEF TypeOK, Event
<1>3. m \in Event /\ channel' \in Seq(Event)
  BY <1>1, <1>2, Taken
<1> HIDE DEF m
<1>4. TypeOK' /\ TrackerInv'
  BY <1>1, <1>3 DEF TypeOK, TrackerInv, Event, database, Started
<1>5. CallInv' /\ Alone' /\ Stable'
  BY <1>1, CallsKeep
<1>6. Followed'
  <2> SUFFICES ASSUME NEW w \in Wallet \ disturbed PROVE FollowedBy(w)'
    BY <1>1 DEF Followed
  <2>1. HasEvent(w) <=> HasEvent(w)' \/ w = m.wallet
    BY <1>1, <1>2, Taken DEF HasEvent, m
  <2>2. Viewed(w)' <=> Viewed(w)
    <3>1. CASE HasEvent(w)' \/ w # m.wallet
      <4>1. EndsWith(channel, w, "resume")' <=> EndsWith(channel, w, "resume")
        BY <1>1, <1>2, <3>1, Taken DEF HasEvent, m
      <4>2. w # m.wallet => (w \in watched' <=> w \in watched)
        BY <1>1
      <4> QED
        BY <1>1, <2>1, <3>1, <4>1, <4>2 DEF Viewed
    <3>2. CASE ~HasEvent(w)' /\ w = m.wallet
      <4>1. EndsWith(channel, w, "resume") <=> m.event = "resume"
        BY <1>1, <1>2, <3>2, Taken DEF HasEvent, m
      <4>2. ~EndsWith(channel, w, "resume")'
        BY <3>2, EndsMentions DEF HasEvent
      <4>3. w \in watched' <=> m.event = "resume"
        BY <1>1, <3>2
      <4> QED
        BY <1>1, <1>2, <2>1, <3>2, <4>1, <4>2, <4>3 DEF Viewed
    <3> QED
      BY <3>1, <3>2
  <2>3. Seen' = Seen
    BY <1>1 DEF Seen
  <2> QED
    BY <1>1, <2>1, <2>2, <2>3, ViewKeeps
<1> QED
  BY <1>4, <1>5, <1>6

LEMMA DisconnectKeeps == ASSUME ControlIInv, Disconnect PROVE ControlIInv'
<1> USE DEF ControlIInv
<1>1. /\ listening /\ listening' = FALSE /\ channel' = <<>>
      /\ disturbed' = disturbed \cup {channel[i].wallet : i \in DOMAIN channel}
      /\ UNCHANGED <<database, tracker, calls, boots>>
  BY DEF Disconnect
<1>2. faults' \in 0..MaxFaults
  BY ReplyCounts DEF Disconnect, Replies
<1>3. disturbed' \subseteq Wallet
  <2>1. channel \in Seq(Event) /\ disturbed \subseteq Wallet
    BY DEF TypeOK, Event
  <2>2. \A i \in DOMAIN channel : channel[i] \in Event
    BY <2>1
  <2>3. \A i \in DOMAIN channel : channel[i].wallet \in Wallet
    BY <2>2 DEF Event
  <2> QED
    BY <1>1, <2>1, <2>3
<1>4. TypeOK' /\ TrackerInv'
  BY <1>1, <1>2, <1>3, EmptyIn DEF TypeOK, TrackerInv, database, tracker, Started
<1>5. CallInv' /\ Alone' /\ Stable'
  BY <1>1, CallsKeep
<1>6. Followed'
  <2> SUFFICES ASSUME NEW w \in Wallet \ disturbed', Started PROVE FollowedBy(w)'
    BY <1>1 DEF Followed, Started, tracker
  <2>1. FollowedBy(w)
    BY <1>1 DEF Followed
  <2>2. ~HasEvent(w)
    BY <1>1 DEF HasEvent, Mentions
  <2>3. ~HasEvent(w)' /\ ~EndsWith(channel, w, "resume")' /\ ~EndsWith(channel, w, "resume")
    BY <1>1, <2>2, OnEmpty, EndsMentions DEF HasEvent
  <2>4. Viewed(w)' <=> Viewed(w)
    BY <1>1, <2>2, <2>3 DEF Viewed, tracker
  <2>5. \A t \in Call : SameFor(t, w)
    BY <1>1, SameCalls
  <2>6. rows' = rows /\ phase' = phase
    BY <1>1 DEF database, tracker
  <2> QED
    BY <1>1, <2>1, <2>2, <2>3, <2>4, <2>5, <2>6, FollowKeeps
<1> QED
  BY <1>4, <1>5, <1>6

LEMMA Initial == Init => ControlIInv
<1> SUFFICES ASSUME Init PROVE ControlIInv
  OBVIOUS
<1> USE DEF Init
<1>1. \A t \in Call : op[t] = Idle
  OBVIOUS
<1>2. TypeOK
  <2>1. rows \in [Row -> Status]
    BY DEF Status
  <2>2. op \in [Call -> OpType]
    BY IdleIs
  <2>3. calls \in 0..MaxCalls /\ boots \in 0..MaxBoots /\ faults \in 0..MaxFaults
    BY Constants
  <2>4. channel \in Seq([event : {"pause", "resume"}, wallet : Wallet])
    BY EmptyIn
  <2>5. /\ listening \in BOOLEAN /\ (listening => Started)
        /\ phase \in {"down", "boot", "monitors", "copytrades", "fill", "loop"}
        /\ todo = {} /\ watched = {} /\ disturbed = {}
    OBVIOUS
  <2> HIDE DEF Init
  <2> QED
    BY <1>1, <2>1, <2>2, <2>3, <2>4, <2>5 DEF TypeOK
<1>3. CallInv /\ Alone /\ Stable
  BY <1>1, IdleIs DEF CallInv, Alone, Stable
<1>4. TrackerInv /\ Followed
  BY DEF TrackerInv, Followed, Started
<1> QED
  BY <1>2, <1>3, <1>4 DEF ControlIInv

LEMMA Keeps == ControlIInv /\ [Next]_vars => ControlIInv'
<1> SUFFICES ASSUME ControlIInv, [Next]_vars PROVE ControlIInv'
  OBVIOUS
<1>1. CASE UNCHANGED vars
  <2>1. UNCHANGED <<database, channel, listening, tracker, disturbed, calls, boots, faults>>
    BY <1>1 DEF vars
  <2>2. faults' \in 0..MaxFaults /\ disturbed' \subseteq Wallet /\ op' \in [Call -> OpType]
    BY <2>1 DEF ControlIInv, TypeOK, database
  <2> QED
    BY <2>1, <2>2, EndKeeps DEF database
<1>2. ASSUME NEW t \in Call, NewCall(t) \/ CallStep(t) PROVE ControlIInv'
  BY <1>2, NewCallKeeps, AnnounceKeeps, UndoKeeps, CommitKeeps DEF CallStep
<1>3. CASE BotCrash
  BY <1>3, BotCrashKeeps
<1>4. CASE Boot \/ Crash \/ Disconnect
  BY <1>4, BootKeeps, DisconnectKeeps
<1>5. CASE TrackerStep
  BY <1>5, SubscribeKeeps, ReadsKeep, FillKeeps, ProcessEventKeeps DEF TrackerStep
<1> QED
  BY <1>1, <1>2, <1>3, <1>4, <1>5 DEF Next

\* At rest the tracker thinks what it watches, and was told nothing that is not a row.
LEMMA IInvGives == ControlIInv => Inv
<1> SUFFICES ASSUME ControlIInv, Quiet, NEW w \in Wallet \ disturbed PROVE Agrees(w)
  BY DEF Inv, WatchedAgrees, ControlIInv
<1>1. phase = "loop" /\ channel = <<>> /\ todo = {} /\ \A t \in Call : op[t] = Idle
  BY RestingCalls DEF Quiet, ControlIInv, TypeOK
<1>2. \A t \in Call : ~Told(t, w)
  BY <1>1, IdleIs DEF Told
<1>3. Viewed(w) <=> w \in ActiveWallets(Known(w))
  BY <1>1, <1>2 DEF ControlIInv, Followed, FollowedBy, Started
<1>4. ~HasEvent(w) /\ (Viewed(w) <=> w \in watched)
  BY <1>1, OnEmpty DEF HasEvent, Viewed
<1>5. Known(w) = Row
  BY <1>1, <1>4 DEF Known, Seen
<1> QED
  BY <1>3, <1>4, <1>5 DEF Agrees

LEMMA ControlIInvHolds == Spec => []ControlIInv
BY Initial, Keeps, PTL DEF Spec

-----------------------------------------------------------------------------
(***************************************************************************)
(* The theorems                                                            *)
(***************************************************************************)
\* When the services and the tracker rest, exactly the wallets of the active rows are
\* watched, but for the causes that are named, for any rows, calls and failures.
THEOREM ControlCorrect == Spec => []Inv
BY ControlIInvHolds, IInvGives, PTL

\* Only the commit of a call changes rows: all of its own, which it has announced.
LEMMA CommitStep ==
  ASSUME ControlIInv, [Next]_vars, rows' # rows
  PROVE  \E t \in Call : ChangesWhole(t)
<1>1. PICK t \in Call : Commit(t)
  <2>1. ~UNCHANGED vars /\ ~BotCrash /\ ~Boot /\ ~Crash /\ ~Disconnect
    BY DEF vars, database, BotCrash, Boot, Crash, Disconnect
  <2>2. ~TrackerStep
    BY DEF TrackerStep, Subscribe, ReadMonitors, ReadCopyTrades, Read, Filled, ProcessEvent,
           Reconnect, SubscribeWallet, database
  <2>3. \A t \in Call : ~NewCall(t)
    BY DEF NewCall, AddMonitor, UpdateMonitor, DeleteMonitor, InactiveAllMonitors, AddCopyTrade,
           UpdateCopyTrade, DeleteCopyTrade, InactiveAllCopyTrades, Add, Update, Delete,
           InactiveAll, Begin
  <2>4. \A t \in Call, q \in Row : ~Announce(t, q) /\ ~Undo(t, q)
    BY DEF Announce, Undo
  <2> QED
    BY <2>1, <2>2, <2>3, <2>4 DEF Next, CallStep
<1>2. /\ rows' = [r \in Row |-> IF r \in op[t].dirty THEN op[t].to ELSE rows[r]]
      /\ op[t].stage = "commit" /\ op' = [op EXCEPT ![t] = Idle]
      /\ op[t].to # "gone" => \A r \in op[t].dirty : rows[r] # "gone"
  BY <1>1 DEF Commit
<1>3. op[t].left = {} /\ op[t].dirty \subseteq op[t].said
  BY <1>2 DEF ControlIInv, CallInv
<1>4. op'[t] = Idle
  BY <1>2 DEF ControlIInv, TypeOK
<1> QED
  BY <1>2, <1>3, <1>4 DEF ChangesWhole

\* For any rows, calls, failures and restarts: whether a row follows its wallet
\* changes only after the event that says so was published.
THEOREM ChangesAnnounced == Spec => AnnouncedFirst
<1>1. ASSUME ControlIInv, [Next]_vars, NEW r \in Row, rows[r] = "on" <=> rows'[r] # "on"
      PROVE  \E t \in Call : r \in op[t].said /\ op[t].to = rows'[r]
  <2>1. PICK t \in Call : ChangesWhole(t)
    BY <1>1, CommitStep
  <2>2. rows'[r] # rows[r]
    BY <1>1
  <2>3. r \in op[t].dirty /\ rows'[r] = op[t].to /\ op[t].dirty \subseteq op[t].said
    BY <2>1, <2>2 DEF ChangesWhole
  <2> QED
    BY <2>3
<1>2. ControlIInv /\ [Next]_vars =>
        [\A r \in Row : (rows[r] = "on" <=> rows'[r] # "on") =>
           \E t \in Call : r \in op[t].said /\ op[t].to = rows'[r]]_vars
  BY <1>1
<1> QED
  BY <1>2, ControlIInvHolds, PTL DEF Spec, AnnouncedFirst

\* For any number of rows, calls and failures: a call changes all of its rows or
\* none, and those it changes it has announced, so that one that fails while it
\* announces, or takes its announcements back, leaves the database as it was.
THEOREM CallsAllOrNothing == Spec => AllOrNothing
<1>1. ControlIInv /\ [Next]_vars => [rows' # rows => \E t \in Call : ChangesWhole(t)]_vars
  BY CommitStep
<1> QED
  BY <1>1, ControlIInvHolds, PTL DEF Spec, AllOrNothing
=============================================================================
