---------------------------- MODULE TelegramBotCards ----------------------------
(***************************************************************************)
(* FormSaved of TelegramBot: what a card shows a quiet user is what is     *)
(* saved.  The three dialogues with cards share one argument: CardInv says *)
(* of each unit in hand what it holds, and of the settings and the message *)
(* what they are while units run.  A lemma per await says that the step    *)
(* keeps it, first of any dialogue, by its description, then of each.      *)
(***************************************************************************)
EXTENDS TelegramBotProofs

-----------------------------------------------------------------------------
(***************************************************************************)
(* What a card shows is what is saved.  p describes the dialogue: the key  *)
(* of the form its cards edit, the states of the cards and of the creation *)
(* of a form, and the names of its own steps.                              *)
(***************************************************************************)
CopyCards ==
  [key |-> "copytrade_settings", home |-> CopyTrade!Editing, creating |-> CopyTrade!Creating,
   load |-> "loadCopytrade", new |-> "newCopytrade", gone |-> "deletedCopytrade"]

\* The form that is created has a key of its own.
MonitorCards ==
  [key |-> "monitor", home |-> Monitor!Editing, creating |-> <<>>,
   load |-> "loadMonitor", new |-> "none", gone |-> "deletedMonitor"]

Inside(s, state) == s # None /\ Len(s) > 1 /\ SubSeq(s, 1, 2) = state

\* One of the steps s awaits what; one of them leads to the state.
Does(s, what) == \E i \in 1..Len(s) : s[i].do = what
Leads(s, state) == \E i \in 1..Len(s) : Inside(s[i].to, state)

\* A save reads the row, writes it at once and does no more with the table.
Ordered(s) ==
  \A i \in 1..Len(s) :
    /\ s[i].do = "read" => i < Len(s) /\ s[i + 1].do = "commit"
    /\ s[i].do \in {"read", "commit"} => \A j \in (i + 1)..Len(s) : s[j].do # "read"
    /\ s[i].do = "commit" => \A j \in (i + 1)..Len(s) : s[j].do # "commit"

\* What a handler may await, by what it works on.
Awaited(on, p) ==
  IF on = "" THEN {"tell", "tidy", "insert"}
  ELSE IF on = "form" THEN {"tell", "readAll", "commit", "delete", p.new, p.load, p.gone}
  ELSE {"tell", "tidy", "read", "commit"}

\* A handler that works on a whole form ends with the card of a row it has read, or in
\* another state or without a form.
Opens(s, p) ==
  s \in {<<[do |-> "tell", to |-> p.home]>>,
         <<[do |-> p.load, to |-> None], [do |-> "tell", to |-> p.home]>>}

Closes(s, p) ==
  /\ ~Leads(s, p.home) /\ ~Does(s, p.load)
  /\ s # <<>> => LET last == s[Len(s)]
                 IN \/ last.do = "tell" /\ last.to # None
                    \/ last.do = p.gone

Triples(W) == \A w \in W : w = <<w[1], w[2], w[3]>>

Regular(k, p) ==
  /\ k.seen # None => k.todo = <<>>
  /\ Ordered(k.todo) /\ Triples(k.write)
  /\ \A i \in 1..Len(k.todo) : k.todo[i].do \in Awaited(k.on, p)
  /\ k.on = "" => ~Leads(k.todo, p.home) /\ ~Leads(k.todo, p.creating)
  /\ k.on = "form" => Opens(k.todo, p) \/ Closes(k.todo, p)
  /\ Does(k.todo, "commit") /\ k.on # "form" => k.form # None
  /\ Does(k.todo, "commit") /\ k.on = "form" => k.form = None

AtWork(k) == k.todo # <<>> /\ k.on # ""

\* Who works on a whole form works alone.
Apart ==
  \A c, d \in Slot : c # d /\ AtWork(calls[c]) /\ AtWork(calls[d]) => calls[c].on # "form"

Saving(k) == k.form # None /\ (Does(k.todo, "read") \/ Does(k.todo, "commit"))

\* What is about to be written is what update() makes of what the form says.
Exact(k) ==
  Saving(k) /\ ~Does(k.todo, "read") =>
    \A w \in k.write : /\ w[1] \in Nat /\ w[1] = forms[k.form].row
                       /\ w[2] \in DOMAIN forms[k.form].value
                       /\ w[3] = Column(w[2], forms[k.form].value[w[2]])

Current(k, p) == Saving(k) => k.form = data[p.key] \/ data[p.key] = None

\* A card of the form is shown, or will be.
Comes(k, state, first) == Leads(k.todo, state) /\ k.todo[1].do # first
Attended(p) == Inside(fsm, p.home) \/ \E c \in Slot : Comes(calls[c], p.home, p.load)

\* A handler replaces, deletes or leaves the form.
Replaced(p) ==
  \E c \in Slot : calls[c].todo # <<>> /\ calls[c].on = "form" /\ ~Leads(calls[c].todo, p.home)

WillSave(k, i, f) ==
  /\ k.form = i
  /\ \/ Does(k.todo, "read")
     \/ Does(k.todo, "commit") /\ \E w \in k.write : w[1] = forms[i].row /\ w[2] = f

\* A column holds what a card shows, as it is written or as it is read.
Agrees(f, shown, held) == held = Column(f, shown) \/ shown = Field(f, held)

SavedOrDue(i) ==
  forms[i].row # None =>
    /\ Exists(forms[i].row)
    /\ \A f \in DOMAIN forms[i].value :
         \/ Agrees(f, forms[i].value[f], rows[forms[i].row][f])
         \/ \E c \in Slot : WillSave(calls[c], i, f)

CardKept(p) == Attended(p) /\ ~Replaced(p) /\ data[p.key] # None => SavedOrDue(data[p.key])

\* A form that is created is no row yet.
Creation(p) == Inside(fsm, p.creating) \/ \E c \in Slot : Comes(calls[c], p.creating, p.new)
Opened(p) == \E c \in Slot : calls[c].on = "form" /\ Comes(calls[c], p.home, p.load)
NewKept(p) ==
  Creation(p) /\ ~Opened(p) /\ data[p.key] # None => forms[data[p.key]].row = None

CardInv(p) ==
  /\ \A c \in Slot : Regular(calls[c], p)
  /\ ~clash => /\ Apart /\ CardKept(p) /\ NewKept(p)
               /\ \A c \in Slot : Exact(calls[c]) /\ Current(calls[c], p)

NewMonitor ==
  data["monitor_settings"] # None => forms[data["monitor_settings"]].row = None

\* What is left of the steps after the first one.
LEMMA TailOf ==
  ASSUME NEW T, NEW s \in Seq(T), s # <<>>
  PROVE  /\ Head(s) = s[1] /\ Len(s) \in Nat \ {0} /\ Len(Tail(s)) = Len(s) - 1
         /\ \A i \in 1..Len(Tail(s)) : Tail(s)[i] = s[i + 1] /\ i + 1 \in 1..Len(s)
         /\ \A i \in 2..Len(s) : s[i] = Tail(s)[i - 1] /\ i - 1 \in 1..Len(Tail(s))
         /\ Tail(s) # <<>> => Len(Tail(s)) \in Nat \ {0} /\ Tail(s)[Len(Tail(s))] = s[Len(s)]
         /\ Tail(s) = <<>> => Len(s) = 1
         /\ 1 \in 1..Len(s) /\ Tail(s) \in Seq(T)
<1>1. Len(s) \in Nat \ {0} /\ Head(s) = s[1] /\ Tail(s) \in Seq(T) /\ Len(Tail(s)) = Len(s) - 1
  OBVIOUS
<1>2. \A i \in 1..(Len(s) - 1) : Tail(s)[i] = s[i + 1]
  OBVIOUS
<1>3. Tail(s) # <<>> => Len(Tail(s)) \in Nat \ {0}
  BY <1>1
<1>4. Tail(s) = <<>> => Len(s) = 1
  BY <1>1
<1>5. Tail(s) # <<>> => Tail(s)[Len(Tail(s))] = s[Len(s)]
  BY <1>1, <1>2, <1>3
<1>6. \A i \in 2..Len(s) : s[i] = Tail(s)[i - 1] /\ i - 1 \in 1..Len(Tail(s))
  BY <1>1, <1>2
<1> QED
  BY <1>1, <1>2, <1>3, <1>4, <1>5, <1>6

LEMMA TailDoes ==
  ASSUME NEW T, NEW s \in Seq(T), s # <<>>, NEW what
  PROVE  /\ Does(Tail(s), what) => Does(s, what)
         /\ Does(s, what) => s[1].do = what \/ Does(Tail(s), what)
         /\ s[1].do = what => Does(s, what)
<1>1. PICK u : u = Tail(s)
  OBVIOUS
<1>2. /\ Len(s) \in Nat \ {0} /\ Len(u) = Len(s) - 1 /\ 1 \in 1..Len(s)
      /\ \A j \in 1..Len(u) : u[j] = s[j + 1] /\ j + 1 \in 1..Len(s)
      /\ \A j \in 2..Len(s) : s[j] = u[j - 1] /\ j - 1 \in 1..Len(u)
  BY <1>1, TailOf
<1>3. Does(u, what) => Does(s, what)
  BY <1>2 DEF Does
<1>4. Does(s, what) => s[1].do = what \/ Does(u, what)
  <2>1. SUFFICES ASSUME NEW i \in 1..Len(s), s[i].do = what PROVE s[1].do = what \/ Does(u, what)
    BY DEF Does
  <2>2. i = 1 \/ i \in 2..Len(s)
    BY <1>2
  <2> QED
    BY <1>2, <2>1, <2>2 DEF Does
<1>5. s[1].do = what => Does(s, what)
  BY <1>2 DEF Does
<1> QED
  BY <1>1, <1>3, <1>4, <1>5

LEMMA TailLeads ==
  ASSUME NEW T, NEW s \in Seq(T), s # <<>>, NEW state
  PROVE  /\ Leads(Tail(s), state) => Leads(s, state)
         /\ Leads(s, state) => Inside(s[1].to, state) \/ Leads(Tail(s), state)
         /\ Inside(s[1].to, state) => Leads(s, state)
<1>1. PICK u : u = Tail(s)
  OBVIOUS
<1>2. /\ Len(s) \in Nat \ {0} /\ Len(u) = Len(s) - 1 /\ 1 \in 1..Len(s)
      /\ \A j \in 1..Len(u) : u[j] = s[j + 1] /\ j + 1 \in 1..Len(s)
      /\ \A j \in 2..Len(s) : s[j] = u[j - 1] /\ j - 1 \in 1..Len(u)
  BY <1>1, TailOf
<1>3. Leads(u, state) => Leads(s, state)
  BY <1>2 DEF Leads
<1>4. Leads(s, state) => Inside(s[1].to, state) \/ Leads(u, state)
  <2>1. SUFFICES ASSUME NEW i \in 1..Len(s), Inside(s[i].to, state)
                 PROVE  Inside(s[1].to, state) \/ Leads(u, state)
    BY DEF Leads
  <2>2. i = 1 \/ i \in 2..Len(s)
    BY <1>2
  <2> QED
    BY <1>2, <2>1, <2>2 DEF Leads
<1>5. Inside(s[1].to, state) => Leads(s, state)
  BY <1>2 DEF Leads
<1> QED
  BY <1>1, <1>3, <1>4, <1>5

LEMMA TailOrdered ==
  ASSUME NEW T, NEW s \in Seq(T), s # <<>>, Ordered(s)
  PROVE  /\ Ordered(Tail(s))
         /\ s[1].do = "read" => Does(Tail(s), "commit") /\ ~Does(Tail(s), "read")
         /\ s[1].do = "commit" => ~Does(Tail(s), "commit") /\ ~Does(s, "read")
<1>1. PICK u : u = Tail(s)
  OBVIOUS
<1>2. /\ Len(s) \in Nat \ {0} /\ Len(u) = Len(s) - 1 /\ 1 \in 1..Len(s) /\ Len(u) \in Nat
      /\ \A j \in 1..Len(u) : u[j] = s[j + 1] /\ j + 1 \in 1..Len(s)
      /\ \A j \in 2..Len(s) : s[j] = u[j - 1] /\ j - 1 \in 1..Len(u)
  BY <1>1, TailOf
<1>3. Ordered(u)
  <2> SUFFICES ASSUME NEW i \in 1..Len(u)
               PROVE  /\ u[i].do = "read" => i < Len(u) /\ u[i + 1].do = "commit"
                      /\ u[i].do \in {"read", "commit"} => \A j \in (i + 1)..Len(u) : u[j].do # "read"
                      /\ u[i].do = "commit" => \A j \in (i + 1)..Len(u) : u[j].do # "commit"
    BY DEF Ordered
  <2>1. /\ s[i + 1].do = "read" => i + 1 < Len(s) /\ s[i + 2].do = "commit"
        /\ s[i + 1].do \in {"read", "commit"} => \A j \in (i + 2)..Len(s) : s[j].do # "read"
        /\ s[i + 1].do = "commit" => \A j \in (i + 2)..Len(s) : s[j].do # "commit"
    BY <1>2 DEF Ordered
  <2>2. ASSUME NEW j \in (i + 1)..Len(u) PROVE u[j] = s[j + 1] /\ j + 1 \in (i + 2)..Len(s)
    BY <1>2
  <2>3. i < Len(u) => u[i + 1] = s[i + 2]
    BY <1>2
  <2>4. u[i] = s[i + 1]
    BY <1>2
  <2>5. u[i].do = "read" => i < Len(u) /\ u[i + 1].do = "commit"
    <3>1. i + 1 < Len(s) => i < Len(u)
      BY <1>2
    <3> QED
      BY <2>1, <2>3, <2>4, <3>1
  <2> QED
    BY <2>1, <2>2, <2>4, <2>5
<1>4. s[1].do = "read" => Does(u, "commit")
  <2>1. s[1].do = "read" => 1 < Len(s) /\ s[2].do = "commit"
    BY <1>2 DEF Ordered
  <2>2. 1 < Len(s) => 2 \in 2..Len(s) /\ s[2] = u[1] /\ 1 \in 1..Len(u)
    BY <1>2
  <2> QED
    BY <2>1, <2>2 DEF Does
<1>5. s[1].do \in {"read", "commit"} => ~Does(u, "read")
  <2>1. s[1].do \in {"read", "commit"} => \A j \in 2..Len(s) : s[j].do # "read"
    BY <1>2 DEF Ordered
  <2>2. \A i \in 1..Len(u) : i + 1 \in 2..Len(s) /\ u[i] = s[i + 1]
    BY <1>2
  <2> QED
    BY <2>1, <2>2 DEF Does
<1>6. s[1].do = "commit" => ~Does(u, "commit")
  <2>1. s[1].do = "commit" => \A j \in 2..Len(s) : s[j].do # "commit"
    BY <1>2 DEF Ordered
  <2>2. \A i \in 1..Len(u) : i + 1 \in 2..Len(s) /\ u[i] = s[i + 1]
    BY <1>2
  <2> QED
    BY <2>1, <2>2 DEF Does
<1>7. s[1].do = "commit" => ~Does(s, "read")
  BY <1>1, <1>5, TailDoes
<1> QED
  BY <1>1, <1>3, <1>4, <1>5, <1>6, <1>7

\* The names of a dialogue are its own.
WellNamed(p) ==
  /\ {p.load, p.new, p.gone} \cap {"tell", "tidy", "read", "commit", "insert", "delete", "readAll"} = {}
  /\ p.load # p.new /\ p.load # p.gone /\ p.new # p.gone
  /\ p.home # None /\ Inside(p.home, p.home) /\ ~Inside(p.home, p.creating)

LEMMA OpensLeads ==
  ASSUME NEW p, WellNamed(p), NEW s, Opens(s, p)
  PROVE  /\ Leads(s, p.home) /\ ~Does(s, "commit") /\ ~Does(s, "read") /\ Ordered(s)
         /\ s # <<>> /\ s[1].do \in {"tell", p.load}
         /\ s[1].do = "tell" => s[1].to = p.home /\ Len(s) = 1 /\ Tail(s) = <<>>
         /\ s[1].do = p.load => s[1].to = None /\ Tail(s) = <<[do |-> "tell", to |-> p.home]>>
<1>1. p.load \notin {"tell", "commit", "read"} /\ Inside(p.home, p.home)
  BY DEF WellNamed
<1>2. PICK x : x = [do |-> "tell", to |-> p.home]
  OBVIOUS
<1>3. PICK y : y = [do |-> p.load, to |-> None]
  OBVIOUS
<1>4. x.do = "tell" /\ x.to = p.home /\ y.do = p.load /\ y.to = None
  BY <1>2, <1>3
<1>5. CASE s = <<x>>
  <2>1. Len(s) = 1 /\ s[1] = x /\ Tail(s) = <<>> /\ s # <<>>
    BY <1>5
  <2> QED
    BY <2>1, <1>1, <1>4 DEF Leads, Does, Ordered
<1>6. CASE s = <<y, x>>
  <2>1. Len(s) = 2 /\ s[1] = y /\ s[2] = x /\ Tail(s) = <<x>> /\ s # <<>> /\ 1..Len(s) = {1, 2}
    BY <1>6
  <2> QED
    BY <2>1, <1>1, <1>2, <1>4 DEF Leads, Does, Ordered
<1> QED
  BY <1>2, <1>3, <1>5, <1>6 DEF Opens

\* What is left of a regular handler is regular.
LEMMA RegularTail ==
  ASSUME NEW p, WellNamed(p), NEW k, Regular(k, p), NEW T, k.todo \in Seq(T), k.todo # <<>>,
         NEW q, q.seen = k.seen, q.todo = Tail(k.todo), q.on = k.on, q.form = k.form, Triples(q.write)
  PROVE  Regular(q, p)
<1>1. PICK t, u : t = k.todo /\ u = q.todo
  OBVIOUS
<1>2. t \in Seq(T) /\ t # <<>> /\ u = Tail(t)
  BY <1>1
<1>3. k.seen = None
  BY DEF Regular
<1>4. Ordered(u)
  BY <1>1, <1>2, TailOrdered DEF Regular
<1>5. ASSUME NEW i \in 1..Len(u) PROVE u[i].do \in Awaited(q.on, p)
  <2>1. u[i] = t[i + 1] /\ i + 1 \in 1..Len(t)
    BY <1>2, TailOf
  <2>2. \A j \in 1..Len(t) : t[j].do \in Awaited(k.on, p)
    BY <1>1 DEF Regular
  <2>3. PICK j \in 1..Len(t) : u[i] = t[j]
    BY <2>1
  <2> QED
    BY <2>2, <2>3
<1>6. /\ Leads(u, p.home) => Leads(t, p.home)
      /\ Leads(u, p.creating) => Leads(t, p.creating)
      /\ Does(u, "commit") => Does(t, "commit")
      /\ Does(u, p.load) => Does(t, p.load)
  BY <1>2, TailLeads, TailDoes
<1>7. ASSUME q.on = "form" PROVE Opens(u, p) \/ Closes(u, p)
  <2>1. CASE Opens(t, p)
    <3>1. CASE t[1].do = "tell"
      <4>1. u = <<>>
        BY <1>2, <2>1, <3>1, OpensLeads
      <4> QED
        BY <4>1 DEF Closes, Leads, Does
    <3>2. CASE t[1].do = p.load
      <4>1. u = <<[do |-> "tell", to |-> p.home]>>
        BY <1>2, <2>1, <3>2, OpensLeads
      <4> QED
        BY <4>1 DEF Opens
    <3> QED
      BY <2>1, <3>1, <3>2, OpensLeads
  <2>2. CASE Closes(t, p)
    <3>1. u # <<>> => u[Len(u)] = t[Len(t)]
      BY <1>2, TailOf
    <3> QED
      BY <1>2, <1>6, <2>2, <3>1 DEF Closes
  <2> QED
    BY <1>1, <1>7, <2>1, <2>2 DEF Regular
<1> QED
  BY <1>1, <1>3, <1>4, <1>5, <1>6, <1>7 DEF Regular

LEMMA NoneLeft ==
  ASSUME NEW s, s = <<>>, NEW state, NEW what
  PROVE  Ordered(s) /\ ~Leads(s, state) /\ ~Does(s, what)
<1>1. Len(s) = 0 /\ 1..Len(s) = {}
  OBVIOUS
<1> QED
  BY <1>1 DEF Ordered, Leads, Does

LEMMA IdleRegular ==
  ASSUME NEW p, NEW k, k.todo = <<>>, k.on = "", k.write = {} PROVE Regular(k, p)
<1>1. Ordered(k.todo) /\ ~Leads(k.todo, p.home) /\ ~Leads(k.todo, p.creating) /\ ~Does(k.todo, "commit")
  BY NoneLeft
<1>2. \A i \in 1..Len(k.todo) : k.todo[i].do \in Awaited(k.on, p)
  BY NoneLeft DEF Does
<1> QED
  BY <1>1, <1>2 DEF Regular, Triples

\* The call c becomes q.
Becomes(c, q) == calls'[c] = q /\ \A d \in Slot \ {c} : calls'[d] = calls[d]

AllRegular(p) == \A c \in Slot : Regular(calls[c], p)

\* A step that does not fail when clash' holds.
LEMMA CardsClash ==
  ASSUME NEW p, CardInv(p), NEW c \in Slot, NEW q, Becomes(c, q), Regular(q, p), clash'
  PROVE  CardInv(p)'
BY DEF CardInv, Becomes

\* Nobody but c works on a form while c works on a whole one.
LEMMA OthersRest ==
  ASSUME NEW p, AllRegular(p), Apart, NEW c \in Slot, calls[c].todo # <<>>, calls[c].on = "form",
         NEW d \in Slot \ {c}
  PROVE  /\ ~Leads(calls[d].todo, p.home) /\ ~Leads(calls[d].todo, p.creating)
         /\ ~Does(calls[d].todo, "read") /\ ~Does(calls[d].todo, "commit")
         /\ ~Saving(calls[d]) /\ (calls[d].todo # <<>> => calls[d].on = "")
<1>1. calls[d].todo = <<>> \/ calls[d].on = ""
  BY DEF Apart, AtWork
<1>2. CASE calls[d].todo = <<>>
  BY <1>2, NoneLeft DEF Saving
<1>3. CASE calls[d].on = ""
  <2>1. \A i \in 1..Len(calls[d].todo) : calls[d].todo[i].do \in {"tell", "tidy", "insert"}
    BY <1>3 DEF AllRegular, Regular, Awaited
  <2>2. ~Does(calls[d].todo, "read") /\ ~Does(calls[d].todo, "commit")
    BY <2>1 DEF Does
  <2>3. ~Leads(calls[d].todo, p.home) /\ ~Leads(calls[d].todo, p.creating)
    BY <1>3 DEF AllRegular, Regular
  <2> QED
    BY <1>3, <2>2, <2>3 DEF Saving
<1> QED
  BY <1>1, <1>2, <1>3

\* After a step of c the card is shown or will be if it was before.
LEMMA StepAttended ==
  ASSUME NEW p, NEW c \in Slot, NEW q, Becomes(c, q), NEW T, calls[c].todo \in Seq(T),
         calls[c].todo # <<>>, q.todo = Tail(calls[c].todo),
         fsm' = fsm \/ fsm' = calls[c].todo[1].to, NEW state, NEW first, calls[c].todo[1].do # first,
         Inside(fsm', state) \/ \E d \in Slot : Comes(calls'[d], state, first)
  PROVE  Inside(fsm, state) \/ \E d \in Slot : Comes(calls[d], state, first)
<1>1. PICK t : t = calls[c].todo
  OBVIOUS
<1>2. /\ Leads(Tail(t), state) => Leads(t, state)
      /\ Inside(t[1].to, state) => Leads(t, state)
  BY <1>1, TailLeads
<1>3. CASE Inside(fsm', state)
  <2>1. CASE fsm' = fsm
    BY <1>3, <2>1
  <2>2. CASE fsm' = t[1].to
    <3>1. Comes(calls[c], state, first)
      BY <1>1, <1>2, <1>3, <2>2 DEF Comes
    <3> QED
      BY <3>1
  <2> QED
    BY <1>1, <2>1, <2>2
<1>4. ASSUME NEW d \in Slot, Comes(calls'[d], state, first)
      PROVE  \E e \in Slot : Comes(calls[e], state, first)
  <2>1. CASE d = c
    <3>1. Leads(Tail(t), state)
      BY <1>1, <1>4, <2>1 DEF Becomes, Comes
    <3>2. Comes(calls[c], state, first)
      BY <1>1, <1>2, <3>1 DEF Comes
    <3> QED
      BY <3>2
  <2>2. CASE d # c
    BY <1>4, <2>2 DEF Becomes
  <2> QED
    BY <2>1, <2>2
<1> QED
  BY <1>3, <1>4

\* A handler that closes the card leaves no other one that shows it.
LEMMA StepReplaced ==
  ASSUME NEW p, WellNamed(p), AllRegular(p), Apart, NEW c \in Slot, NEW q, Becomes(c, q),
         NEW T, calls[c].todo \in Seq(T), calls[c].todo # <<>>, q.todo = Tail(calls[c].todo),
         q.todo # <<>> => q.on = calls[c].on, calls[c].todo[1].do # p.gone,
         calls[c].todo[1].do = "tell" =>
           fsm' = IF calls[c].todo[1].to = None THEN fsm ELSE calls[c].todo[1].to,
         Attended(p)', Replaced(p)
  PROVE  Replaced(p)'
<1>1. PICK d \in Slot : calls[d].todo # <<>> /\ calls[d].on = "form" /\ ~Leads(calls[d].todo, p.home)
  BY DEF Replaced
<1>2. CASE d # c
  BY <1>1, <1>2 DEF Replaced, Becomes
<1>3. CASE d = c
  <2>1. PICK t : t = calls[c].todo
    OBVIOUS
  <2>2. ~Leads(t, p.home) /\ calls[c].on = "form" /\ t # <<>> /\ t \in Seq(T)
    BY <1>1, <1>3, <2>1
  <2>3. CASE Tail(t) # <<>>
    <3>1. ~Leads(Tail(t), p.home)
      BY <2>2, TailLeads
    <3> QED
      BY <2>1, <2>2, <2>3, <3>1 DEF Replaced, Becomes
  <2>4. CASE Tail(t) = <<>>
    <3>1. Closes(t, p)
      BY <2>1, <2>2, OpensLeads DEF AllRegular, Regular
    <3>2. Len(t) = 1
      BY <2>2, <2>4, TailOf
    <3>3. t[1].do = "tell" /\ t[1].to # None
      BY <2>1, <2>2, <3>1, <3>2 DEF Closes
    <3>4. fsm' = t[1].to
      BY <2>1, <3>3
    <3>5. ~Inside(fsm', p.home)
      BY <2>2, <3>4, TailLeads
    <3>6. PICK e \in Slot : Comes(calls'[e], p.home, p.load)
      BY <3>5 DEF Attended
    <3>7. Leads(calls'[e].todo, p.home)
      BY <3>6 DEF Comes
    <3>8. e # c
      BY <2>1, <2>4, <3>7, NoneLeft DEF Becomes
    <3>9. calls'[e] = calls[e]
      BY <3>8 DEF Becomes
    <3>10. ~Leads(calls[e].todo, p.home)
      BY <1>1, <1>3, <3>8, OthersRest
    <3> QED
      BY <3>7, <3>9, <3>10
  <2> QED
    BY <2>3, <2>4
<1> QED
  BY <1>2, <1>3

\* The same for one that opens the card of another form.
LEMMA StepOpened ==
  ASSUME NEW p, WellNamed(p), AllRegular(p), Apart, NEW c \in Slot, NEW q, Becomes(c, q),
         NEW T, calls[c].todo \in Seq(T), calls[c].todo # <<>>, q.todo = Tail(calls[c].todo),
         q.todo # <<>> => q.on = calls[c].on, calls[c].todo[1].do # p.load,
         calls[c].todo[1].do = "tell" =>
           fsm' = IF calls[c].todo[1].to = None THEN fsm ELSE calls[c].todo[1].to,
         Creation(p)', Opened(p)
  PROVE  Opened(p)'
<1>1. PICK d \in Slot : calls[d].on = "form" /\ Comes(calls[d], p.home, p.load)
  BY DEF Opened
<1>2. CASE d # c
  BY <1>1, <1>2 DEF Opened, Becomes
<1>3. CASE d = c
  <2>1. PICK t : t = calls[c].todo
    OBVIOUS
  <2>2. Leads(t, p.home) /\ calls[c].on = "form" /\ t # <<>> /\ t[1].do # p.load
    BY <1>1, <1>3, <2>1 DEF Comes
  <2>3. Opens(t, p)
    BY <2>1, <2>2 DEF AllRegular, Regular, Closes
  <2>4. t[1].do = "tell" /\ t[1].to = p.home /\ Tail(t) = <<>>
    BY <2>2, <2>3, OpensLeads
  <2>5. fsm' = p.home
    BY <2>1, <2>4 DEF WellNamed
  <2>6. PICK e \in Slot : Comes(calls'[e], p.creating, p.new)
    BY <2>5 DEF Creation, WellNamed
  <2>7. Leads(calls'[e].todo, p.creating)
    BY <2>6 DEF Comes
  <2>8. e # c
    BY <2>1, <2>4, <2>7, NoneLeft DEF Becomes
  <2>9. calls'[e] = calls[e]
    BY <2>8 DEF Becomes
  <2>10. ~Leads(calls[e].todo, p.creating)
    BY <2>1, <2>2, <2>8, OthersRest
  <2> QED
    BY <2>7, <2>9, <2>10
<1> QED
  BY <1>2, <1>3

\* A step of c that leaves forms and data as they are: the card must still be right.
StepsOn(c, q) ==
  /\ Becomes(c, q) /\ calls[c].todo # <<>> /\ q.todo = Tail(calls[c].todo)
  /\ q.todo # <<>> => q.seen = calls[c].seen /\ q.on = calls[c].on /\ q.form = calls[c].form
  /\ fsm' = fsm \/ fsm' = calls[c].todo[1].to
  /\ calls[c].todo[1].do = "tell" =>
       fsm' = IF calls[c].todo[1].to = None THEN fsm ELSE calls[c].todo[1].to

LEMMA StepSaving ==
  ASSUME NEW c \in Slot, NEW q, StepsOn(c, q), NEW T, calls[c].todo \in Seq(T)
  PROVE  Saving(q) => Saving(calls[c]) /\ q.form = calls[c].form
<1>1. q.todo = <<>> => ~Saving(q)
  BY NoneLeft DEF Saving
<1>2. \A what : Does(Tail(calls[c].todo), what) => Does(calls[c].todo, what)
  BY TailDoes DEF StepsOn
<1> QED
  BY <1>1, <1>2 DEF Saving, StepsOn

LEMMA StepKeeps ==
  ASSUME NEW p, WellNamed(p), CardInv(p), NEW c \in Slot, NEW q, StepsOn(c, q),
         NEW T, calls[c].todo \in Seq(T), calls[c].todo[1].do \notin {p.load, p.new, p.gone},
         Regular(q, p), forms' = forms, data' = data, clash => clash',
         ~clash' /\ data[p.key] # None /\ CardKept(p) /\ Attended(p) /\ ~Replaced(p)' /\ ~Replaced(p) => SavedOrDue(data[p.key])',
         ~clash' => Exact(q)'
  PROVE  CardInv(p)'
<1>1. CASE clash'
  BY <1>1, CardsClash DEF StepsOn
<1>2. CASE ~clash'
  <2>1. /\ Apart /\ CardKept(p) /\ NewKept(p) /\ AllRegular(p) /\ Becomes(c, q)
        /\ \A d \in Slot : Exact(calls[d]) /\ Current(calls[d], p)
    BY <1>2 DEF CardInv, AllRegular, StepsOn
  <2>2. AllRegular(p)'
    BY <2>1 DEF AllRegular, Becomes
  <2>3. Apart'
    <3>1. AtWork(q) => AtWork(calls[c]) /\ q.on = calls[c].on
      BY DEF AtWork, StepsOn
    <3> QED
      BY <2>1, <3>1 DEF Apart, Becomes
  <2>4. Attended(p)' => Attended(p)
    BY <2>1, StepAttended DEF Attended, StepsOn
  <2>5. Creation(p)' => Creation(p)
    BY <2>1, StepAttended DEF Creation, StepsOn
  <2>6. Attended(p)' /\ Replaced(p) => Replaced(p)'
    BY <2>1, StepReplaced DEF StepsOn
  <2>7. Creation(p)' /\ Opened(p) => Opened(p)'
    BY <2>1, StepOpened DEF StepsOn
  <2>8. CardKept(p)'
    BY <1>2, <2>1, <2>4, <2>6 DEF CardKept
  <2>9. NewKept(p)'
    BY <2>1, <2>5, <2>7 DEF NewKept
  <2>10. ASSUME NEW d \in Slot PROVE Exact(calls[d])' /\ Current(calls[d], p)'
    <3>1. CASE d = c
      <4>1. Exact(q)' /\ calls'[c] = q
        BY <1>2, <2>1 DEF Becomes
      <4>2. Current(q, p)'
        BY <2>1, StepSaving DEF Current
      <4> QED
        BY <3>1, <4>1, <4>2 DEF Exact, Current
    <3>2. CASE d # c
      BY <2>1, <3>2 DEF Becomes, Exact, Current
    <3> QED
      BY <3>1, <3>2
  <2> QED
    BY <2>2, <2>3, <2>8, <2>9, <2>10 DEF CardInv, AllRegular
<1> QED
  BY <1>1, <1>2

LEMMA TodoTyped ==
  ASSUME NEW V, NEW D, NEW N, Dialogue(V, D, N), NEW c \in Slot
  PROVE  \E T : calls[c].todo \in Seq(T)
BY DEF Dialogue, CallFits, StepSeq

LEMMA GoesOnRegular ==
  ASSUME NEW V, NEW D, NEW N, Dialogue(V, D, N), NEW p, WellNamed(p), AllRegular(p),
         NEW c \in Slot, Running(c), Goes(c)
  PROVE  \E q : /\ StepsOn(c, q) /\ Regular(q, p)
                /\ q.todo # <<>> => q.write = calls[c].write
<1>1. PICK T : calls[c].todo \in Seq(T)
  BY TodoTyped
<1>2. PICK k : k = calls[c]
  OBVIOUS
<1>3. DOMAIN k = {"seen", "todo", "on", "form", "write"} /\ k.todo # <<>> /\ Regular(k, p)
  BY <1>2 DEF Dialogue, CallFits, Running, AllRegular
<1>4. PICK q : q = IF Tail(k.todo) = <<>> THEN Idle ELSE [k EXCEPT !.todo = Tail(k.todo)]
  OBVIOUS
<1>5. calls' = [calls EXCEPT ![c] = q] /\ fsm' = IF Head(k.todo).to = None THEN fsm ELSE Head(k.todo).to
  BY <1>2, <1>4 DEF Goes
<1>6. calls'[c] = q /\ \A d \in Slot \ {c} : calls'[d] = calls[d]
  BY <1>5 DEF Dialogue
<1>7. q.todo = Tail(k.todo)
  BY <1>3, <1>4 DEF Idle
<1>8. q.todo # <<>> => q.seen = k.seen /\ q.on = k.on /\ q.form = k.form /\ q.write = k.write
  BY <1>3, <1>4, <1>7
<1>9. Head(k.todo) = k.todo[1]
  BY <1>1, <1>2, <1>3, TailOf
<1>10. StepsOn(c, q)
  BY <1>2, <1>3, <1>5, <1>6, <1>7, <1>8, <1>9 DEF StepsOn, Becomes
<1>11. Regular(q, p)
  <2>1. CASE q.todo = <<>>
    <3>1. q = Idle
      BY <1>4, <1>7, <2>1
    <3>2. Idle.todo = <<>> /\ Idle.on = "" /\ Idle.write = {}
      BY DEF Idle
    <3> QED
      BY <3>1, <3>2, IdleRegular
  <2>2. CASE q.todo # <<>>
    <3>1. Triples(q.write)
      BY <1>3, <1>8, <2>2 DEF Regular
    <3> QED
      BY <1>1, <1>2, <1>3, <1>7, <1>8, <2>2, <3>1, RegularTail
  <2> QED
    BY <2>1, <2>2
<1> QED
  BY <1>2, <1>8, <1>10, <1>11

\* What c was about to save it still is, unless this step was part of it.
LEMMA StepWillSave ==
  ASSUME NEW c \in Slot, NEW q, StepsOn(c, q), NEW T, calls[c].todo \in Seq(T),
         q.todo # <<>> => q.write = calls[c].write, calls[c].todo[1].do \notin {"read", "commit"},
         NEW i, forms' = forms, NEW f, NEW d \in Slot, WillSave(calls[d], i, f)
  PROVE  (WillSave(calls[d], i, f))'
<1>1. CASE d # c
  BY <1>1 DEF WillSave, StepsOn, Becomes
<1>2. CASE d = c
  <2>1. calls[c].form = i /\ calls'[c] = q
    BY <1>2 DEF WillSave, StepsOn, Becomes
  <2>2. \A what : Does(calls[c].todo, what) => calls[c].todo[1].do = what \/ Does(q.todo, what)
    BY TailDoes DEF StepsOn
  <2>3. \A what : Does(q.todo, what) => q.todo # <<>>
    BY NoneLeft
  <2>4. Does(calls[c].todo, "read") => Does(q.todo, "read") /\ q.form = i
    BY <2>1, <2>2, <2>3 DEF StepsOn
  <2>5. Does(calls[c].todo, "commit") => Does(q.todo, "commit") /\ q.form = i /\ q.write = calls[c].write
    BY <2>1, <2>2, <2>3 DEF StepsOn
  <2> QED
    BY <1>2, <2>1, <2>4, <2>5 DEF WillSave
<1> QED
  BY <1>1, <1>2

\* Neither do the rows change.
LEMMA StepSaved ==
  ASSUME NEW c \in Slot, NEW q, StepsOn(c, q), NEW T, calls[c].todo \in Seq(T),
         q.todo # <<>> => q.write = calls[c].write, calls[c].todo[1].do \notin {"read", "commit"},
         NEW i, forms' = forms,
         forms[i].row # None /\ Exists(forms[i].row) =>
           Exists(forms[i].row)' /\ rows'[forms[i].row] = rows[forms[i].row],
         SavedOrDue(i)
  PROVE  SavedOrDue(i)'
<1>1. SUFFICES ASSUME forms[i].row # None
               PROVE /\ Exists(forms[i].row)'
                     /\ \A f \in DOMAIN forms[i].value :
                          \/ Agrees(f, forms[i].value[f], rows'[forms[i].row][f])
                          \/ \E d \in Slot : (WillSave(calls[d], i, f))'
  BY DEF SavedOrDue
<1>2. Exists(forms[i].row)' /\ rows'[forms[i].row] = rows[forms[i].row]
  BY <1>1 DEF SavedOrDue
<1>3. ASSUME NEW f \in DOMAIN forms[i].value, NEW d \in Slot, WillSave(calls[d], i, f)
      PROVE  (WillSave(calls[d], i, f))'
  BY <1>3, StepWillSave
<1> QED
  BY <1>1, <1>2, <1>3 DEF SavedOrDue

\* What c writes is still what the form says.
LEMMA StepExact ==
  ASSUME NEW c \in Slot, NEW q, StepsOn(c, q), NEW T, calls[c].todo \in Seq(T),
         q.todo # <<>> => q.write = calls[c].write, calls[c].todo[1].do # "read",
         forms' = forms, Exact(calls[c])
  PROVE  Exact(q)'
<1>1. Saving(q) => Saving(calls[c]) /\ q.form = calls[c].form
  BY StepSaving
<1>2. Saving(q) => q.todo # <<>>
  BY NoneLeft DEF Saving
<1>3. Does(calls[c].todo, "read") => Does(q.todo, "read")
  BY TailDoes DEF StepsOn
<1>4. Saving(q)' <=> Saving(q)
  BY DEF Saving
<1> QED
  BY <1>1, <1>2, <1>3, <1>4 DEF Exact

LEMMA MessageCards ==
  ASSUME NEW V, NEW D, NEW N, Dialogue(V, D, N), NEW p, WellNamed(p), CardInv(p),
         NEW c \in Slot, Message(c)
  PROVE  CardInv(p)'
<1>1. PICK T : calls[c].todo \in Seq(T)
  BY TodoTyped
<1>2. Running(c) /\ Goes(c) /\ UNCHANGED <<data, forms, rows, clash>>
  BY DEF Message, At
<1>3. PICK q : /\ StepsOn(c, q) /\ Regular(q, p)
               /\ q.todo # <<>> => q.write = calls[c].write
  BY <1>2, GoesOnRegular DEF CardInv, AllRegular
<1>4. calls[c].todo[1].do \in {"tell", "tidy"}
  BY <1>1, TailOf DEF Message, At, Running
<1>5. calls[c].todo[1].do \notin {p.load, p.new, p.gone, "read", "commit"}
  BY <1>4 DEF WellNamed
<1>6. ASSUME NEW i, SavedOrDue(i) PROVE SavedOrDue(i)'
  BY <1>1, <1>2, <1>3, <1>5, <1>6, StepSaved DEF Exists
<1>7. ~clash' => Exact(q)'
  BY <1>1, <1>2, <1>3, <1>5, StepExact DEF CardInv
<1>8. data[p.key] # None /\ CardKept(p) /\ Attended(p) /\ ~Replaced(p)' /\ ~Replaced(p) => SavedOrDue(data[p.key])'
  <2>1. PICK i : i = data[p.key]
    OBVIOUS
  <2>2. SavedOrDue(i) => SavedOrDue(i)'
    BY <1>6
  <2> QED
    BY <2>1, <2>2, <1>2 DEF CardKept, SavedOrDue, WillSave
<1> QED
  BY <1>1, <1>2, <1>3, <1>5, <1>7, <1>8, StepKeeps

LEMMA FirstAwait ==
  ASSUME NEW p, WellNamed(p), NEW k, Regular(k, p), NEW T, k.todo \in Seq(T), k.todo # <<>>
  PROVE  /\ k.todo[1].do = "insert" => k.on = ""
         /\ k.todo[1].do = "read" => k.on # "" /\ k.on # "form"
         /\ k.todo[1].do \in {"readAll", "delete", p.new, p.load, p.gone} => k.on = "form"
         /\ k.todo[1].do = "commit" => k.on # ""
<1>1. 1 \in 1..Len(k.todo)
  BY TailOf
<1>2. k.todo[1].do \in Awaited(k.on, p)
  BY <1>1 DEF Regular
<1> QED
  BY <1>2 DEF Awaited, WellNamed

\* A handler that leaves the card or the form goes on until it has.
LEMMA GoesOnClosing ==
  ASSUME NEW p, WellNamed(p), NEW k, Regular(k, p), NEW T, k.todo \in Seq(T), k.todo # <<>>,
         k.on = "form", k.todo[1].do \in {"readAll", "commit", "delete", p.new}
  PROVE  Tail(k.todo) # <<>> /\ ~Leads(Tail(k.todo), p.home) /\ Closes(k.todo, p)
<1>1. PICK t : t = k.todo
  OBVIOUS
<1>2. Closes(t, p)
  BY <1>1, OpensLeads DEF Regular, WellNamed
<1>3. ~Leads(Tail(t), p.home)
  BY <1>1, <1>2, TailLeads DEF Closes
<1>4. Tail(t) # <<>>
  <2>1. SUFFICES ASSUME Tail(t) = <<>> PROVE FALSE
    OBVIOUS
  <2>2. Len(t) = 1
    BY <1>1, <2>1, TailOf
  <2>3. t[1].do \in {"tell", p.gone}
    BY <1>1, <1>2, <2>2 DEF Closes
  <2> QED
    BY <1>1, <2>3 DEF WellNamed
<1> QED
  BY <1>1, <1>2, <1>3, <1>4

LEMMA StaysReplaced ==
  ASSUME NEW p, NEW c \in Slot, NEW q, Becomes(c, q), q.todo # <<>>, q.on = "form",
         ~Leads(q.todo, p.home)
  PROVE  Replaced(p)'
BY DEF Replaced, Becomes

LEMMA InsertCards ==
  ASSUME NEW V, NEW D, NEW N, Dialogue(V, D, N), NEW p, WellNamed(p), CardInv(p),
         NEW c \in Slot, Insert(c)
  PROVE  CardInv(p)'
<1>1. PICK T : calls[c].todo \in Seq(T)
  BY TodoTyped
<1>2. Running(c) /\ Goes(c) /\ UNCHANGED <<data, forms, clash>>
  BY DEF Insert, At
<1>3. PICK q : /\ StepsOn(c, q) /\ Regular(q, p)
               /\ q.todo # <<>> => q.write = calls[c].write
  BY <1>2, GoesOnRegular DEF CardInv, AllRegular
<1>4. calls[c].todo[1].do = "insert"
  BY <1>1, TailOf DEF Insert, At, Running
<1>5. calls[c].todo[1].do \notin {p.load, p.new, p.gone, "read", "commit"}
  BY <1>4 DEF WellNamed
<1>6. ASSUME NEW r PROVE Exists(r) => Exists(r)' /\ rows'[r] = rows[r]
  <2>1. PICK v : rows' = Append(rows, v)
    BY DEF Insert
  <2>2. rows \in Seq(V \cup {None})
    BY DEF Dialogue
  <2>3. Exists(r) => r \in 1..Len(rows) /\ rows[r] # None
    BY DEF Exists
  <2>4. \A s \in 1..Len(rows) : s \in 1..Len(rows') /\ rows'[s] = rows[s]
    <3>1. rows' \in Seq(V \cup {None, v}) /\ rows \in Seq(V \cup {None, v})
      BY <2>1, <2>2
    <3> QED
      BY <2>1, <3>1
  <2> QED
    BY <2>3, <2>4 DEF Exists
<1>7. ASSUME NEW i, SavedOrDue(i) PROVE SavedOrDue(i)'
  BY <1>1, <1>2, <1>3, <1>5, <1>6, <1>7, StepSaved
<1>8. ~clash' => Exact(q)'
  BY <1>1, <1>2, <1>3, <1>5, StepExact DEF CardInv
<1>9. data[p.key] # None /\ CardKept(p) /\ Attended(p) /\ ~Replaced(p)' /\ ~Replaced(p) => SavedOrDue(data[p.key])'
  <2>1. PICK i : i = data[p.key]
    OBVIOUS
  <2>2. SavedOrDue(i) => SavedOrDue(i)'
    BY <1>7
  <2> QED
    BY <2>1, <2>2, <1>2 DEF CardKept, SavedOrDue, WillSave
<1> QED
  BY <1>1, <1>2, <1>3, <1>5, <1>8, <1>9, StepKeeps

LEMMA DeleteCards ==
  ASSUME NEW V, NEW D, NEW N, Dialogue(V, D, N), NEW p, WellNamed(p), CardInv(p),
         NEW c \in Slot, Delete(c)
  PROVE  CardInv(p)'
<1>1. PICK T : calls[c].todo \in Seq(T)
  BY TodoTyped
<1>2. Running(c) /\ Goes(c) /\ UNCHANGED <<data, forms, clash>> /\ calls[c].todo # <<>>
  BY DEF Delete, At, Running
<1>3. PICK q : /\ StepsOn(c, q) /\ Regular(q, p)
               /\ q.todo # <<>> => q.write = calls[c].write
  BY <1>2, GoesOnRegular DEF CardInv, AllRegular
<1>4. calls[c].todo[1].do = "delete" /\ Regular(calls[c], p)
  BY <1>1, TailOf DEF Delete, At, Running, CardInv
<1>5. calls[c].todo[1].do \notin {p.load, p.new, p.gone, "read", "commit"}
  BY <1>4 DEF WellNamed
<1>6. calls[c].on = "form"
  BY <1>1, <1>2, <1>4, FirstAwait
<1>7. q.todo # <<>> /\ q.on = "form" /\ ~Leads(q.todo, p.home)
  BY <1>1, <1>2, <1>3, <1>4, <1>6, GoesOnClosing DEF StepsOn
<1>8. Replaced(p)'
  BY <1>3, <1>7, StaysReplaced DEF StepsOn
<1>9. ~clash' => Exact(q)'
  BY <1>1, <1>2, <1>3, <1>5, StepExact DEF CardInv
<1> QED
  BY <1>1, <1>2, <1>3, <1>5, <1>8, <1>9, StepKeeps

LEMMA ReadAllCards ==
  ASSUME NEW V, NEW D, NEW N, Dialogue(V, D, N), NEW p, WellNamed(p), CardInv(p),
         NEW c \in Slot, ReadAll(c)
  PROVE  CardInv(p)'
<1>1. PICK T : calls[c].todo \in Seq(T)
  BY TodoTyped
<1>2. PICK k : k = calls[c]
  OBVIOUS
<1>3. /\ k.todo \in Seq(T) /\ k.todo # <<>> /\ Regular(k, p) /\ k.todo[1].do = "readAll"
      /\ UNCHANGED <<data, forms, clash, fsm>>
      /\ DOMAIN k = {"seen", "todo", "on", "form", "write"}
  BY <1>1, <1>2, TailOf DEF ReadAll, At, Running, CardInv, Dialogue, CallFits
<1>4. PICK W : W = {<<r, "active", FALSE>> : r \in {q \in DOMAIN rows : Exists(q) /\ rows[q].active}}
  OBVIOUS
<1>5. PICK q : q = [[k EXCEPT !.todo = Tail(k.todo)] EXCEPT !.write = W]
  OBVIOUS
<1>6. /\ q.todo = Tail(k.todo) /\ q.seen = k.seen /\ q.on = k.on /\ q.form = k.form /\ q.write = W
  BY <1>3, <1>5
<1>7. Becomes(c, q)
  <2>1. calls' = [calls EXCEPT ![c].todo = Tail(@), ![c].write = W]
    BY <1>4 DEF ReadAll
  <2>2. calls' = [calls EXCEPT ![c] = q]
    BY <2>1, <1>2, <1>5 DEF Dialogue
  <2> QED
    BY <2>2 DEF Becomes, Dialogue
<1>8. Triples(W)
  <2>1. ASSUME NEW w \in W PROVE w = <<w[1], w[2], w[3]>>
    <3>1. PICK r : w = <<r, "active", FALSE>>
      BY <1>4
    <3> QED
      BY <3>1
  <2> QED
    BY <2>1 DEF Triples
<1>9. Regular(q, p)
  BY <1>3, <1>6, <1>8, RegularTail
<1>10. k.on = "form"
  BY <1>3, FirstAwait
<1>11. q.todo # <<>> /\ ~Leads(q.todo, p.home)
  BY <1>3, <1>6, <1>10, GoesOnClosing
<1>12. Replaced(p)'
  BY <1>6, <1>7, <1>10, <1>11, StaysReplaced
<1>13. StepsOn(c, q)
  BY <1>2, <1>3, <1>6, <1>7 DEF StepsOn
<1>14. Exact(q)'
  <2>1. ~Does(q.todo, "read")
    <3>1. ASSUME NEW i \in 1..Len(q.todo) PROVE q.todo[i].do # "read"
      <4>1. q.todo[i].do \in Awaited("form", p)
        BY <1>6, <1>9, <1>10 DEF Regular
      <4> QED
        BY <4>1 DEF Awaited, WellNamed
    <3> QED
      BY <3>1 DEF Does
  <2>2. Does(q.todo, "commit") => q.form = None
    BY <1>6, <1>9, <1>10 DEF Regular
  <2> QED
    BY <2>1, <2>2 DEF Exact, Saving
<1>15. calls[c].todo[1].do \notin {p.load, p.new, p.gone}
  BY <1>2, <1>3 DEF WellNamed
<1> QED
  BY <1>1, <1>3, <1>9, <1>12, <1>13, <1>14, <1>15, StepKeeps

LEMMA EndsRegular ==
  ASSUME NEW V, NEW D, NEW N, Dialogue(V, D, N), NEW p, CardInv(p), NEW c \in Slot, Ends(c), clash'
  PROVE  CardInv(p)'
<1>1. PICK q : q = Idle
  OBVIOUS
<1>2. q.todo = <<>> /\ q.on = "" /\ q.write = {}
  BY <1>1 DEF Idle
<1>3. Becomes(c, q)
  BY <1>1 DEF Ends, Becomes, Dialogue
<1>4. Regular(q, p)
  BY <1>2, IdleRegular
<1> QED
  BY <1>3, <1>4, CardsClash

\* What a save has found to differ is what it will write.
LEMMA ReadCards ==
  ASSUME NEW V, NEW D, NEW N, Dialogue(V, D, N), NEW p, WellNamed(p), CardInv(p),
         NEW c \in Slot, Read(c)
  PROVE  CardInv(p)'
<1>1. PICK T : calls[c].todo \in Seq(T)
  BY TodoTyped
<1>2. PICK k : k = calls[c]
  OBVIOUS
<1>3. PICK o : o = forms[k.form]
  OBVIOUS
<1>4. CASE ~Exists(o.row)
  <2>1. Ends(c) /\ clash'
    BY <1>2, <1>3, <1>4 DEF Read
  <2> QED
    BY <2>1, EndsRegular
<1>5. CASE Exists(o.row)
  <2>1. /\ k.todo \in Seq(T) /\ k.todo # <<>> /\ Regular(k, p) /\ k.todo[1].do = "read"
        /\ UNCHANGED <<data, forms, rows, clash, fsm>>
        /\ DOMAIN k = {"seen", "todo", "on", "form", "write"}
    BY <1>1, <1>2, <1>3, <1>5, TailOf DEF Read, At, Running, CardInv, Dialogue, CallFits
  <2>2. PICK W : W = Changes(o, DOMAIN o.value)
    OBVIOUS
  <2>3. PICK q : q = [[k EXCEPT !.todo = Tail(k.todo)] EXCEPT !.write = W]
    OBVIOUS
  <2>4. /\ q.todo = Tail(k.todo) /\ q.seen = k.seen /\ q.on = k.on /\ q.form = k.form /\ q.write = W
    BY <2>1, <2>3
  <2>5. Becomes(c, q)
    <3>1. calls' = [calls EXCEPT ![c].todo = Tail(@), ![c].write = W]
      BY <1>2, <1>3, <1>5, <2>2 DEF Read
    <3>2. calls' = [calls EXCEPT ![c] = q]
      BY <3>1, <1>2, <2>3 DEF Dialogue
    <3> QED
      BY <3>2 DEF Becomes, Dialogue
  <2>6. \A w \in W : /\ w = <<w[1], w[2], w[3]>> /\ w[1] = o.row
                     /\ w[2] \in DOMAIN o.value /\ w[3] = Column(w[2], o.value[w[2]])
    <3> SUFFICES ASSUME NEW w \in W
                 PROVE  /\ w = <<w[1], w[2], w[3]>> /\ w[1] = o.row
                        /\ w[2] \in DOMAIN o.value /\ w[3] = Column(w[2], o.value[w[2]])
      OBVIOUS
    <3>1. PICK f \in DOMAIN o.value : w = <<o.row, f, Column(f, o.value[f])>>
      BY <2>2 DEF Changes
    <3> QED
      BY <3>1
  <2>7. Regular(q, p)
    BY <2>1, <2>4, <2>6, RegularTail DEF Triples
  <2>8. StepsOn(c, q)
    BY <1>2, <2>1, <2>4, <2>5 DEF StepsOn
  <2>9. Does(q.todo, "commit") /\ ~Does(q.todo, "read") /\ Does(k.todo, "read") /\ Does(k.todo, "commit")
    <3>1. Ordered(k.todo)
      BY <2>1 DEF Regular
    <3>2. Does(Tail(k.todo), "commit") /\ ~Does(Tail(k.todo), "read")
      BY <2>1, <3>1, TailOrdered
    <3>3. Does(k.todo, "read") /\ Does(k.todo, "commit")
      BY <2>1, <3>2, TailDoes
    <3> QED
      BY <2>4, <3>2, <3>3
  <2>10. k.on # "form" /\ k.form # None
    BY <2>1, <2>9, FirstAwait DEF Regular
  <2>11. Exact(q)'
    <3>1. o.row \in Nat
      BY <1>5 DEF Exists
    <3> QED
      BY <1>3, <2>1, <2>4, <2>6, <3>1 DEF Exact
  <2>12. ASSUME NEW i, i = data[p.key], i # None, SavedOrDue(i), Current(k, p) PROVE SavedOrDue(i)'
    <3>1. k.form = i
      BY <2>9, <2>10, <2>12 DEF Current, Saving
    <3>2. SUFFICES ASSUME NEW f \in DOMAIN forms[i].value
                   PROVE  \/ Agrees(f, forms[i].value[f], rows[forms[i].row][f])
                          \/ (WillSave(calls[c], i, f))'
      BY <2>1, <3>1, <1>3, <1>5 DEF SavedOrDue, Exists
    <3>3. SUFFICES ASSUME rows[o.row][f] # Column(f, o.value[f]) PROVE (WillSave(calls[c], i, f))'
      BY <1>3, <3>1 DEF Agrees
    <3>4. PICK w \in W : w[1] = forms[i].row /\ w[2] = f
      <4>1. <<o.row, f, Column(f, o.value[f])>> \in W
        BY <1>3, <2>2, <3>1, <3>2, <3>3 DEF Changes
      <4> QED
        BY <4>1, <1>3, <3>1
    <3> QED
      BY <2>1, <2>4, <2>5, <2>9, <3>1, <3>4 DEF WillSave, Becomes
  <2>13. ~clash' /\ data[p.key] # None /\ CardKept(p) /\ Attended(p) /\ ~Replaced(p)' /\ ~Replaced(p)
           => SavedOrDue(data[p.key])'
    <3>1. SUFFICES ASSUME ~clash, data[p.key] # None, CardKept(p), Attended(p), ~Replaced(p)
                   PROVE  SavedOrDue(data[p.key])'
      BY <2>1
    <3>2. PICK i : i = data[p.key]
      OBVIOUS
    <3>3. Current(k, p) /\ SavedOrDue(i)
      BY <1>2, <3>1, <3>2 DEF CardInv, CardKept
    <3>4. SavedOrDue(i)'
      BY <2>12, <3>1, <3>2, <3>3
    <3> QED
      BY <2>1, <3>2, <3>4 DEF SavedOrDue, WillSave
  <2>14. calls[c].todo[1].do \notin {p.load, p.new, p.gone}
    BY <1>2, <2>1 DEF WellNamed
  <2> QED
    BY <1>1, <2>1, <2>7, <2>8, <2>11, <2>13, <2>14, StepKeeps
<1> QED
  BY <1>4, <1>5

\* What is written to a field of a row.
LEMMA WrittenField ==
  ASSUME NEW r, NEW row, NEW W, NEW f \in DOMAIN row
  PROVE  \/ Written(r, row, W)[f] = row[f] /\ ~(\E w \in W : w[1] = r /\ w[2] = f)
         \/ \E w \in W : w[1] = r /\ w[2] = f /\ Written(r, row, W)[f] = w[3]
<1>1. CASE \E w \in W : w[1] = r /\ w[2] = f
  <2>1. PICK x : x = CHOOSE w \in W : w[1] = r /\ w[2] = f
    OBVIOUS
  <2>2. x \in W /\ x[1] = r /\ x[2] = f
    BY <1>1, <2>1
  <2>3. Written(r, row, W)[f] = x[3]
    BY <1>1, <2>1 DEF Written
  <2> QED
    BY <2>2, <2>3
<1>2. CASE ~(\E w \in W : w[1] = r /\ w[2] = f)
  BY <1>2 DEF Written
<1> QED
  BY <1>1, <1>2

\* The save has written what the form says.
LEMMA CommitCards ==
  ASSUME NEW V, NEW D, NEW N, Dialogue(V, D, N), None \notin V, NEW p, WellNamed(p), CardInv(p),
         \A v \in V, u \in V : DOMAIN v = DOMAIN u,
         NEW c \in Slot, Commit(c)
  PROVE  CardInv(p)'
<1>1. PICK T : calls[c].todo \in Seq(T)
  BY TodoTyped
<1>2. PICK k : k = calls[c]
  OBVIOUS
<1>3. CASE ~(\A w \in k.write : Exists(w[1]))
  <2>1. Ends(c) /\ clash'
    BY <1>2, <1>3 DEF Commit
  <2> QED
    BY <2>1, EndsRegular
<1>4. CASE \A w \in k.write : Exists(w[1])
  <2>1. /\ k.todo \in Seq(T) /\ k.todo # <<>> /\ Regular(k, p) /\ k.todo[1].do = "commit"
        /\ UNCHANGED <<data, forms, clash>> /\ Goes(c) /\ Running(c)
        /\ rows' = [r \in DOMAIN rows |-> IF rows[r] = None THEN None ELSE Written(r, rows[r], k.write)]
        /\ Fits(V, k.write)
    BY <1>1, <1>2, <1>4, TailOf DEF Commit, At, Running, CardInv, Dialogue, CallFits
  <2>2. PICK q : /\ StepsOn(c, q) /\ Regular(q, p)
                 /\ q.todo # <<>> => q.write = k.write
    BY <1>2, <2>1, GoesOnRegular DEF CardInv, AllRegular
  <2>3. ~clash' => Exact(q)'
    BY <1>1, <1>2, <2>1, <2>2, StepExact DEF CardInv
  <2>4. calls[c].todo[1].do \notin {p.load, p.new, p.gone}
    BY <1>2, <2>1 DEF WellNamed
  <2>5. CASE k.on = "form"
    <3>1. q.todo # <<>> /\ q.on = "form" /\ ~Leads(q.todo, p.home)
      BY <1>2, <2>1, <2>2, <2>5, GoesOnClosing DEF StepsOn
    <3>2. Replaced(p)'
      BY <2>2, <3>1, StaysReplaced DEF StepsOn
    <3> QED
      BY <1>1, <2>1, <2>2, <2>3, <2>4, <3>2, StepKeeps
  <2>6. CASE k.on # "form"
    <3>1. Does(k.todo, "commit") /\ ~Does(k.todo, "read") /\ k.form # None
      BY <2>1, <2>6, TailDoes, TailOrdered DEF Regular
    <3>2. ASSUME NEW i, i = data[p.key], i # None, SavedOrDue(i), Current(k, p), Exact(k)
          PROVE  SavedOrDue(i)'
      <4>1. k.form = i
        BY <3>1, <3>2 DEF Current, Saving
      <4>2. PICK r : r = forms[i].row
        OBVIOUS
      <4>3. \A w \in k.write : w[1] = r /\ w[3] = Column(w[2], forms[i].value[w[2]])
        BY <3>1, <3>2, <4>1, <4>2 DEF Exact, Saving
      <4>4. SUFFICES ASSUME r # None
                     PROVE  /\ Exists(r)'
                            /\ \A f \in DOMAIN forms[i].value :
                                 \/ Agrees(f, forms[i].value[f], rows'[r][f])
                                 \/ \E d \in Slot : (WillSave(calls[d], i, f))'
        BY <2>1, <4>2 DEF SavedOrDue
      <4>5. r \in 1..Len(rows) /\ rows[r] \in V /\ rows[r] # None /\ r \in Nat /\ DOMAIN rows = 1..Len(rows)
        BY <3>2, <4>2, <4>4 DEF SavedOrDue, Exists, Dialogue
      <4>6. rows'[r] = Written(r, rows[r], k.write)
        BY <2>1, <4>5
      <4>7. rows'[r] \in V
        BY <2>1, <4>5, <4>6 DEF Fits
      <4>8. Exists(r)'
        <5>1. Len(rows') = Len(rows)
          BY <2>1, <4>5 DEF Dialogue
        <5> QED
          BY <4>5, <4>7, <5>1 DEF Exists
      <4>9. ASSUME NEW f \in DOMAIN forms[i].value
            PROVE  \/ Agrees(f, forms[i].value[f], rows'[r][f])
                   \/ \E d \in Slot : (WillSave(calls[d], i, f))'
        <5>1. f \in DOMAIN rows[r]
          <6>1. i \in 1..Len(forms)
            BY <3>1, <1>2, <4>1 DEF Dialogue, CallFits
          <6>2. forms[i].value \in V
            <7>1. forms[i] \in Form(V)
              BY <6>1 DEF Dialogue
            <7> QED
              BY <7>1 DEF Form
          <6> QED
            BY <6>2, <4>5
        <5>2. CASE \E w \in k.write : w[1] = r /\ w[2] = f
          BY <4>3, <4>6, <5>1, <5>2, WrittenField DEF Agrees
        <5>3. CASE ~(\E w \in k.write : w[1] = r /\ w[2] = f)
          <6>1. rows'[r][f] = rows[r][f]
            BY <4>6, <5>1, <5>3, WrittenField
          <6>2. ~WillSave(k, i, f)
            BY <3>1, <4>2, <5>3 DEF WillSave
          <6>3. ASSUME NEW d \in Slot, WillSave(calls[d], i, f) PROVE (WillSave(calls[d], i, f))'
            <7>1. d # c
              BY <1>2, <6>2, <6>3
            <7>2. calls'[d] = calls[d]
              BY <2>2, <7>1 DEF StepsOn, Becomes
            <7> QED
              BY <2>1, <6>3, <7>2 DEF WillSave
          <6> QED
            BY <3>2, <4>2, <4>4, <6>1, <6>3 DEF SavedOrDue
        <5> QED
          BY <5>2, <5>3
      <4> QED
        BY <4>8, <4>9
    <3>3. ~clash' /\ data[p.key] # None /\ CardKept(p) /\ Attended(p) /\ ~Replaced(p)' /\ ~Replaced(p)
             => SavedOrDue(data[p.key])'
      <4>1. SUFFICES ASSUME ~clash, data[p.key] # None, CardKept(p), Attended(p), ~Replaced(p)
                     PROVE  SavedOrDue(data[p.key])'
        BY <2>1
      <4>2. PICK i : i = data[p.key]
        OBVIOUS
      <4>3. Current(k, p) /\ SavedOrDue(i) /\ Exact(k)
        BY <1>2, <4>1, <4>2 DEF CardInv, CardKept
      <4>4. SavedOrDue(i)'
        BY <3>2, <4>1, <4>2, <4>3
      <4> QED
        BY <2>1, <4>2, <4>4 DEF SavedOrDue, WillSave
    <3> QED
      BY <1>1, <2>1, <2>2, <2>3, <2>4, <3>3, StepKeeps
  <2> QED
    BY <2>5, <2>6
<1> QED
  BY <1>3, <1>4

LEMMA FormNotSaving ==
  ASSUME NEW p, WellNamed(p), NEW k, Regular(k, p), k.on = "form" PROVE ~Saving(k)
<1>1. ASSUME NEW i \in 1..Len(k.todo) PROVE k.todo[i].do # "read"
  <2>1. k.todo[i].do \in Awaited("form", p)
    BY DEF Regular
  <2> QED
    BY <2>1 DEF Awaited, WellNamed
<1>2. ~Does(k.todo, "read")
  BY <1>1 DEF Does
<1> QED
  BY <1>2 DEF Regular, Saving

\* A step of a handler that works on a whole form: nobody saves meanwhile.
LEMMA FormStepKeeps ==
  ASSUME NEW p, WellNamed(p), CardInv(p), NEW c \in Slot, NEW q, StepsOn(c, q),
         NEW T, calls[c].todo \in Seq(T), calls[c].on = "form", Regular(q, p),
         clash => clash', ~clash' => CardKept(p)' /\ NewKept(p)'
  PROVE  CardInv(p)'
<1>1. CASE clash'
  BY <1>1, CardsClash DEF StepsOn
<1>2. CASE ~clash'
  <2>1. Apart /\ AllRegular(p) /\ Becomes(c, q) /\ calls[c].todo # <<>>
    BY <1>2 DEF CardInv, AllRegular, StepsOn
  <2>2. AllRegular(p)'
    BY <2>1 DEF AllRegular, Becomes
  <2>3. Apart'
    <3>1. AtWork(q) => AtWork(calls[c]) /\ q.on = calls[c].on
      BY DEF AtWork, StepsOn
    <3> QED
      BY <2>1, <3>1 DEF Apart, Becomes
  <2>4. ASSUME NEW d \in Slot PROVE ~Saving(calls'[d])
    <3>1. CASE d = c
      <4>1. q.todo = <<>> => ~Saving(q)
        BY NoneLeft DEF Saving
      <4>2. q.todo # <<>> => q.on = "form"
        BY DEF StepsOn
      <4> QED
        BY <2>1, <3>1, <4>1, <4>2, FormNotSaving DEF Becomes
    <3>2. CASE d # c
      BY <2>1, <3>2, OthersRest DEF Becomes
    <3> QED
      BY <3>1, <3>2
  <2>5. ASSUME NEW d \in Slot PROVE Exact(calls[d])' /\ Current(calls[d], p)'
    BY <2>4 DEF Exact, Current, Saving
  <2> QED
    BY <1>2, <2>2, <2>3, <2>5 DEF CardInv, AllRegular
<1> QED
  BY <1>1, <1>2

\* The card of a row that was just read shows that row.
LEMMA LoadCards ==
  ASSUME NEW V, NEW D, NEW N, Dialogue(V, D, N), NEW p, WellNamed(p), CardInv(p), p.key \in Keys,
         NEW c \in Slot, Running(c), Head(calls[c].todo).do = p.load, Goes(c),
         NEW o, Exists(o.row), forms' = Append(forms, o),
         data' = [data EXCEPT ![p.key] = Len(forms) + 1], rows' = rows,
         clash' = clash, \A f \in DOMAIN o.value : Agrees(f, o.value[f], rows[o.row][f])
  PROVE  CardInv(p)'
<1>1. PICK T : calls[c].todo \in Seq(T)
  BY TodoTyped
<1>2. PICK q : /\ StepsOn(c, q) /\ Regular(q, p)
               /\ q.todo # <<>> => q.write = calls[c].write
  BY GoesOnRegular DEF CardInv, AllRegular
<1>3. calls[c].todo # <<>> /\ calls[c].todo[1].do = p.load /\ Regular(calls[c], p)
  BY <1>1, TailOf DEF Running, CardInv
<1>4. calls[c].on = "form"
  BY <1>1, <1>3, FirstAwait
<1>5. Opens(calls[c].todo, p)
  <2>1. Does(calls[c].todo, p.load)
    BY <1>1, <1>3, TailDoes
  <2> QED
    BY <1>3, <1>4, <2>1 DEF Regular, Closes
<1>6. q.todo = <<[do |-> "tell", to |-> p.home]>> /\ q.todo # <<>>
  <2>1. Tail(calls[c].todo) = <<[do |-> "tell", to |-> p.home]>>
    BY <1>3, <1>5, OpensLeads
  <2> QED
    BY <1>2, <2>1 DEF StepsOn
<1>7. PICK n : n = Len(forms) + 1
  OBVIOUS
<1>8. forms'[n] = o /\ data'[p.key] = n
  BY <1>7 DEF Dialogue
<1>9. ~clash' => CardKept(p)'
  <2>1. ~clash' => SavedOrDue(n)'
    BY <1>8 DEF SavedOrDue, Exists
  <2> QED
    BY <1>8, <2>1 DEF CardKept, SavedOrDue, WillSave
<1>10. Opened(p)'
  <2>1. Opens(q.todo, p)
    BY <1>6 DEF Opens
  <2>2. Leads(q.todo, p.home) /\ q.todo[1].do = "tell"
    BY <1>6, <2>1, OpensLeads
  <2>3. Comes(q, p.home, p.load) /\ q.on = "form"
    BY <1>2, <1>4, <1>6, <2>2 DEF Comes, WellNamed, StepsOn
  <2> QED
    BY <1>2, <2>3 DEF Opened, StepsOn, Becomes
<1>11. NewKept(p)'
  BY <1>10 DEF NewKept
<1> QED
  BY <1>1, <1>2, <1>4, <1>9, <1>11, FormStepKeeps

\* A new form takes the place of the one the card was of.
LEMMA NewCards ==
  ASSUME NEW V, NEW D, NEW N, Dialogue(V, D, N), NEW p, WellNamed(p), CardInv(p), p.key \in Keys,
         NEW c \in Slot, Running(c), Head(calls[c].todo).do = p.new, Goes(c),
         NEW o, o.row = None, forms' = Append(forms, o),
         data' = [data EXCEPT ![p.key] = Len(forms) + 1], clash' = clash
  PROVE  CardInv(p)'
<1>1. PICK T : calls[c].todo \in Seq(T)
  BY TodoTyped
<1>2. PICK q : /\ StepsOn(c, q) /\ Regular(q, p)
               /\ q.todo # <<>> => q.write = calls[c].write
  BY GoesOnRegular DEF CardInv, AllRegular
<1>3. calls[c].todo # <<>> /\ calls[c].todo[1].do = p.new /\ Regular(calls[c], p)
  BY <1>1, TailOf DEF Running, CardInv
<1>4. calls[c].on = "form"
  BY <1>1, <1>3, FirstAwait
<1>5. q.todo # <<>> /\ q.on = "form" /\ ~Leads(q.todo, p.home)
  BY <1>1, <1>2, <1>3, <1>4, GoesOnClosing DEF StepsOn
<1>6. Replaced(p)'
  BY <1>2, <1>5, StaysReplaced DEF StepsOn
<1>7. CardKept(p)'
  BY <1>6 DEF CardKept
<1>8. NewKept(p)'
  <2>1. PICK n : n = Len(forms) + 1
    OBVIOUS
  <2>2. forms'[n] = o /\ data'[p.key] = n
    BY <2>1 DEF Dialogue
  <2> QED
    BY <2>2 DEF NewKept
<1> QED
  BY <1>1, <1>2, <1>4, <1>7, <1>8, FormStepKeeps

LEMMA ForgetCards ==
  ASSUME NEW V, NEW D, NEW N, Dialogue(V, D, N), NEW p, WellNamed(p), CardInv(p), p.key \in Keys,
         NEW c \in Slot, Running(c), Head(calls[c].todo).do = p.gone, Goes(c),
         data' = [data EXCEPT ![p.key] = None], clash' = clash
  PROVE  CardInv(p)'
<1>1. PICK T : calls[c].todo \in Seq(T)
  BY TodoTyped
<1>2. PICK q : /\ StepsOn(c, q) /\ Regular(q, p)
               /\ q.todo # <<>> => q.write = calls[c].write
  BY GoesOnRegular DEF CardInv, AllRegular
<1>3. calls[c].todo # <<>> /\ calls[c].todo[1].do = p.gone /\ Regular(calls[c], p)
  BY <1>1, TailOf DEF Running, CardInv
<1>4. calls[c].on = "form"
  BY <1>1, <1>3, FirstAwait
<1>5. data'[p.key] = None
  BY DEF Dialogue
<1> QED
  BY <1>1, <1>2, <1>4, <1>5, FormStepKeeps DEF CardKept, NewKept

\* The menu is shown all the same when inactive_all fails.
LEMMA LastRegular ==
  ASSUME NEW p, WellNamed(p), NEW k, Regular(k, p), NEW T, k.todo \in Seq(T), k.todo # <<>>,
         k.form = None, k.todo[1].do \in {"readAll", "commit"},
         NEW q, q.seen = k.seen, q.todo = <<k.todo[Len(k.todo)]>>, q.on = k.on, q.form = k.form,
         q.write = k.write
  PROVE  Regular(q, p)
<1>1. PICK t : t = k.todo
  OBVIOUS
<1>2. PICK x : x = t[Len(t)]
  OBVIOUS
<1>3. Len(t) \in 1..Len(t)
  BY <1>1, TailOf
<1>4. k.on = "form"
  <2>1. k.todo[1].do = "commit" => Does(k.todo, "commit")
    BY TailDoes
  <2> QED
    BY <2>1, FirstAwait DEF Regular
<1>5. Closes(t, p)
  BY <1>1, <1>4, GoesOnClosing
<1>6. x.do \in {"tell", p.gone} /\ (x.do = "tell" => x.to # None \/ x.do = p.gone)
      /\ ~Inside(x.to, p.home) /\ x.do # p.load
  BY <1>1, <1>2, <1>3, <1>5 DEF Closes, Leads, Does
<1>7. PICK s : s = <<x>>
  OBVIOUS
<1>8. Len(s) = 1 /\ s[1] = x /\ 1..Len(s) = {1} /\ s[Len(s)] = x
  BY <1>7
<1>9. ~Does(s, "commit") /\ ~Does(s, "read") /\ ~Leads(s, p.home) /\ ~Does(s, p.load) /\ Ordered(s)
  BY <1>6, <1>8 DEF Does, Leads, Ordered, WellNamed
<1>10. Closes(s, p)
  BY <1>6, <1>8, <1>9 DEF Closes
<1>11. \A i \in 1..Len(s) : s[i].do \in Awaited(k.on, p)
  BY <1>4, <1>6, <1>8 DEF Awaited
<1> QED
  BY <1>1, <1>2, <1>4, <1>7, <1>9, <1>10, <1>11 DEF Regular

LEMMA FailCards ==
  ASSUME NEW V, NEW D, NEW N, Dialogue(V, D, N), NEW p, WellNamed(p), CardInv(p),
         NEW c \in Slot, Fail(c)
  PROVE  CardInv(p)'
<1>1. PICK T : calls[c].todo \in Seq(T)
  BY TodoTyped
<1>2. PICK k : k = calls[c]
  OBVIOUS
<1>3. /\ k.todo \in Seq(T) /\ k.todo # <<>> /\ Regular(k, p) /\ Head(k.todo) = k.todo[1] /\ clash'
      /\ DOMAIN k = {"seen", "todo", "on", "form", "write"}
  BY <1>1, <1>2, TailOf DEF Fail, Running, CardInv, Dialogue, CallFits
<1>4. CASE k.form = None /\ k.todo[1].do \in {"readAll", "commit"}
  <2>1. PICK q : q = [k EXCEPT !.todo = <<k.todo[Len(k.todo)]>>]
    OBVIOUS
  <2>2. /\ q.seen = k.seen /\ q.todo = <<k.todo[Len(k.todo)]>> /\ q.on = k.on /\ q.form = k.form
        /\ q.write = k.write
    BY <1>3, <2>1
  <2>3. Becomes(c, q)
    BY <1>2, <1>3, <1>4, <2>1 DEF Fail, At, Running, Becomes, Dialogue
  <2>4. Regular(q, p)
    BY <1>3, <1>4, <2>2, LastRegular
  <2> QED
    BY <1>3, <2>3, <2>4, CardsClash
<1>5. CASE ~(k.form = None /\ k.todo[1].do \in {"readAll", "commit"})
  <2>1. calls' = [calls EXCEPT ![c] = Idle]
    BY <1>2, <1>3, <1>5 DEF Fail, At, Running
  <2> QED
    BY <1>3, <2>1, EndsRegular DEF Ends
<1> QED
  BY <1>4, <1>5

\* A handler that starts changes a form only where it will save it or where the form is
\* no row yet, and nothing that another one is about to write.
Edits(c, q, i) ==
  /\ forms'[i].row = forms[i].row /\ DOMAIN forms'[i].value = DOMAIN forms[i].value
  /\ forms[i].row = None \/ (q.form = i /\ Does(q.todo, "read"))
  /\ \A d \in Slot \ {c} : Saving(calls[d]) /\ ~Does(calls[d].todo, "read") /\ calls[d].form = i =>
       \A w \in calls[d].write :
         w[2] \in DOMAIN forms[i].value => forms'[i].value[w[2]] = forms[i].value[w[2]]

FormsKept(c, q) == \A i \in 1..Len(forms) : forms'[i] = forms[i] \/ Edits(c, q, i)

\* It shows nothing new: a card that is due to be shown was so before.
ShowsLess(q, p) ==
  /\ Inside(fsm', p.home) \/ Comes(q, p.home, p.load) => Attended(p)
  /\ Inside(fsm', p.creating) \/ Comes(q, p.creating, p.new) => Creation(p)

StartsAs(c, q, p) ==
  /\ Becomes(c, q) /\ calls[c].todo = <<>> /\ Regular(q, p)
  /\ rows' = rows /\ data'[p.key] \in {data[p.key], None}
  /\ clash => clash'
  /\ Saving(q) => q.form = data[p.key] /\ data'[p.key] = data[p.key] /\ Does(q.todo, "read")
  /\ ~clash' => (q.todo = <<>> \/ ~Meets(q.on)) /\ ShowsLess(q, p) /\ FormsKept(c, q)

LEMMA StartKeeps ==
  ASSUME NEW V, NEW D, NEW N, Dialogue(V, D, N), NEW p, WellNamed(p), CardInv(p), p.key \in Keys,
         NEW c \in Slot, NEW q, StartsAs(c, q, p)
  PROVE  CardInv(p)'
<1>1. CASE clash'
  BY <1>1, CardsClash DEF StartsAs
<1>2. CASE ~clash'
  <2>1. /\ Apart /\ CardKept(p) /\ NewKept(p) /\ AllRegular(p) /\ Becomes(c, q) /\ calls[c].todo = <<>>
        /\ \A d \in Slot : Exact(calls[d]) /\ Current(calls[d], p)
    BY <1>2 DEF CardInv, AllRegular, StartsAs
  <2>2. AllRegular(p)'
    BY <2>1 DEF AllRegular, Becomes, StartsAs
  <2>3. ASSUME NEW d \in Slot, calls[d].todo # <<>> PROVE d # c /\ calls'[d] = calls[d]
    BY <2>1, <2>3 DEF Becomes
  <2>4. \A d \in Slot : \A s, x : Comes(calls[d], s, x) => calls'[d] = calls[d]
    BY <2>3, NoneLeft DEF Comes
  <2>5. Apart'
    <3> SUFFICES ASSUME NEW a \in Slot, NEW b \in Slot, a # b, AtWork(calls'[a]), AtWork(calls'[b])
                 PROVE  calls'[a].on # "form"
      BY DEF Apart
    <3>1. CASE a # c /\ b # c
      BY <2>1, <3>1 DEF Apart, Becomes
    <3>2. CASE a = c \/ b = c
      <4>1. PICK d \in Slot : d # c /\ AtWork(calls[d]) /\ AtWork(q) /\ {calls'[a].on, calls'[b].on} = {q.on, calls[d].on}
        BY <2>1, <3>2 DEF Becomes
      <4>2. ~Meets(q.on)
        BY <1>2, <4>1 DEF StartsAs, AtWork
      <4>3. "form" \notin {q.on, calls[d].on}
        BY <4>1, <4>2 DEF Meets, AtWork, Running
      <4> QED
        BY <4>1, <4>3
    <3> QED
      BY <3>1, <3>2
  <2>6. ShowsLess(q, p) /\ FormsKept(c, q)
    BY <1>2 DEF StartsAs
  <2>7. Attended(p)' => Attended(p)
    BY <2>1, <2>6 DEF Attended, ShowsLess, Becomes
  <2>8. Creation(p)' => Creation(p)
    BY <2>1, <2>6 DEF Creation, ShowsLess, Becomes
  <2>9. Replaced(p) => Replaced(p)'
    BY <2>3 DEF Replaced
  <2>10. Opened(p) => Opened(p)'
    BY <2>4 DEF Opened
  <2>11. PICK i : i = data[p.key]
    OBVIOUS
  <2>12. i # None => i \in 1..Len(forms)
    BY <2>11 DEF Dialogue
  <2>13. ASSUME i # None, SavedOrDue(i) PROVE SavedOrDue(i)'
    <3>1. CASE forms'[i] = forms[i]
      <4>1. ASSUME NEW d \in Slot, NEW f, WillSave(calls[d], i, f) PROVE (WillSave(calls[d], i, f))'
        <5>1. calls[d].todo # <<>>
          BY <4>1, NoneLeft DEF WillSave
        <5>2. calls'[d] = calls[d]
          BY <2>3, <5>1
        <5> QED
          BY <3>1, <4>1, <5>2 DEF WillSave
      <4> QED
        BY <2>13, <3>1, <4>1 DEF SavedOrDue, Exists, StartsAs
    <3>2. CASE Edits(c, q, i)
      <4>1. CASE forms[i].row = None
        BY <3>2, <4>1 DEF SavedOrDue, Edits
      <4>2. CASE forms[i].row # None
        <5>1. q.form = i /\ Does(q.todo, "read") /\ calls'[c] = q /\ forms'[i].row = forms[i].row
          BY <2>1, <3>2, <4>2 DEF Edits, Becomes
        <5>2. \A f : (WillSave(calls[c], i, f))'
          BY <5>1 DEF WillSave
        <5>3. Exists(forms[i].row)
          BY <2>13, <4>2 DEF SavedOrDue
        <5>4. Exists(forms[i].row)'
          BY <5>1, <5>3 DEF Exists, StartsAs
        <5> QED
          BY <5>1, <5>2, <5>4 DEF SavedOrDue
      <4> QED
        BY <4>1, <4>2
    <3> QED
      BY <2>6, <2>12, <2>13, <3>1, <3>2 DEF FormsKept
  <2>14. CardKept(p)'
    <3>1. CASE data'[p.key] = None
      BY <3>1 DEF CardKept
    <3>2. CASE data'[p.key] = i /\ i # None
      BY <2>1, <2>7, <2>9, <2>11, <2>13, <3>2 DEF CardKept, SavedOrDue, WillSave
    <3> QED
      BY <2>11, <3>1, <3>2 DEF StartsAs
  <2>15. NewKept(p)'
    <3>1. CASE data'[p.key] = None
      BY <3>1 DEF NewKept
    <3>2. CASE data'[p.key] = i /\ i # None
      <4>1. forms'[i].row = forms[i].row
        BY <2>6, <2>12, <3>2 DEF FormsKept, Edits
      <4> QED
        BY <2>1, <2>8, <2>10, <2>11, <3>2, <4>1 DEF NewKept
    <3> QED
      BY <2>11, <3>1, <3>2 DEF StartsAs
  <2>16. ASSUME NEW d \in Slot PROVE Exact(calls[d])' /\ Current(calls[d], p)'
    <3>1. CASE d = c
      <4>1. Saving(q) => q.form = data'[p.key] /\ Does(q.todo, "read")
        BY DEF StartsAs
      <4> QED
        BY <2>1, <3>1, <4>1 DEF Exact, Current, Saving, Becomes
    <3>2. CASE d # c
      <4>1. calls'[d] = calls[d]
        BY <2>1, <3>2 DEF Becomes
      <4>2. Current(calls[d], p)'
        BY <2>1, <4>1 DEF Current, Saving, StartsAs
      <4>3. PICK j : j = calls[d].form
        OBVIOUS
      <4>4. Saving(calls[d]) => j \in 1..Len(forms)
        BY <4>3 DEF Saving, Dialogue, CallFits
      <4>5. Exact(calls[d])'
        <5>1. SUFFICES ASSUME Saving(calls[d]), ~Does(calls[d].todo, "read"), NEW w \in calls[d].write
                       PROVE  /\ w[1] \in Nat /\ w[1] = forms'[j].row
                              /\ w[2] \in DOMAIN forms'[j].value
                              /\ w[3] = Column(w[2], forms'[j].value[w[2]])
          BY <4>1, <4>3 DEF Exact, Saving
        <5>2. /\ w[1] \in Nat /\ w[1] = forms[j].row
              /\ w[2] \in DOMAIN forms[j].value /\ w[3] = Column(w[2], forms[j].value[w[2]])
          BY <2>1, <4>3, <5>1 DEF Exact
        <5>3. forms'[j] = forms[j] \/ Edits(c, q, j)
          BY <2>6, <4>4, <5>1 DEF FormsKept
        <5> QED
          BY <3>2, <4>3, <5>1, <5>2, <5>3 DEF Edits
      <4> QED
        BY <4>2, <4>5
    <3> QED
      BY <3>1, <3>2
  <2> QED
    BY <2>2, <2>5, <2>14, <2>15, <2>16 DEF CardInv, AllRegular
<1> QED
  BY <1>1, <1>2

LEMMA StartedAs ==
  ASSUME NEW V, NEW D, NEW N, Dialogue(V, D, N), NEW c \in Slot, NEW on, NEW form, NEW steps,
         Started(c, on, form, steps)
  PROVE  \E q : /\ Becomes(c, q) /\ q.seen = None /\ q.todo = steps /\ q.on = on /\ q.form = form
                /\ q.write = {}
<1>1. PICK q : q = [Idle EXCEPT !.todo = steps, !.on = on, !.form = form]
  OBVIOUS
<1>2. q.seen = None /\ q.todo = steps /\ q.on = on /\ q.form = form /\ q.write = {}
  BY <1>1 DEF Idle
<1>3. Becomes(c, q)
  BY <1>1 DEF Becomes, Started, Dialogue
<1> QED
  BY <1>2, <1>3

LEMMA ArrivedIdle ==
  ASSUME NEW p, CardInv(p), NEW c \in Slot, Arrived(c) PROVE calls[c].todo = <<>>
BY DEF CardInv, Regular, Arrived

LEMMA FormsSame ==
  ASSUME NEW V, NEW D, NEW N, Dialogue(V, D, N), NEW c, NEW q,
         forms' = forms \/ \E o : forms' = Append(forms, o)
  PROVE  FormsKept(c, q)
BY DEF FormsKept, Dialogue

\* The handler works on no field.
Fieldless(on) == on = ""

\* Menus, and what ends with one.
LightSteps(s, p) ==
  /\ Ordered(s) /\ ~Leads(s, p.home) /\ ~Leads(s, p.creating)
  /\ \A i \in 1..Len(s) : s[i].do \in {"tell", "tidy", "insert"}

LEMMA LightCards ==
  ASSUME NEW V, NEW D, NEW N, Dialogue(V, D, N), NEW p, WellNamed(p), CardInv(p), p.key \in Keys,
         NEW c \in Slot, Arrived(c), NEW on, Fieldless(on), NEW form, NEW steps,
         LightSteps(steps, p), Started(c, on, form, steps),
         rows' = rows, data'[p.key] \in {data[p.key], None}, clash => clash',
         forms' = forms \/ \E o : forms' = Append(forms, o),
         ~clash' => fsm' = fsm \/ (~Inside(fsm', p.creating) /\ Inside(fsm, p.home))
  PROVE  CardInv(p)'
<1>1. PICK q : /\ Becomes(c, q) /\ q.seen = None /\ q.todo = steps /\ q.on = on /\ q.form = form
               /\ q.write = {}
  BY StartedAs
<1>2. ~Does(steps, "commit") /\ ~Does(steps, "read")
  BY DEF LightSteps, Does
<1>3. \A i \in 1..Len(steps) : steps[i].do \in Awaited(on, p)
  BY DEF LightSteps, Awaited, Fieldless
<1>4. Triples(q.write)
  BY <1>1 DEF Triples
<1>5. Regular(q, p)
  BY <1>1, <1>2, <1>3, <1>4 DEF LightSteps, Regular, Fieldless
<1>6. ~Meets(q.on)
  BY <1>1 DEF Meets, Fieldless
<1>7. ~clash' => ShowsLess(q, p)
  BY <1>1 DEF ShowsLess, Comes, LightSteps, Attended, Creation
<1>8. ~Saving(q)
  BY <1>1, <1>2 DEF Saving
<1>9. StartsAs(c, q, p)
  BY <1>1, <1>5, <1>6, <1>7, <1>8, FormsSame, ArrivedIdle DEF StartsAs
<1> QED
  BY <1>9, StartKeeps

LEMMA EndsCards ==
  ASSUME NEW V, NEW D, NEW N, Dialogue(V, D, N), NEW p, WellNamed(p), CardInv(p), p.key \in Keys,
         NEW c \in Slot, calls[c].todo = <<>>, NEW q, calls' = [calls EXCEPT ![c] = q],
         q.todo = <<>>, Fieldless(q.on), q.write = {},
         forms' = forms, rows' = rows, data' = data, fsm' = fsm, clash' = clash
  PROVE  CardInv(p)'
<1>1. Becomes(c, q)
  BY DEF Becomes, Dialogue
<1>2. Regular(q, p)
  BY IdleRegular DEF Fieldless
<1>3. ShowsLess(q, p)
  BY NoneLeft DEF ShowsLess, Comes, Attended, Creation
<1>4. ~Saving(q)
  BY NoneLeft DEF Saving
<1>5. StartsAs(c, q, p)
  BY <1>1, <1>2, <1>3, <1>4, FormsSame DEF StartsAs
<1> QED
  BY <1>5, StartKeeps

LEMMA ReceiveCards ==
  ASSUME NEW V, NEW D, NEW N, Dialogue(V, D, N), NEW p, WellNamed(p), CardInv(p), p.key \in Keys,
         NEW c \in Slot, Receive(c)
  PROVE  CardInv(p)'
<1>1. PICK q : q = [Idle EXCEPT !.seen = fsm]
  OBVIOUS
<1>2. q.todo = <<>> /\ Fieldless(q.on) /\ q.write = {} /\ calls[c].todo = <<>>
  <2>1. q.todo = <<>> /\ Fieldless(q.on) /\ q.write = {}
    BY <1>1 DEF Idle, Fieldless
  <2>2. calls[c].todo = Idle.todo
    BY DEF Receive
  <2> QED
    BY <2>1, <2>2 DEF Idle
<1>3. calls' = [calls EXCEPT ![c] = q]
  BY <1>1 DEF Receive
<1> QED
  BY <1>2, <1>3, EndsCards DEF Receive

\* Prompts, and work on a field of the form.
FieldSteps(s, form, state, p) ==
  /\ Ordered(s) /\ \A i \in 1..Len(s) : s[i].do \in {"tell", "tidy", "read", "commit"}
  /\ Leads(s, p.home) => Inside(state, p.home)
  /\ Leads(s, p.creating) => Inside(state, p.creating)
  /\ Does(s, "read") \/ Does(s, "commit") =>
       Does(s, "read") /\ form # None /\ form = data[p.key]

LEMMA FieldCards ==
  ASSUME NEW V, NEW D, NEW N, Dialogue(V, D, N), NEW p, WellNamed(p), CardInv(p), p.key \in Keys,
         NEW c \in Slot, Arrived(c), NEW on, ~Fieldless(on), on # "form", NEW form, NEW steps, NEW state,
         FieldSteps(steps, form, state, p), Started(c, on, form, steps),
         rows' = rows, data' = data, fsm' = fsm, clash' = (clash \/ Meets(on) \/ fsm # state),
         \A q : ~clash' /\ q.form = form /\ q.todo = steps => FormsKept(c, q)
  PROVE  CardInv(p)'
<1>1. PICK q : /\ Becomes(c, q) /\ q.seen = None /\ q.todo = steps /\ q.on = on /\ q.form = form
               /\ q.write = {}
  BY StartedAs
<1>2. \A i \in 1..Len(steps) : steps[i].do \in Awaited(on, p)
  BY DEF FieldSteps, Awaited, Fieldless
<1>3. Triples(q.write)
  BY <1>1 DEF Triples
<1>4. Regular(q, p)
  BY <1>1, <1>2, <1>3 DEF FieldSteps, Regular, Fieldless
<1>5. ~clash' => ShowsLess(q, p)
  BY <1>1 DEF ShowsLess, Comes, FieldSteps, Attended, Creation
<1>6. Saving(q) => q.form = data[p.key] /\ Does(q.todo, "read")
  BY <1>1 DEF Saving, FieldSteps
<1>7. StartsAs(c, q, p)
  BY <1>1, <1>4, <1>5, <1>6, ArrivedIdle DEF StartsAs
<1> QED
  BY <1>7, StartKeeps

\* Work on a whole form.
LEMMA WholeCards ==
  ASSUME NEW V, NEW D, NEW N, Dialogue(V, D, N), NEW p, WellNamed(p), CardInv(p), p.key \in Keys,
         NEW c \in Slot, Arrived(c), NEW form, NEW steps, Ordered(steps),
         \A i \in 1..Len(steps) : steps[i].do \in Awaited("form", p),
         (Opens(steps, p) /\ steps[1].do = p.load) \/ Closes(steps, p),
         Leads(steps, p.creating) => steps[1].do = p.new,
         Does(steps, "commit") => form = None,
         Started(c, "form", form, steps),
         rows' = rows, data' = data, fsm' = fsm, forms' = forms, clash => clash',
         ~clash' => ~Meets("form")
  PROVE  CardInv(p)'
<1>1. PICK q : /\ Becomes(c, q) /\ q.seen = None /\ q.todo = steps /\ q.on = "form" /\ q.form = form
               /\ q.write = {}
  BY StartedAs
<1>2. Triples(q.write)
  BY <1>1 DEF Triples
<1>3. Regular(q, p)
  BY <1>1, <1>2 DEF Regular
<1>4. ShowsLess(q, p)
  BY <1>1 DEF ShowsLess, Comes, Closes, Attended, Creation
<1>5. ~Saving(q)
  BY <1>1, <1>3, FormNotSaving
<1>6. StartsAs(c, q, p)
  BY <1>1, <1>3, <1>4, <1>5, FormsSame, ArrivedIdle DEF StartsAs
<1> QED
  BY <1>6, StartKeeps

\* Whoever starts on the field f knows that nobody is about to write what changes.
Guards(f, V, u, v) ==
  /\ DOMAIN v = DOMAIN u
  /\ \A W : Fits(V, W) =>
       \A w \in W : w[1] \in Nat /\ w[2] \in DOMAIN u /\ v[w[2]] # u[w[2]] =>
                      \E x \in W : x[2] \in SetBy(f)

LEMMA SetByGuards ==
  ASSUME NEW f, NEW V, NEW u, NEW v, DOMAIN v = DOMAIN u,
         \A g \in DOMAIN u : v[g] # u[g] => g \in SetBy(f)
  PROVE  Guards(f, V, u, v)
BY DEF Guards

LEMMA FieldFree ==
  ASSUME NEW p, CardInv(p), NEW c \in Slot, NEW f, ~Fieldless(f), ~Meets(f),
         NEW d \in Slot \ {c}, Saving(calls[d]), NEW w \in calls[d].write
  PROVE  w[2] \notin SetBy(f)
<1>1. PICK k : k = calls[d]
  OBVIOUS
<1>2. Regular(k, p) /\ Saving(k)
  BY <1>1 DEF CardInv
<1>3. k.todo # <<>>
  BY <1>2, NoneLeft DEF Saving
<1>4. ~Fieldless(k.on)
  <2>1. SUFFICES ASSUME Fieldless(k.on) PROVE FALSE
    OBVIOUS
  <2>2. \A i \in 1..Len(k.todo) : k.todo[i].do \in {"tell", "tidy", "insert"}
    BY <1>2, <2>1 DEF Regular, Awaited, Fieldless
  <2> QED
    BY <1>2, <2>2 DEF Saving, Does
<1>5. \A x \in k.write : x[Len(x) - 1] \notin SetBy(f)
  BY <1>1, <1>3, <1>4 DEF Meets, Running, Fieldless
<1>6. w = <<w[1], w[2], w[3]>>
  BY <1>1, <1>2 DEF Regular, Triples
<1>7. Len(w) - 1 = 2
  <2>1. PICK a, b, e : a = w[1] /\ b = w[2] /\ e = w[3]
    OBVIOUS
  <2>2. w = <<a, b, e>>
    BY <1>6, <2>1
  <2>3. Len(<<a, b, e>>) = 3
    OBVIOUS
  <2> QED
    BY <2>2, <2>3
<1> QED
  BY <1>1, <1>5, <1>7

LEMMA ChangedKept ==
  ASSUME NEW V, NEW D, NEW N, Dialogue(V, D, N), NEW p, CardInv(p), ~clash,
         NEW c \in Slot, NEW f, ~Fieldless(f), ~Meets(f),
         NEW i \in 1..Len(forms), NEW v, Guards(f, V, forms[i].value, v),
         forms' = [forms EXCEPT ![i].value = v], NEW q,
         forms[i].row = None \/ (q.form = i /\ Does(q.todo, "read"))
  PROVE  FormsKept(c, q)
<1>1. forms \in Seq(Form(V)) /\ forms[i] \in Form(V)
  BY DEF Dialogue
<1>2. forms'[i].row = forms[i].row /\ forms'[i].value = v
      /\ \A j \in 1..Len(forms) : j # i => forms'[j] = forms[j]
  BY <1>1 DEF Form
<1>3. ASSUME NEW d \in Slot \ {c}, Saving(calls[d]), ~Does(calls[d].todo, "read"), calls[d].form = i,
             NEW w \in calls[d].write, w[2] \in DOMAIN forms[i].value
      PROVE  v[w[2]] = forms[i].value[w[2]]
  <2>1. Exact(calls[d])
    BY DEF CardInv
  <2>2. w[1] \in Nat
    BY <1>3, <2>1 DEF Exact
  <2>3. Fits(V, calls[d].write)
    BY DEF Dialogue, CallFits
  <2>4. \A x \in calls[d].write : x[2] \notin SetBy(f)
    BY <1>3, FieldFree
  <2> QED
    BY <1>3, <2>2, <2>3, <2>4 DEF Guards
<1>4. Edits(c, q, i)
  BY <1>2, <1>3 DEF Edits, Guards
<1> QED
  BY <1>2, <1>4 DEF FormsKept

\* The row was deleted: the handler ends before it shows anything.
LEMMA MissingCards ==
  ASSUME NEW V, NEW D, NEW N, Dialogue(V, D, N), NEW p, WellNamed(p), CardInv(p),
         NEW c \in Slot, Running(c), Head(calls[c].todo).do = p.load, Ends(c),
         UNCHANGED <<fsm, data, forms, rows, clash>>
  PROVE  CardInv(p)'
<1>1. PICK T : calls[c].todo \in Seq(T)
  BY TodoTyped
<1>2. calls[c].todo # <<>> /\ calls[c].todo[1].do = p.load /\ Regular(calls[c], p)
  BY <1>1, TailOf DEF Running, CardInv
<1>3. calls[c].on = "form"
  BY <1>1, <1>2, FirstAwait
<1>4. Opens(calls[c].todo, p)
  <2>1. Does(calls[c].todo, p.load)
    BY <1>1, <1>2, TailDoes
  <2> QED
    BY <1>2, <1>3, <2>1 DEF Regular, Closes
<1>5. Leads(calls[c].todo, p.home) /\ ~Does(calls[c].todo, "read") /\ ~Does(calls[c].todo, "commit")
  BY <1>4, OpensLeads
<1>6. PICK q : q = Idle
  OBVIOUS
<1>7. Fieldless(q.on) /\ q.todo = <<>> /\ q.write = {}
  BY <1>6 DEF Idle, Fieldless
<1>8. Becomes(c, q)
  BY <1>6 DEF Ends, Becomes, Dialogue
<1>9. Regular(q, p)
  BY <1>7, IdleRegular DEF Fieldless
<1>10. ASSUME NEW s, NEW x, NEW d \in Slot, Comes(calls'[d], s, x) PROVE d # c /\ calls'[d] = calls[d]
  <2>1. d # c
    BY <1>7, <1>8, <1>10, NoneLeft DEF Comes, Becomes
  <2> QED
    BY <1>8, <2>1 DEF Becomes
<1>11. CASE clash
  BY <1>8, <1>9, <1>11, CardsClash
<1>12. CASE ~clash
  <2>1. /\ Apart /\ CardKept(p) /\ NewKept(p)
        /\ \A d \in Slot : Regular(calls[d], p) /\ Exact(calls[d]) /\ Current(calls[d], p)
    BY <1>12 DEF CardInv
  <2>2. \A d \in Slot : Regular(calls[d], p)'
    BY <2>1, <1>8, <1>9 DEF Becomes
  <2>3. Apart'
    BY <2>1, <1>7, <1>8 DEF Apart, AtWork, Becomes
  <2>4. (Attended(p)' => Attended(p)) /\ (Creation(p)' => Creation(p))
    BY <1>10 DEF Attended, Creation
  <2>5. Replaced(p) => Replaced(p)'
    <3>1. ASSUME NEW d \in Slot, calls[d].todo # <<>>, calls[d].on = "form", ~Leads(calls[d].todo, p.home)
          PROVE  calls'[d] = calls[d]
      BY <3>1, <1>5, <1>8 DEF Becomes
    <3> QED
      BY <3>1 DEF Replaced
  <2>6. Opened(p) => Opened(p)'
    <3>1. ASSUME NEW d \in Slot, Comes(calls[d], p.home, p.load) PROVE calls'[d] = calls[d]
      BY <3>1, <1>2, <1>8 DEF Becomes, Comes
    <3> QED
      BY <3>1 DEF Opened
  <2>7. ASSUME NEW i, SavedOrDue(i) PROVE SavedOrDue(i)'
    <3>1. ASSUME NEW f, NEW d \in Slot, WillSave(calls[d], i, f) PROVE WillSave(calls[d], i, f)'
      <4>1. d # c
        BY <3>1, <1>5 DEF WillSave
      <4> QED
        BY <3>1, <4>1, <1>8 DEF WillSave, Becomes
    <3> QED
      BY <2>7, <3>1 DEF SavedOrDue, Exists
  <2>8. CardKept(p)'
    <3>1. PICK i : i = data[p.key]
      OBVIOUS
    <3>2. SavedOrDue(i) => SavedOrDue(i)'
      BY <2>7
    <3>3. data' = data
      OBVIOUS
    <3> QED
      BY <2>1, <2>4, <2>5, <3>1, <3>2, <3>3 DEF CardKept, SavedOrDue, WillSave
  <2>9. NewKept(p)'
    BY <2>1, <2>4, <2>6 DEF NewKept
  <2>10. ASSUME NEW d \in Slot PROVE Exact(calls[d])' /\ Current(calls[d], p)'
    <3>1. CASE d = c
      <4>1. calls'[d].todo = <<>>
        BY <3>1, <1>7, <1>8 DEF Becomes
      <4> QED
        BY <4>1, NoneLeft DEF Exact, Current, Saving
    <3>2. CASE d # c
      BY <2>1, <3>2, <1>8 DEF Becomes, Exact, Current, Saving
    <3> QED
      BY <3>1, <3>2
  <2> QED
    BY <2>2, <2>3, <2>8, <2>9, <2>10 DEF CardInv
<1> QED
  BY <1>11, <1>12 DEF CardInv

\* Sequences that agree everywhere are the same.
LEMMA SeqSame ==
  ASSUME NEW S, NEW s \in Seq(S), NEW t \in Seq(S), Len(s) = Len(t), \A i \in 1..Len(s) : s[i] = t[i]
  PROVE  s = t
OBVIOUS

LEMMA Pairs ==
  ASSUME NEW S, NEW s \in Seq(S), NEW t \in Seq(S), Len(s) = 2, Len(t) = 2, s[1] = t[1], s[2] = t[2]
  PROVE  s = t
<1>1. \A i \in 1..2 : i = 1 \/ i = 2
  OBVIOUS
<1>2. \A i \in 1..Len(s) : s[i] = t[i]
  BY <1>1
<1> QED
  BY <1>2, SeqSame

LEMMA Threes ==
  ASSUME NEW S, NEW s \in Seq(S), NEW t \in Seq(S), Len(s) = 3, Len(t) = 3, s[1] = t[1], s[2] = t[2], s[3] = t[3]
  PROVE  s = t
<1>1. \A i \in 1..3 : i = 1 \/ i = 2 \/ i = 3
  OBVIOUS
<1>2. \A i \in 1..Len(s) : s[i] = t[i]
  BY <1>1
<1> QED
  BY <1>2, SeqSame

LEMMA Joined ==
  ASSUME NEW S, NEW s \in Seq(S), NEW t \in Seq(S)
  PROVE  /\ s \o t \in Seq(S) /\ Len(s \o t) = Len(s) + Len(t)
         /\ \A i \in 1..Len(s) : (s \o t)[i] = s[i]
         /\ \A i \in 1..Len(t) : (s \o t)[Len(s) + i] = t[i]
<1>1. s \o t \in Seq(S) /\ Len(s \o t) = Len(s) + Len(t)
  OBVIOUS
<1>2. \A i \in 1..Len(s) : (s \o t)[i] = s[i]
  OBVIOUS
<1>3. \A i \in 1..Len(t) : (s \o t)[Len(s) + i] = t[i]
  OBVIOUS
<1> QED
  BY <1>1, <1>2, <1>3

LEMMA JoinedOne ==
  ASSUME NEW S, NEW s \in Seq(S), NEW b \in S, NEW w, w = s \o <<b>>
  PROVE  /\ w \in Seq(S) /\ Len(w) = Len(s) + 1 /\ w[Len(s) + 1] = b
         /\ \A i \in 1..Len(s) : w[i] = s[i]
<1>1. PICK t : t = <<b>>
  OBVIOUS
<1>2. t \in Seq(S) /\ Len(t) = 1 /\ t[1] = b /\ 1 \in 1..Len(t)
  BY <1>1
<1>3. (s \o t)[Len(s) + 1] = t[1]
  BY <1>2, Joined
<1>4. w = s \o t
  BY <1>1
<1> QED
  BY <1>2, <1>3, <1>4, Joined

LEMMA TwoOf ==
  ASSUME NEW a, NEW b
  PROVE  <<a>> \o <<b>> = <<a, b>>
<1>1. PICK S : a \in S /\ b \in S
  <2>1. a \in {a, b} /\ b \in {a, b}
    OBVIOUS
  <2> QED
    BY <2>1
<1>2. PICK s, v : s = <<a>> /\ v = <<a, b>>
  OBVIOUS
<1>3. s \in Seq(S) /\ v \in Seq(S) /\ Len(s) = 1 /\ Len(v) = 2 /\ s[1] = a /\ v[1] = a /\ v[2] = b
  BY <1>1, <1>2
<1>4. PICK w : w = s \o <<b>>
  OBVIOUS
<1>5. w \in Seq(S) /\ Len(w) = Len(s) + 1 /\ w[Len(s) + 1] = b /\ \A i \in 1..Len(s) : w[i] = s[i]
  BY <1>1, <1>3, <1>4, JoinedOne
<1>6. Len(w) = 2 /\ w[2] = b /\ w[1] = a
  BY <1>3, <1>5
<1>7. w = v
  BY <1>3, <1>5, <1>6, Pairs
<1> QED
  BY <1>2, <1>4, <1>7

LEMMA ThreeOf ==
  ASSUME NEW a, NEW b, NEW d
  PROVE  <<a, b>> \o <<d>> = <<a, b, d>>
<1>1. PICK S : a \in S /\ b \in S /\ d \in S
  <2>1. a \in {a, b, d} /\ b \in {a, b, d} /\ d \in {a, b, d}
    OBVIOUS
  <2> QED
    BY <2>1
<1>2. PICK s, v : s = <<a, b>> /\ v = <<a, b, d>>
  OBVIOUS
<1>3. /\ s \in Seq(S) /\ v \in Seq(S) /\ Len(s) = 2 /\ Len(v) = 3 /\ s[1] = a /\ s[2] = b
      /\ v[1] = a /\ v[2] = b /\ v[3] = d
  BY <1>1, <1>2
<1>4. PICK w : w = s \o <<d>>
  OBVIOUS
<1>5. w \in Seq(S) /\ Len(w) = Len(s) + 1 /\ w[Len(s) + 1] = d /\ \A i \in 1..Len(s) : w[i] = s[i]
  BY <1>1, <1>3, <1>4, JoinedOne
<1>6. Len(w) = 3 /\ w[3] = d /\ w[1] = a /\ w[2] = b
  BY <1>3, <1>5
<1>7. w = v
  BY <1>3, <1>5, <1>6, Threes
<1> QED
  BY <1>2, <1>4, <1>7

\* The steps of s, in whatever order.
HasSteps(s, X) ==
  /\ s # <<>>
  /\ \A state : Leads(s, state) <=> \E x \in X : Inside(x.to, state)
  /\ \A what : Does(s, what) <=> \E x \in X : x.do = what
  /\ \A i \in 1..Len(s) : s[i] \in X

LEMMA StepOnly ==
  ASSUME NEW s, NEW a, s = <<a>>
  PROVE  /\ HasSteps(s, {a}) /\ s[1] = a /\ s[Len(s)] = a
         /\ a.do # "read" => Ordered(s)
<1>1. s # <<>> /\ Len(s) = 1 /\ s[1] = a /\ 1..Len(s) = {1}
  OBVIOUS
<1>2. \A i \in 1..Len(s) : i = 1 /\ (i + 1)..Len(s) = {}
  BY <1>1
<1>3. a.do # "read" => Ordered(s)
  BY <1>1, <1>2 DEF Ordered
<1> QED
  BY <1>1, <1>3 DEF Leads, Does, HasSteps

LEMMA StepsTwo ==
  ASSUME NEW s, NEW a, NEW b, s = <<a>> \o <<b>>
  PROVE  /\ HasSteps(s, {a, b}) /\ s[1] = a /\ s[Len(s)] = b /\ s = <<a, b>>
         /\ a.do \notin {"read", "commit"} /\ b.do \notin {"read", "commit"} => Ordered(s)
<1>0. s = <<a, b>>
  BY TwoOf
<1>1. s # <<>> /\ Len(s) = 2 /\ s[1] = a /\ s[2] = b /\ 1..Len(s) = {1, 2} /\ s = <<a, b>>
  <2>1. PICK t : t = <<a, b>>
    OBVIOUS
  <2>2. t # <<>> /\ Len(t) = 2 /\ t[1] = a /\ t[2] = b
    BY <2>1
  <2>3. 1..2 = {1, 2}
    OBVIOUS
  <2> QED
    BY <1>0, <2>1, <2>2, <2>3
<1>2. \A i \in 1..Len(s) : s[i] \in {a, b}
  BY <1>1
<1>3. a.do \notin {"read", "commit"} /\ b.do \notin {"read", "commit"} => Ordered(s)
  BY <1>2 DEF Ordered
<1> QED
  BY <1>1, <1>2, <1>3 DEF Leads, Does, HasSteps

LEMMA StepsThree ==
  ASSUME NEW s, NEW a, NEW b, NEW d, s = <<a, b>> \o <<d>> \/ s = <<a>> \o <<b>> \o <<d>>
  PROVE  /\ HasSteps(s, {a, b, d}) /\ s[1] = a /\ s[Len(s)] = d
         /\ a.do \in {"read", "readAll", "insert"} /\ (a.do = "read" => b.do = "commit")
            /\ b.do # "read" /\ d.do \notin {"read", "commit"} => Ordered(s)
<1>0. s = <<a, b, d>>
  <2>1. <<a>> \o <<b>> = <<a, b>>
    BY TwoOf
  <2>2. <<a, b>> \o <<d>> = <<a, b, d>>
    BY ThreeOf
  <2> QED
    BY <2>1, <2>2, Zenon
<1>1. s # <<>> /\ Len(s) = 3 /\ s[1] = a /\ s[2] = b /\ s[3] = d /\ 1..Len(s) = {1, 2, 3}
  BY <1>0
<1>2. \A i \in 1..Len(s) : s[i] \in {a, b, d}
  BY <1>1
<1>3. (2..3 = {2, 3}) /\ (3..3 = {3}) /\ (4..3 = {})
  OBVIOUS
<1>4. SUFFICES ASSUME a.do \in {"read", "readAll", "insert"}, a.do = "read" => b.do = "commit",
                      b.do # "read", d.do \notin {"read", "commit"}
               PROVE  Ordered(s)
  BY <1>1, <1>2 DEF Leads, Does, HasSteps
<1> QED
  BY <1>1, <1>3, <1>4 DEF Ordered

LEMMA FourOf ==
  ASSUME NEW a, NEW b, NEW d, NEW e, NEW s, s = <<a>> \o <<b, d>> \o <<e>>
  PROVE  s # <<>> /\ Len(s) = 4 /\ s[1] = a /\ s[2] = b /\ s[3] = d /\ s[4] = e
<1>1. PICK S : a \in S /\ b \in S /\ d \in S /\ e \in S
  <2>1. a \in {a, b, d, e} /\ b \in {a, b, d, e} /\ d \in {a, b, d, e} /\ e \in {a, b, d, e}
    OBVIOUS
  <2> QED
    BY <2>1
<1>2. PICK x \in Seq(S), y \in Seq(S) : x = <<a>> /\ y = <<b, d>>
  <2>1. <<a>> \in Seq(S) /\ <<b, d>> \in Seq(S)
    BY <1>1
  <2> QED
    BY <2>1, Zenon
<1>11. Len(x) = 1 /\ Len(y) = 2 /\ x[1] = a /\ y[1] = b /\ y[2] = d
  BY <1>2
<1>3. /\ x \o y \in Seq(S) /\ Len(x \o y) = Len(x) + Len(y)
      /\ \A i \in 1..Len(x) : (x \o y)[i] = x[i]
      /\ \A i \in 1..Len(y) : (x \o y)[Len(x) + i] = y[i]
  BY Joined
<1>4. (x \o y)[Len(x) + 1] = y[1] /\ (x \o y)[Len(x) + 2] = y[2]
  BY <1>11, <1>3
<1>5. PICK z \in Seq(S) : z = x \o y
  BY <1>3, Zenon
<1>12. Len(z) = 3 /\ z[1] = a /\ z[2] = b /\ z[3] = d
  BY <1>11, <1>3, <1>4, <1>5
<1>6. PICK w : w = z \o <<e>>
  OBVIOUS
<1>7. w \in Seq(S) /\ Len(w) = Len(z) + 1 /\ w[Len(z) + 1] = e /\ \A i \in 1..Len(z) : w[i] = z[i]
  BY <1>1, <1>6, JoinedOne
<1>8. Len(w) = 4 /\ w[1] = a /\ w[2] = b /\ w[3] = d /\ w[4] = e
  BY <1>12, <1>7
<1>9. w # <<>>
  <2>1. w = <<>> => Len(w) = 0
    OBVIOUS
  <2> QED
    BY <1>8, <2>1
<1>10. w = s
  BY <1>2, <1>5, <1>6, Zenon
<1> QED
  BY <1>8, <1>9, <1>10

LEMMA StepsFour ==
  ASSUME NEW s, NEW a, NEW b, NEW d, NEW e, s = <<a>> \o <<b, d>> \o <<e>>
  PROVE  /\ HasSteps(s, {a, b, d, e}) /\ s[1] = a /\ s[Len(s)] = e
         /\ {a.do, e.do} \cap {"read", "commit"} = {} /\ b.do = "read" /\ d.do = "commit" => Ordered(s)
<1>1. /\ s # <<>> /\ Len(s) = 4 /\ s[1] = a /\ s[2] = b /\ s[3] = d /\ s[4] = e
      /\ 1..Len(s) = {1, 2, 3, 4}
  <2>1. s # <<>> /\ Len(s) = 4 /\ s[1] = a /\ s[2] = b /\ s[3] = d /\ s[4] = e
    BY FourOf
  <2>2. 1..4 = {1, 2, 3, 4}
    OBVIOUS
  <2> QED
    BY <2>1, <2>2
<1>2. \A i \in 1..Len(s) : s[i] \in {a, b, d, e}
  BY <1>1
<1>3. (2..4 = {2, 3, 4}) /\ (3..4 = {3, 4}) /\ (4..4 = {4}) /\ (5..4 = {})
  OBVIOUS
<1>4. SUFFICES ASSUME {a.do, e.do} \cap {"read", "commit"} = {}, b.do = "read", d.do = "commit",
                      NEW i \in 1..Len(s)
               PROVE  /\ s[i].do = "read" => i < Len(s) /\ s[i + 1].do = "commit"
                      /\ s[i].do \in {"read", "commit"} => \A j \in (i + 1)..Len(s) : s[j].do # "read"
                      /\ s[i].do = "commit" => \A j \in (i + 1)..Len(s) : s[j].do # "commit"
  BY <1>1, <1>2 DEF Leads, Does, Ordered, HasSteps
<1>5. a.do \notin {"read", "commit"} /\ e.do \notin {"read", "commit"}
  BY <1>4
<1>6. i = 1 \/ i = 2 \/ i = 3 \/ i = 4
  BY <1>1
<1>7. \A j \in 3..4 : s[j] \in {d, e}
  BY <1>1, <1>3
<1>8. \A j \in 4..4 : s[j] = e
  BY <1>1, <1>3
<1>9. CASE i \in {1, 4}
  BY <1>1, <1>5, <1>9
<1>10. CASE i = 2
  <2>1. s[2].do = "read" /\ i + 1 = 3 /\ s[3].do = "commit" /\ 2 < Len(s)
    BY <1>1, <1>4, <1>10
  <2>2. \A j \in (i + 1)..Len(s) : s[j].do # "read"
    BY <1>1, <1>4, <1>5, <1>7, <2>1
  <2> QED
    BY <1>10, <2>1, <2>2
<1>11. CASE i = 3
  <2>1. s[3].do = "commit" /\ i + 1 = 4
    BY <1>1, <1>4, <1>11
  <2>2. \A j \in (i + 1)..Len(s) : s[j].do \notin {"read", "commit"}
    BY <1>1, <1>5, <1>8, <2>1
  <2> QED
    BY <1>11, <2>1, <2>2
<1> QED
  BY <1>6, <1>9, <1>10, <1>11

\* The states of a part are told apart by their second word.
LEMMA InsideTwo ==
  ASSUME NEW a, NEW b, NEW x, NEW y, NEW f
  PROVE  /\ Inside(<<a, b>>, <<x, y>>) <=> <<a, b>> # None /\ a = x /\ b = y
         /\ Inside(Append(<<a, b>>, f), <<x, y>>) <=> Append(<<a, b>>, f) # None /\ a = x /\ b = y
         /\ ~Inside(<<a, b>>, <<>>) /\ ~Inside(Append(<<a, b>>, f), <<>>) /\ ~Inside(None, <<x, y>>)
         /\ ~Inside(None, <<>>)
<1>1. PICK S : a \in S /\ b \in S /\ f \in S
  <2>1. a \in {a, b, f} /\ b \in {a, b, f} /\ f \in {a, b, f}
    OBVIOUS
  <2> QED
    BY <2>1
<1>2. PICK s \in Seq(S) : s = <<a, b>>
  <2>1. <<a, b>> \in Seq(S)
    BY <1>1
  <2> QED
    BY <2>1, Zenon
<1>3. s \in Seq(S) /\ Len(s) = 2 /\ s[1] = a /\ s[2] = b
  BY <1>2
<1>4. PICK u : u = Append(s, f)
  OBVIOUS
<1>5. u \in Seq(S) /\ Len(u) = 3 /\ u[1] = a /\ u[2] = b
  BY <1>1, <1>2, <1>4
<1>6. ASSUME NEW t \in Seq(S), Len(t) \in {2, 3}, t[1] = a, t[2] = b PROVE SubSeq(t, 1, 2) = s
  <2>1. PICK w : w = SubSeq(t, 1, 2)
    OBVIOUS
  <2>2. w \in Seq(S) /\ Len(w) = 2 /\ w[1] = a /\ w[2] = b
    BY <1>6, <2>1
  <2> QED
    BY <1>3, <2>1, <2>2, Pairs
<1>7. SubSeq(s, 1, 2) = s /\ SubSeq(u, 1, 2) = s /\ Len(s) > 1 /\ Len(u) > 1
  BY <1>3, <1>5, <1>6
<1>8. s = <<x, y>> <=> a = x /\ b = y
  BY <1>2
<1>9. s # <<>>
  BY <1>3
<1> QED
  BY <1>2, <1>4, <1>7, <1>8, <1>9 DEF Inside

-----------------------------------------------------------------------------
(***************************************************************************)
(* The cards of the copy trades.                                           *)
(***************************************************************************)
LEMMA CopyStates ==
  /\ CopyTrade!Editing # None /\ CopyTrade!Creating # None /\ CopyTrade!Menu # None
  /\ Inside(CopyTrade!Editing, CopyTrade!Editing) /\ ~Inside(CopyTrade!Editing, CopyTrade!Creating)
  /\ Inside(CopyTrade!Creating, CopyTrade!Creating) /\ ~Inside(CopyTrade!Creating, CopyTrade!Editing)
  /\ ~Inside(CopyTrade!Menu, CopyTrade!Editing) /\ ~Inside(CopyTrade!Menu, CopyTrade!Creating)
  /\ ~Inside(None, CopyTrade!Editing) /\ ~Inside(None, CopyTrade!Creating)
  /\ \A f : /\ ~Inside(Append(CopyTrade!Editing, f), CopyTrade!Creating)
            /\ ~Inside(Append(CopyTrade!Creating, f), CopyTrade!Editing)
            /\ Append(CopyTrade!Editing, f) # None => Inside(Append(CopyTrade!Editing, f), CopyTrade!Editing)
            /\ Append(CopyTrade!Creating, f) # None => Inside(Append(CopyTrade!Creating, f), CopyTrade!Creating)
<1>1. CopyTrade!Editing # None /\ CopyTrade!Creating # None /\ CopyTrade!Menu # None
  BY BotAssumption
<1> QED
  BY <1>1, InsideTwo DEF CopyTrade!Editing, CopyTrade!Creating, CopyTrade!Menu

LEMMA CopyNamed ==
  /\ CopyCards.key = "copytrade_settings" /\ CopyCards.home = CopyTrade!Editing
  /\ CopyCards.creating = CopyTrade!Creating /\ CopyCards.load = "loadCopytrade"
  /\ CopyCards.new = "newCopytrade" /\ CopyCards.gone = "deletedCopytrade"
  /\ CopyCards.key \in Keys /\ WellNamed(CopyCards)
<1>1. /\ CopyCards.key = "copytrade_settings" /\ CopyCards.home = CopyTrade!Editing
      /\ CopyCards.creating = CopyTrade!Creating /\ CopyCards.load = "loadCopytrade"
      /\ CopyCards.new = "newCopytrade" /\ CopyCards.gone = "deletedCopytrade"
  BY DEF CopyCards
<1>2. WellNamed(CopyCards)
  BY <1>1, CopyStates DEF WellNamed
<1> QED
  BY <1>1, <1>2 DEF Keys

LEMMA CopyMenus ==
  /\ LightSteps(CopyTrade!ShowMenu, CopyCards) /\ LightSteps(CopyTrade!Tell(None), CopyCards)
  /\ LightSteps(CopyTrade!Tidy, CopyCards)
  /\ LightSteps(CopyTrade!Await("insert") \o CopyTrade!ShowMenu, CopyCards)
<1>1. PICK m, n, i : /\ m = [do |-> "tell", to |-> CopyTrade!Menu] /\ n = [do |-> "tell", to |-> None]
                     /\ i = [do |-> "insert", to |-> None]
  OBVIOUS
<1>2. /\ m.do = "tell" /\ m.to = CopyTrade!Menu /\ n.do = "tell" /\ n.to = None
      /\ i.do = "insert" /\ i.to = None
  BY <1>1
<1>3. /\ CopyTrade!ShowMenu = <<m>> /\ CopyTrade!Tell(None) = <<n>> /\ CopyTrade!Tidy = <<n>>
      /\ CopyTrade!Await("insert") = <<i>>
  BY <1>1 DEF CopyTrade!ShowMenu, CopyTrade!Tell, CopyTrade!Tidy, CopyTrade!Await
<1>4. LightSteps(<<m>>, CopyCards)
  BY <1>2, StepOnly, CopyStates, CopyNamed DEF LightSteps, HasSteps
<1>5. LightSteps(<<n>>, CopyCards)
  BY <1>2, StepOnly, CopyStates, CopyNamed DEF LightSteps, HasSteps
<1>6. LightSteps(<<i>> \o <<m>>, CopyCards)
  <2>1. PICK s : s = <<i>> \o <<m>>
    OBVIOUS
  <2>2. HasSteps(s, {i, m}) /\ (i.do \notin {"read", "commit"} /\ m.do \notin {"read", "commit"} => Ordered(s))
    BY <2>1, StepsTwo
  <2>3. Ordered(s)
    BY <1>2, <2>2
  <2> QED
    BY <1>2, <2>1, <2>2, <2>3, CopyStates, CopyNamed DEF LightSteps, HasSteps
<1> QED
  BY <1>3, <1>4, <1>5, <1>6

LEMMA CopyWholes ==
  /\ LET s == CopyTrade!Await("readAll") \o CopyTrade!Await("commit") \o CopyTrade!ShowMenu
     IN /\ Ordered(s) /\ Closes(s, CopyCards) /\ ~Leads(s, CopyTrade!Creating)
        /\ \A i \in 1..Len(s) : s[i].do \in Awaited("form", CopyCards)
  /\ LET s == CopyTrade!Await("newCopytrade") \o CopyTrade!Tell(CopyTrade!Creating)
     IN /\ Ordered(s) /\ Closes(s, CopyCards) /\ s[1].do = CopyCards.new /\ ~Does(s, "commit")
        /\ \A i \in 1..Len(s) : s[i].do \in Awaited("form", CopyCards)
  /\ LET s == CopyTrade!Await("loadCopytrade") \o CopyTrade!Tell(CopyTrade!Editing)
     IN /\ Ordered(s) /\ Opens(s, CopyCards) /\ s[1].do = CopyCards.load /\ ~Does(s, "commit")
        /\ ~Leads(s, CopyTrade!Creating)
        /\ \A i \in 1..Len(s) : s[i].do \in Awaited("form", CopyCards)
  /\ LET s == CopyTrade!Await("delete") \o CopyTrade!Await("deletedCopytrade")
     IN /\ Ordered(s) /\ Closes(s, CopyCards) /\ ~Leads(s, CopyTrade!Creating) /\ ~Does(s, "commit")
        /\ \A i \in 1..Len(s) : s[i].do \in Awaited("form", CopyCards)
<1>1. PICK r, k, m, n, a, l, e, d, g :
        /\ r = [do |-> "readAll", to |-> None] /\ k = [do |-> "commit", to |-> None]
        /\ m = [do |-> "tell", to |-> CopyTrade!Menu]
        /\ n = [do |-> "newCopytrade", to |-> None] /\ a = [do |-> "tell", to |-> CopyTrade!Creating]
        /\ l = [do |-> "loadCopytrade", to |-> None] /\ e = [do |-> "tell", to |-> CopyTrade!Editing]
        /\ d = [do |-> "delete", to |-> None] /\ g = [do |-> "deletedCopytrade", to |-> None]
  OBVIOUS
<1>2. /\ r.do = "readAll" /\ r.to = None /\ k.do = "commit" /\ k.to = None
      /\ m.do = "tell" /\ m.to = CopyTrade!Menu /\ n.do = "newCopytrade" /\ n.to = None
      /\ a.do = "tell" /\ a.to = CopyTrade!Creating /\ l.do = "loadCopytrade" /\ l.to = None
      /\ e.do = "tell" /\ e.to = CopyTrade!Editing /\ d.do = "delete" /\ d.to = None
      /\ g.do = "deletedCopytrade" /\ g.to = None
  BY <1>1
<1>3. /\ CopyTrade!Await("readAll") = <<r>> /\ CopyTrade!Await("commit") = <<k>> /\ CopyTrade!ShowMenu = <<m>>
      /\ CopyTrade!Await("newCopytrade") = <<n>> /\ CopyTrade!Tell(CopyTrade!Creating) = <<a>>
      /\ CopyTrade!Await("loadCopytrade") = <<l>> /\ CopyTrade!Tell(CopyTrade!Editing) = <<e>>
      /\ CopyTrade!Await("delete") = <<d>> /\ CopyTrade!Await("deletedCopytrade") = <<g>>
  BY <1>1 DEF CopyTrade!ShowMenu, CopyTrade!Tell, CopyTrade!Await
<1>4. \A x : x \in {"tell", "readAll", "commit", "delete", "newCopytrade", "loadCopytrade", "deletedCopytrade"}
               => x \in Awaited("form", CopyCards)
  BY CopyNamed DEF Awaited
<1>5. PICK s : s = <<r>> \o <<k>> \o <<m>>
  OBVIOUS
<1>6. /\ Ordered(s) /\ Closes(s, CopyCards) /\ ~Leads(s, CopyTrade!Creating)
      /\ \A i \in 1..Len(s) : s[i].do \in Awaited("form", CopyCards)
  <2>3. s[Len(s)] = m
    BY <1>5, StepsThree
  <2>5. s = <<r>> \o <<k>> \o <<m>> => HasSteps(s, {r, k, m})
    BY StepsThree, Zenon
  <2>4. HasSteps(s, {r, k, m})
    BY <1>5, <2>5
  <2>0. r.do \in {"read", "readAll", "insert"} /\ (r.do = "read" => k.do = "commit")
          /\ k.do # "read" /\ m.do \notin {"read", "commit"} => Ordered(s)
    BY <1>5, StepsThree
  <2>1. HasSteps(s, {r, k, m}) /\ s[Len(s)] = m /\ Ordered(s)
    BY <1>2, <2>0, <2>3, <2>4
  <2>2. Closes(s, CopyCards)
    BY <1>2, <2>1, CopyStates, CopyNamed DEF Closes, HasSteps
  <2> QED
    BY <1>2, <1>4, <2>1, <2>2, CopyStates DEF HasSteps
<1>7. PICK t : t = <<n>> \o <<a>>
  OBVIOUS
<1>8. /\ Ordered(t) /\ Closes(t, CopyCards) /\ t[1].do = CopyCards.new /\ ~Does(t, "commit")
      /\ \A i \in 1..Len(t) : t[i].do \in Awaited("form", CopyCards)
  <2>3. t[1] = n /\ t[Len(t)] = a
    BY <1>7, StepsTwo
  <2>0. /\ HasSteps(t, {n, a})
        /\ n.do \notin {"read", "commit"} /\ a.do \notin {"read", "commit"} => Ordered(t)
    BY <1>7, StepsTwo
  <2>1. HasSteps(t, {n, a}) /\ t[1] = n /\ t[Len(t)] = a /\ Ordered(t)
    BY <1>2, <2>0, <2>3
  <2>2. Closes(t, CopyCards)
    BY <1>2, <2>1, CopyStates, CopyNamed DEF Closes, HasSteps
  <2> QED
    BY <1>2, <1>4, <2>1, <2>2, CopyNamed DEF HasSteps
<1>9. PICK u : u = <<l>> \o <<e>>
  OBVIOUS
<1>10. /\ Ordered(u) /\ Opens(u, CopyCards) /\ u[1].do = CopyCards.load /\ ~Does(u, "commit")
       /\ ~Leads(u, CopyTrade!Creating)
       /\ \A i \in 1..Len(u) : u[i].do \in Awaited("form", CopyCards)
  <2>1. Opens(u, CopyCards)
    BY <1>1, <1>9, TwoOf, CopyNamed DEF Opens
  <2>3. u[1] = l
    BY <1>9, StepsTwo
  <2>0. /\ HasSteps(u, {l, e})
        /\ l.do \notin {"read", "commit"} /\ e.do \notin {"read", "commit"} => Ordered(u)
    BY <1>9, StepsTwo
  <2>2. HasSteps(u, {l, e}) /\ u[1] = l /\ Ordered(u)
    BY <1>2, <2>0, <2>3
  <2> QED
    BY <1>2, <1>4, <2>1, <2>2, CopyStates, CopyNamed DEF HasSteps
<1>11. PICK v : v = <<d>> \o <<g>>
  OBVIOUS
<1>12. /\ Ordered(v) /\ Closes(v, CopyCards) /\ ~Leads(v, CopyTrade!Creating) /\ ~Does(v, "commit")
       /\ \A i \in 1..Len(v) : v[i].do \in Awaited("form", CopyCards)
  <2>3. v[Len(v)] = g
    BY <1>11, StepsTwo
  <2>0. /\ HasSteps(v, {d, g})
        /\ d.do \notin {"read", "commit"} /\ g.do \notin {"read", "commit"} => Ordered(v)
    BY <1>11, StepsTwo
  <2>1. HasSteps(v, {d, g}) /\ v[Len(v)] = g /\ Ordered(v)
    BY <1>2, <2>0, <2>3
  <2>2. Closes(v, CopyCards)
    BY <1>2, <2>1, CopyStates, CopyNamed DEF Closes, HasSteps
  <2> QED
    BY <1>2, <1>4, <2>1, <2>2, CopyStates DEF HasSteps
<1> QED
  BY <1>3, <1>5, <1>6, <1>7, <1>8, <1>9, <1>10, <1>11, <1>12

-----------------------------------------------------------------------------
(***************************************************************************)
(* What a handler that works on a field awaits.                            *)
(***************************************************************************)
LEMMA InsideNone ==
  ASSUME NEW state PROVE ~Inside(None, state)
BY DEF Inside

LEMMA StepsField ==
  ASSUME NEW s, NEW X, HasSteps(s, X), Ordered(s), NEW p, NEW form, NEW state,
         \A x \in X : /\ x.do \in {"tell", "tidy", "read", "commit"}
                      /\ Inside(x.to, p.home) => Inside(state, p.home)
                      /\ Inside(x.to, p.creating) => Inside(state, p.creating),
         (\A x \in X : x.do \notin {"read", "commit"})
           \/ ((\E x \in X : x.do = "read") /\ form # None /\ form = data[p.key])
  PROVE  FieldSteps(s, form, state, p)
<1>1. \A i \in 1..Len(s) : s[i].do \in {"tell", "tidy", "read", "commit"}
  BY DEF HasSteps
<1>2. Leads(s, p.home) => Inside(state, p.home)
  BY DEF HasSteps
<1>3. Leads(s, p.creating) => Inside(state, p.creating)
  BY DEF HasSteps
<1>4. Does(s, "read") \/ Does(s, "commit") => Does(s, "read") /\ form # None /\ form = data[p.key]
  BY DEF HasSteps
<1> QED
  BY <1>1, <1>2, <1>3, <1>4 DEF FieldSteps

LEMMA TellField ==
  ASSUME NEW p, NEW to, NEW state, NEW form, Inside(to, p.home) => Inside(state, p.home),
         Inside(to, p.creating) => Inside(state, p.creating)
  PROVE  FieldSteps(Tell(to), form, state, p)
<1>1. PICK a : a = [do |-> "tell", to |-> to]
  OBVIOUS
<1>2. a.do = "tell" /\ a.to = to
  BY <1>1
<1>3. PICK s : s = <<a>>
  OBVIOUS
<1>4. HasSteps(s, {a}) /\ (a.do # "read" => Ordered(s))
  BY <1>3, StepOnly
<1>5. Ordered(s)
  BY <1>2, <1>4
<1>6. FieldSteps(s, form, state, p)
  BY <1>2, <1>4, <1>5, StepsField
<1> QED
  BY <1>1, <1>3, <1>6 DEF Tell

LEMMA TidyField ==
  ASSUME NEW p, NEW to, NEW state, NEW form, Inside(to, p.home) => Inside(state, p.home),
         Inside(to, p.creating) => Inside(state, p.creating)
  PROVE  FieldSteps(TidyQuietly \o Tell(to), form, state, p)
<1>1. PICK a, b : a = [do |-> "tidy", to |-> None] /\ b = [do |-> "tell", to |-> to]
  OBVIOUS
<1>2. a.do = "tidy" /\ a.to = None /\ b.do = "tell" /\ b.to = to
  BY <1>1
<1>3. PICK s : s = <<a>> \o <<b>>
  OBVIOUS
<1>4. /\ HasSteps(s, {a, b})
      /\ a.do \notin {"read", "commit"} /\ b.do \notin {"read", "commit"} => Ordered(s)
  BY <1>3, StepsTwo
<1>5. Ordered(s)
  BY <1>2, <1>4
<1>6. FieldSteps(s, form, state, p)
  BY <1>2, <1>4, <1>5, StepsField, InsideNone
<1> QED
  BY <1>1, <1>3, <1>6 DEF Tell, TidyQuietly

LEMMA SaveField ==
  ASSUME NEW p, NEW to, NEW state, NEW form, Inside(to, p.home) => Inside(state, p.home),
         Inside(to, p.creating) => Inside(state, p.creating), form # None, form = data[p.key]
  PROVE  FieldSteps(Save \o Tell(to), form, state, p)
<1>1. PICK a, b, d : /\ a = [do |-> "read", to |-> None] /\ b = [do |-> "commit", to |-> None]
                     /\ d = [do |-> "tell", to |-> to]
  OBVIOUS
<1>2. a.do = "read" /\ a.to = None /\ b.do = "commit" /\ b.to = None /\ d.do = "tell" /\ d.to = to
  BY <1>1
<1>3. PICK s : s = <<a, b>> \o <<d>>
  OBVIOUS
<1>4. HasSteps(s, {a, b, d})
  <2>1. s = <<a, b>> \o <<d>> => HasSteps(s, {a, b, d})
    BY StepsThree, Zenon
  <2> QED
    BY <1>3, <2>1
<1>5. Ordered(s)
  <2>1. a.do \in {"read", "readAll", "insert"} /\ (a.do = "read" => b.do = "commit")
          /\ b.do # "read" /\ d.do \notin {"read", "commit"} => Ordered(s)
    BY <1>3, StepsThree
  <2> QED
    BY <1>2, <2>1
<1>6. FieldSteps(s, form, state, p)
  BY <1>2, <1>4, <1>5, StepsField, InsideNone
<1> QED
  BY <1>1, <1>3, <1>6 DEF Tell, Save

LEMMA TidySaveField ==
  ASSUME NEW p, NEW first, first \in {"tell", "tidy"}, NEW to, NEW state, NEW form,
         Inside(to, p.home) => Inside(state, p.home),
         Inside(to, p.creating) => Inside(state, p.creating), form # None, form = data[p.key]
  PROVE  FieldSteps(<<[do |-> first, to |-> None]>> \o Save \o Tell(to), form, state, p)
<1>1. PICK a, b, d, e :
        /\ a = [do |-> first, to |-> None] /\ b = [do |-> "read", to |-> None]
        /\ d = [do |-> "commit", to |-> None] /\ e = [do |-> "tell", to |-> to]
  OBVIOUS
<1>2. /\ a.do = first /\ a.to = None /\ b.do = "read" /\ b.to = None /\ d.do = "commit" /\ d.to = None
      /\ e.do = "tell" /\ e.to = to
  BY <1>1
<1>3. PICK s : s = <<a>> \o <<b, d>> \o <<e>>
  OBVIOUS
<1>4. HasSteps(s, {a, b, d, e})
  <2>1. s = <<a>> \o <<b, d>> \o <<e>> => HasSteps(s, {a, b, d, e})
    BY StepsFour, Zenon
  <2> QED
    BY <1>3, <2>1
<1>5. Ordered(s)
  <2>1. {a.do, e.do} \cap {"read", "commit"} = {} /\ b.do = "read" /\ d.do = "commit" => Ordered(s)
    BY <1>3, StepsFour
  <2> QED
    BY <1>2, <2>1
<1>6. FieldSteps(s, form, state, p)
  BY <1>2, <1>4, <1>5, StepsField, InsideNone
<1> QED
  BY <1>1, <1>3, <1>6 DEF Tell, Save

-----------------------------------------------------------------------------
(***************************************************************************)
(* Who changes a copy trade knows that nobody is about to write the same.  *)
(***************************************************************************)
\* Who writes that a position is held writes that sales are not followed.
LEMMA TwinWritten ==
  ASSUME NEW W, Fits(CopyValue, W), NEW w \in W, w[1] \in Nat, w[2] = "noSell"
  PROVE  \E x \in W : x[2] = "follow"
<1>1. SUFFICES ASSUME ~(\E x \in W : x[2] = "follow") PROVE FALSE
  OBVIOUS
<1>2. PICK a \in CopyValue, b \in CopyValue : a["follow"] = TRUE /\ b["follow"] = FALSE
  <2>1. CopyTrade!NewForm \in CopyValue /\ CopyTrade!Hold(CopyTrade!NewForm) \in CopyValue
    BY CopyNewForm, CopyChanges
  <2>2. CopyTrade!NewForm["follow"] = TRUE /\ CopyTrade!Hold(CopyTrade!NewForm)["follow"] = FALSE
    BY DEF CopyTrade!NewForm, CopyTrade!Hold
  <2> QED
    BY <2>1, <2>2
<1>3. PICK r : r = w[1]
  OBVIOUS
<1>4. "follow" \in CopyField /\ "noSell" \in CopyField
  BY DEF CopyField
<1>5. PICK e : e = (CHOOSE z \in W : z[1] = r /\ z[2] = "noSell")[3]
  OBVIOUS
<1>6. ASSUME NEW y \in CopyValue
      PROVE  /\ Written(r, y, W) \in CopyValue
             /\ Written(r, y, W)["follow"] = y["follow"] /\ Written(r, y, W)["noSell"] = e
  <2>1. Written(r, y, W) \in CopyValue
    BY <1>3 DEF Fits
  <2>2. DOMAIN y = CopyField
    BY CopyValueFields
  <2>3. Written(r, y, W)["follow"] = y["follow"]
    BY <1>1, <1>4, <2>2 DEF Written
  <2>4. Written(r, y, W)["noSell"] = e
    BY <1>3, <1>4, <1>5, <2>2 DEF Written
  <2> QED
    BY <2>1, <2>3, <2>4
<1>7. e <=> FALSE
  BY <1>2, <1>6, CopyValueFields
<1>8. e <=> TRUE
  BY <1>2, <1>6, CopyValueFields
<1> QED
  BY <1>7, <1>8

LEMMA ModeGuards ==
  ASSUME NEW u, NEW v, DOMAIN v = DOMAIN u,
         \A g \in DOMAIN u : v[g] # u[g] => g \in {"follow", "noSell"}
  PROVE  Guards("follow", CopyValue, u, v)
<1>1. SUFFICES ASSUME NEW W, Fits(CopyValue, W), NEW w \in W, w[1] \in Nat, w[2] \in DOMAIN u,
                      v[w[2]] # u[w[2]]
               PROVE  \E x \in W : x[2] = "follow"
  <2>1. \A x : x \in SetBy("follow") <=> x = "follow"
    BY DEF SetBy
  <2> QED
    BY <2>1 DEF Guards
<1>2. w[2] = "follow" \/ w[2] = "noSell"
  BY <1>1
<1> QED
  BY <1>1, <1>2, TwinWritten

LEMMA CopyGuards ==
  ASSUME NEW u \in CopyValue
  PROVE  /\ \A f \in CopyField \ CopyFlag : \A n :
              /\ Guards(f, CopyValue, u, [u EXCEPT ![f] = n])
              /\ f = "slippage" => Guards(f, CopyValue, u, CopyTrade!OwnSlippage([u EXCEPT ![f] = n]))
         /\ Guards("follow", CopyValue, u, CopyTrade!Follow(u))
         /\ Guards("follow", CopyValue, u, CopyTrade!Hold(u))
         /\ Guards("sandwich", CopyValue, u, CopyTrade!FlipSandwich(u))
         /\ Guards("slippage", CopyValue, u, CopyTrade!FlipSlippage(u))
         /\ Guards("active", CopyValue, u, CopyTrade!FlipActive(u))
<1>1. \A f : f \in SetBy(f)
  BY DEF SetBy
<1>2. "autoSlippage" \in SetBy("slippage")
  BY DEF SetBy
<1>3. DOMAIN u = CopyField
  BY CopyValueFields
<1>4. ASSUME NEW f \in CopyField \ CopyFlag, NEW n
      PROVE  /\ Guards(f, CopyValue, u, [u EXCEPT ![f] = n])
             /\ f = "slippage" => Guards(f, CopyValue, u, CopyTrade!OwnSlippage([u EXCEPT ![f] = n]))
  <2>1. PICK v : v = [u EXCEPT ![f] = n]
    OBVIOUS
  <2>2. PICK x : x = CopyTrade!OwnSlippage(v)
    OBVIOUS
  <2>3. DOMAIN v = DOMAIN u /\ \A g \in DOMAIN u : g # f => v[g] = u[g]
    BY <2>1
  <2>4. DOMAIN x = DOMAIN v /\ \A g \in DOMAIN v : g # "autoSlippage" => x[g] = v[g]
    BY <2>2 DEF CopyTrade!OwnSlippage
  <2>5. Guards(f, CopyValue, u, v)
    BY <1>1, <2>3, SetByGuards
  <2>6. ASSUME f = "slippage" PROVE Guards(f, CopyValue, u, x)
    BY <1>1, <1>2, <2>3, <2>4, <2>6, SetByGuards
  <2> QED
    BY <2>1, <2>2, <2>5, <2>6
<1>5. Guards("follow", CopyValue, u, CopyTrade!Follow(u)) /\ Guards("follow", CopyValue, u, CopyTrade!Hold(u))
  <2>1. PICK v, x : v = CopyTrade!Follow(u) /\ x = CopyTrade!Hold(u)
    OBVIOUS
  <2>2. /\ DOMAIN v = DOMAIN u /\ \A g \in DOMAIN u : g # "follow" /\ g # "noSell" => v[g] = u[g]
        /\ DOMAIN x = DOMAIN u /\ \A g \in DOMAIN u : g # "follow" /\ g # "noSell" => x[g] = u[g]
    BY <2>1 DEF CopyTrade!Follow, CopyTrade!Hold
  <2>3. Guards("follow", CopyValue, u, v) /\ Guards("follow", CopyValue, u, x)
    BY <2>2, ModeGuards
  <2> QED
    BY <2>1, <2>3
<1>6. ASSUME NEW f, NEW g, g \in SetBy(f), NEW v, DOMAIN v = DOMAIN u,
             \A h \in DOMAIN u : h # g => v[h] = u[h]
      PROVE  Guards(f, CopyValue, u, v)
  BY <1>6, SetByGuards
<1>7. PICK v, x, y : v = CopyTrade!FlipSandwich(u) /\ x = CopyTrade!FlipSlippage(u) /\ y = CopyTrade!FlipActive(u)
  OBVIOUS
<1>8. /\ DOMAIN v = DOMAIN u /\ \A h \in DOMAIN u : h # "sandwich" => v[h] = u[h]
      /\ DOMAIN x = DOMAIN u /\ \A h \in DOMAIN u : h # "autoSlippage" => x[h] = u[h]
      /\ DOMAIN y = DOMAIN u /\ \A h \in DOMAIN u : h # "active" => y[h] = u[h]
  BY <1>7 DEF CopyTrade!FlipSandwich, CopyTrade!FlipSlippage, CopyTrade!FlipActive
<1>9. Guards("sandwich", CopyValue, u, v)
  BY <1>1, <1>6, <1>8
<1>10. Guards("slippage", CopyValue, u, x)
  BY <1>2, <1>6, <1>8
<1>11. Guards("active", CopyValue, u, y)
  BY <1>1, <1>6, <1>8
<1> QED
  BY <1>4, <1>5, <1>7, <1>9, <1>10, <1>11

-----------------------------------------------------------------------------
(***************************************************************************)
(* A handler that takes a value for the form under a key, or flips a       *)
(* button of it, seen from the cards.                                      *)
(***************************************************************************)
TellsAgain(c, state, p) ==
  /\ forms' = forms /\ Inside(state, p.home) /\ ~Inside(fsm', p.creating)
  /\ clash' = (clash \/ Meets("") \/ fsm # state)
  /\ \E form, steps : LightSteps(steps, p) /\ Started(c, "", form, steps)

Alters(c, key, f, state, steps, p, V) ==
  /\ data[key] # None /\ fsm' = fsm /\ clash' = (clash \/ Meets(f) \/ fsm # state)
  /\ Started(c, f, data[key], steps) /\ FieldSteps(steps, data[key], state, p)
  /\ \E v : /\ Guards(f, V, forms[data[key]].value, v)
            /\ forms' = [forms EXCEPT ![data[key]].value = v]

Treated(c, key, f, state, steps, p, V) ==
  /\ Arrived(c) /\ rows' = rows /\ data' = data
  /\ \/ Ends(c) /\ forms' = forms /\ fsm' = fsm /\ clash' = clash
     \/ TellsAgain(c, state, p)
     \/ Alters(c, key, f, state, steps, p, V)

LEMMA TreatedCards ==
  ASSUME NEW V, NEW D, NEW N, Dialogue(V, D, N), NEW p, WellNamed(p), CardInv(p), p.key \in Keys,
         NEW c \in Slot, NEW key \in Keys, NEW f, ~Fieldless(f), f # "form", NEW state, NEW steps,
         Treated(c, key, f, state, steps, p, V),
         \/ Does(steps, "read")
         \/ ~clash /\ ~Meets(f) /\ fsm = state /\ data[key] # None => forms[data[key]].row = None
  PROVE  CardInv(p)'
<1>1. CASE Ends(c) /\ forms' = forms /\ fsm' = fsm /\ clash' = clash
  <2>1. Idle.todo = <<>> /\ Fieldless(Idle.on) /\ Idle.write = {}
    BY DEF Idle, Fieldless
  <2>2. calls[c].todo = <<>>
    BY ArrivedIdle DEF Treated
  <2>3. calls' = [calls EXCEPT ![c] = Idle]
    BY <1>1 DEF Ends
  <2> QED
    BY <1>1, <2>1, <2>2, <2>3, EndsCards DEF Treated
<1>2. CASE TellsAgain(c, state, p)
  <2>1. PICK on : on = ""
    OBVIOUS
  <2>2. Fieldless(on)
    BY <2>1 DEF Fieldless
  <2>3. PICK form, s : LightSteps(s, p) /\ Started(c, on, form, s)
    BY <1>2, <2>1 DEF TellsAgain
  <2>4. ~clash' => ~Inside(fsm', p.creating) /\ Inside(fsm, p.home)
    BY <1>2 DEF TellsAgain
  <2>5. Arrived(c) /\ rows' = rows /\ data' = data /\ forms' = forms /\ (clash => clash')
    BY <1>2 DEF TellsAgain, Treated
  <2> QED
    BY <2>2, <2>3, <2>4, <2>5, LightCards
<1>3. CASE Alters(c, key, f, state, steps, p, V)
  <2>1. PICK i : i = data[key]
    OBVIOUS
  <2>2. i # None /\ i \in 1..Len(forms)
    BY <1>3, <2>1 DEF Alters, Dialogue
  <2>3. PICK v : Guards(f, V, forms[i].value, v) /\ forms' = [forms EXCEPT ![i].value = v]
    BY <1>3, <2>1 DEF Alters
  <2>4. ASSUME ~clash', NEW q, q.form = i, q.todo = steps PROVE FormsKept(c, q)
    <3>1. ~clash /\ ~Meets(f) /\ fsm = state
      BY <1>3, <2>4 DEF Alters
    <3>2. forms[i].row = None \/ (q.form = i /\ Does(q.todo, "read"))
      BY <2>1, <2>2, <2>4, <3>1
    <3> QED
      BY <2>2, <2>3, <3>1, <3>2, ChangedKept
  <2>5. /\ Started(c, f, i, steps) /\ FieldSteps(steps, i, state, p) /\ fsm' = fsm
        /\ clash' = (clash \/ Meets(f) \/ fsm # state)
        /\ Arrived(c) /\ rows' = rows /\ data' = data
    BY <1>3, <2>1 DEF Alters, Treated
  <2> QED
    BY <2>4, <2>5, FieldCards
<1> QED
  BY <1>1, <1>2, <1>3 DEF Treated

\* A prompt is shown.
LEMMA AskedCards ==
  ASSUME NEW V, NEW D, NEW N, Dialogue(V, D, N), NEW p, WellNamed(p), CardInv(p), p.key \in Keys,
         NEW c \in Slot, Arrived(c), NEW state, NEW steps, FieldSteps(steps, None, state, p),
         Started(c, "prompt", None, steps),
         rows' = rows, data' = data, fsm' = fsm, forms' = forms,
         clash' = (clash \/ Meets("prompt") \/ fsm # state)
  PROVE  CardInv(p)'
<1>1. PICK on : on = "prompt"
  OBVIOUS
<1>2. ~Fieldless(on) /\ on # "form"
  BY <1>1 DEF Fieldless
<1>3. \A q : FormsKept(c, q)
  BY FormsSame
<1>4. Started(c, on, None, steps) /\ clash' = (clash \/ Meets(on) \/ fsm # state)
  BY <1>1
<1> QED
  BY <1>2, <1>3, <1>4, FieldCards

\* A form in creation is no row, if nobody else opens a card.
LEMMA CreatedRow ==
  ASSUME NEW p, CardInv(p), ~clash, NEW f, ~Fieldless(f), ~Meets(f), Inside(fsm, p.creating),
         data[p.key] # None
  PROVE  forms[data[p.key]].row = None
<1>1. ~Opened(p)
  <2>1. SUFFICES ASSUME NEW c \in Slot, calls[c].on = "form", Leads(calls[c].todo, p.home) PROVE FALSE
    BY DEF Opened, Comes
  <2>2. Running(c)
    BY <2>1, NoneLeft DEF Running
  <2>3. PICK k : k = calls[c]
    OBVIOUS
  <2> QED
    BY <2>1, <2>2 DEF Meets, Fieldless
<1> QED
  BY <1>1 DEF CardInv, NewKept, Creation

\* A save reads its row.
LEMMA SavesRead ==
  ASSUME NEW first, NEW to
  PROVE  /\ Does(Save \o Tell(to), "read")
         /\ Does(<<[do |-> first, to |-> None]>> \o Save \o Tell(to), "read")
<1>1. PICK a, b, d, e :
        /\ a = [do |-> first, to |-> None] /\ b = [do |-> "read", to |-> None]
        /\ d = [do |-> "commit", to |-> None] /\ e = [do |-> "tell", to |-> to]
  OBVIOUS
<1>2. b.do = "read"
  BY <1>1
<1>3. <<b, d>> \o <<e>> = <<b, d, e>>
  BY ThreeOf
<1>4. Does(<<b, d, e>>, "read")
  <2>1. PICK s : s = <<b, d, e>>
    OBVIOUS
  <2>2. Len(s) = 3 /\ s[1] = b /\ 1 \in 1..3
    BY <2>1
  <2> QED
    BY <1>2, <2>1, <2>2 DEF Does
<1>5. PICK s : s = <<a>> \o <<b, d>> \o <<e>>
  OBVIOUS
<1>6. Does(s, "read")
  <2>1. Len(s) = 4 /\ s[2] = b
    BY <1>5, FourOf
  <2>2. 2 \in 1..4
    OBVIOUS
  <2> QED
    BY <1>2, <2>1, <2>2 DEF Does
<1> QED
  BY <1>1, <1>3, <1>4, <1>5, <1>6 DEF Save, Tell

-----------------------------------------------------------------------------
LEMMA CopyMeets == \A on : CopyTrade!Meets(on) = Meets(on)
BY DEF CopyTrade!Meets, Meets, CopyTrade!Running, Running, CopyTrade!SetBy, SetBy

\* Values are asked for in these states.
LEMMA CopyPrompts ==
  ASSUME NEW f, NEW form
  PROVE  /\ FieldSteps(CopyTrade!Tell(Append(CopyTrade!Creating, f)), form, CopyTrade!Creating, CopyCards)
         /\ FieldSteps(CopyTrade!Tell(Append(CopyTrade!Editing, f)), form, CopyTrade!Editing, CopyCards)
         /\ FieldSteps(CopyTrade!Tell(None), form, CopyTrade!Creating, CopyCards)
         /\ Append(CopyTrade!Creating, f) # None =>
              FieldSteps(CopyTrade!TidyQuietly \o CopyTrade!Tell(CopyTrade!Creating), form,
                         Append(CopyTrade!Creating, f), CopyCards)
<1>1. \A state : CopyTrade!Tell(state) = Tell(state)
  BY DEF CopyTrade!Tell, Tell
<1>2. CopyTrade!TidyQuietly = TidyQuietly
  BY DEF CopyTrade!TidyQuietly, TidyQuietly
<1>3. CopyCards.home = CopyTrade!Editing /\ CopyCards.creating = CopyTrade!Creating
  BY CopyNamed
<1>4. FieldSteps(CopyTrade!Tell(Append(CopyTrade!Creating, f)), form, CopyTrade!Creating, CopyCards)
  BY <1>1, <1>3, TellField, CopyStates
<1>5. FieldSteps(CopyTrade!Tell(Append(CopyTrade!Editing, f)), form, CopyTrade!Editing, CopyCards)
  BY <1>1, <1>3, TellField, CopyStates
<1>6. FieldSteps(CopyTrade!Tell(None), form, CopyTrade!Creating, CopyCards)
  BY <1>1, TellField, InsideNone
<1>7. ASSUME Append(CopyTrade!Creating, f) # None
      PROVE  FieldSteps(CopyTrade!TidyQuietly \o CopyTrade!Tell(CopyTrade!Creating), form,
                        Append(CopyTrade!Creating, f), CopyCards)
  <2>1. PICK state : state = Append(CopyTrade!Creating, f)
    OBVIOUS
  <2>2. Inside(state, CopyCards.creating) /\ ~Inside(CopyTrade!Creating, CopyCards.home)
    BY <1>3, <1>7, <2>1, CopyStates
  <2>3. FieldSteps(TidyQuietly \o Tell(CopyTrade!Creating), form, state, CopyCards)
    BY <2>2, TidyField
  <2> QED
    BY <1>1, <1>2, <2>1, <2>3
<1> QED
  BY <1>4, <1>5, <1>6, <1>7

LEMMA CopySaves ==
  ASSUME NEW form, form # None, form = data["copytrade_settings"], NEW state,
         Inside(state, CopyTrade!Editing)
  PROVE  /\ FieldSteps(CopyTrade!SaveLast, form, state, CopyCards) /\ Does(CopyTrade!SaveLast, "read")
         /\ FieldSteps(CopyTrade!SaveFirst, form, state, CopyCards) /\ Does(CopyTrade!SaveFirst, "read")
         /\ FieldSteps(CopyTrade!Save \o CopyTrade!Tell(None), form, state, CopyCards)
         /\ Does(CopyTrade!Save \o CopyTrade!Tell(None), "read")
<1>1. \A t : CopyTrade!Tell(t) = Tell(t)
  BY DEF CopyTrade!Tell, Tell
<1>2. CopyTrade!Save = Save
  BY DEF CopyTrade!Save, Save
<1>3. PICK first : first = "tell"
  OBVIOUS
<1>4. CopyTrade!SaveLast = <<[do |-> first, to |-> None]>> \o Save \o Tell(CopyTrade!Editing)
  BY <1>1, <1>2, <1>3 DEF CopyTrade!SaveLast, CopyTrade!Tidy, Tell
<1>5. CopyTrade!SaveFirst = Save \o Tell(CopyTrade!Editing)
  BY <1>1, <1>2 DEF CopyTrade!SaveFirst
<1>6. CopyTrade!Save \o CopyTrade!Tell(None) = Save \o Tell(None)
  BY <1>1, <1>2
<1>7. /\ CopyCards.home = CopyTrade!Editing /\ CopyCards.creating = CopyTrade!Creating
      /\ form = data[CopyCards.key]
  BY CopyNamed
<1>8. /\ Inside(state, CopyCards.home) /\ ~Inside(CopyTrade!Editing, CopyCards.creating)
      /\ ~Inside(None, CopyCards.home) /\ ~Inside(None, CopyCards.creating)
  BY <1>7, CopyStates
<1>9. first \in {"tell", "tidy"}
  BY <1>3
<1>10. FieldSteps(CopyTrade!SaveLast, form, state, CopyCards)
  BY <1>4, <1>7, <1>8, <1>9, TidySaveField
<1>11. FieldSteps(CopyTrade!SaveFirst, form, state, CopyCards)
  BY <1>5, <1>7, <1>8, SaveField
<1>12. FieldSteps(CopyTrade!Save \o CopyTrade!Tell(None), form, state, CopyCards)
  BY <1>6, <1>7, <1>8, SaveField
<1> QED
  BY <1>4, <1>5, <1>6, <1>10, <1>11, <1>12, SavesRead

\* The user gives the copy trade to be created a value.
LEMMA CreateAnswersTreated ==
  ASSUME CopyIInv, NEW c \in Slot,
         \/ CopyTrade!create_set_address(c) \/ CopyTrade!create_set_alias(c)
         \/ CopyTrade!create_set_amount(c) \/ CopyTrade!create_set_priority(c)
         \/ CopyTrade!create_set_slippage(c)
  PROVE  \E f \in CopyField \ CopyFlag :
           /\ Append(CopyTrade!Creating, f) # None
           /\ Treated(c, "copytrade_settings", f, Append(CopyTrade!Creating, f),
                      CopyTrade!TidyQuietly \o CopyTrade!Tell(CopyTrade!Creating), CopyCards, CopyValue)
<1> DEFINE key == "copytrade_settings"
           steps == CopyTrade!TidyQuietly \o CopyTrade!Tell(CopyTrade!Creating)
<1>1. key \in Keys
  BY DEF Keys
<1>2. ASSUME NEW f \in CopyField \ CopyFlag, calls[c].seen = Append(CopyTrade!Creating, f), Arrived(c),
             rows' = rows, data' = data, fsm' = fsm,
             \/ Ends(c) /\ forms' = forms /\ clash' = clash
             \/ /\ data[key] # None /\ Started(c, f, data[key], steps)
                /\ clash' = (clash \/ Meets(f) \/ fsm # Append(CopyTrade!Creating, f))
                /\ \E n, v :
                     /\ \/ v = [forms[data[key]].value EXCEPT ![f] = n]
                        \/ f = "slippage" /\ v = CopyTrade!OwnSlippage([forms[data[key]].value EXCEPT ![f] = n])
                     /\ forms' = [forms EXCEPT ![data[key]].value = v]
      PROVE  /\ Append(CopyTrade!Creating, f) # None
             /\ Treated(c, key, f, Append(CopyTrade!Creating, f), steps, CopyCards, CopyValue)
  <2>1. Append(CopyTrade!Creating, f) # None
    BY <1>2 DEF Arrived
  <2>2. FieldSteps(steps, data[key], Append(CopyTrade!Creating, f), CopyCards)
    BY <2>1, CopyPrompts
  <2> HIDE DEF steps
  <2>3. CASE Ends(c) /\ forms' = forms /\ clash' = clash
    BY <1>2, <2>1, <2>3 DEF Treated
  <2>4. ASSUME data[key] # None, NEW n, NEW v,
               \/ v = [forms[data[key]].value EXCEPT ![f] = n]
               \/ f = "slippage" /\ v = CopyTrade!OwnSlippage([forms[data[key]].value EXCEPT ![f] = n])
        PROVE  Guards(f, CopyValue, forms[data[key]].value, v)
    <3>1. PICK u \in CopyValue : u = forms[data[key]].value
      BY <1>1, <2>4, CopyFormValue
    <3>2. \/ v = [u EXCEPT ![f] = n]
          \/ f = "slippage" /\ v = CopyTrade!OwnSlippage([u EXCEPT ![f] = n])
      BY <2>4, <3>1
    <3>3. Guards(f, CopyValue, u, v)
      BY <3>2, CopyGuards
    <3> QED
      BY <3>1, <3>3
  <2>5. CASE ~(Ends(c) /\ forms' = forms /\ clash' = clash)
    <3>1. Alters(c, key, f, Append(CopyTrade!Creating, f), steps, CopyCards, CopyValue)
      BY <1>2, <2>2, <2>4, <2>5 DEF Alters
    <3> QED
      BY <1>2, <2>1, <3>1 DEF Treated
  <2> QED
    BY <2>3, <2>5
<1> HIDE DEF steps
<1> USE DEF CopyTrade!CreateAnswer, CopyTrade!Answer, CopyTrade!Unchanged, CopyTrade!RunsIn,
            CopyTrade!Ends, Ends, CopyTrade!Key, Started, steps, CopyTrade!Arrived, Arrived
<1> USE CopyIdle, CopyMeets
<1>3. {"target", "alias", "amount", "priority", "slippage"} \subseteq CopyField \ CopyFlag
  BY DEF CopyField, CopyFlag
<1>4. CASE CopyTrade!create_set_address(c)
  BY <1>2, <1>3, <1>4 DEF CopyTrade!create_set_address
<1>5. CASE CopyTrade!create_set_alias(c)
  BY <1>2, <1>3, <1>5 DEF CopyTrade!create_set_alias
<1>6. CASE CopyTrade!create_set_amount(c)
  BY <1>2, <1>3, <1>6 DEF CopyTrade!create_set_amount
<1>7. CASE CopyTrade!create_set_priority(c)
  BY <1>2, <1>3, <1>7 DEF CopyTrade!create_set_priority
<1>8. CASE CopyTrade!create_set_slippage(c)
  BY <1>2, <1>3, <1>8 DEF CopyTrade!create_set_slippage
<1> QED
  BY <1>4, <1>5, <1>6, <1>7, <1>8

\* A button of a copy trade, of the one that is created or of a card.
LEMMA PressTreated ==
  ASSUME CopyIInv, NEW c \in Slot, NEW f, NEW state, NEW steps,
         Arrived(c), rows' = rows, data' = data, fsm' = fsm,
         data["copytrade_settings"] # None =>
           FieldSteps(steps, data["copytrade_settings"], state, CopyCards),
         \/ Ends(c) /\ forms' = forms /\ clash' = clash
         \/ /\ data["copytrade_settings"] # None
            /\ Started(c, f, data["copytrade_settings"], steps)
            /\ clash' = (clash \/ Meets(f) \/ fsm # state)
            /\ \E u, v :
                 /\ u = forms[data["copytrade_settings"]].value
                 /\ forms' = [forms EXCEPT ![data["copytrade_settings"]].value = v]
                 /\ \/ f = "follow" /\ (v = CopyTrade!Follow(u) \/ v = CopyTrade!Hold(u))
                    \/ f = "sandwich" /\ v = CopyTrade!FlipSandwich(u)
                    \/ f = "slippage" /\ v = CopyTrade!FlipSlippage(u)
                    \/ f = "active" /\ v = CopyTrade!FlipActive(u)
  PROVE  Treated(c, "copytrade_settings", f, state, steps, CopyCards, CopyValue)
<1>1. PICK key \in Keys : key = "copytrade_settings"
  BY DEF Keys
<1>2. CASE Ends(c) /\ forms' = forms /\ clash' = clash
  BY <1>2 DEF Treated
<1>3. CASE ~(Ends(c) /\ forms' = forms /\ clash' = clash)
  <2>1. PICK u, v :
          /\ u = forms[data[key]].value /\ forms' = [forms EXCEPT ![data[key]].value = v]
          /\ \/ f = "follow" /\ (v = CopyTrade!Follow(u) \/ v = CopyTrade!Hold(u))
             \/ f = "sandwich" /\ v = CopyTrade!FlipSandwich(u)
             \/ f = "slippage" /\ v = CopyTrade!FlipSlippage(u)
             \/ f = "active" /\ v = CopyTrade!FlipActive(u)
    BY <1>1, <1>3
  <2>2. /\ data[key] # None /\ Started(c, f, data[key], steps)
        /\ FieldSteps(steps, data[key], state, CopyCards)
        /\ clash' = (clash \/ Meets(f) \/ fsm # state)
    BY <1>1, <1>3
  <2>3. u \in CopyValue
    BY <2>1, <2>2, CopyFormValue
  <2>4. Guards(f, CopyValue, u, v)
    BY <2>1, <2>3, CopyGuards
  <2>5. Alters(c, key, f, state, steps, CopyCards, CopyValue)
    BY <2>1, <2>2, <2>4 DEF Alters
  <2> QED
    BY <1>1, <2>5 DEF Treated
<1> QED
  BY <1>2, <1>3

LEMMA CreatePressesTreated ==
  ASSUME CopyIInv, NEW c \in Slot,
         \/ CopyTrade!create_toggle_auto_follow(c) \/ CopyTrade!create_toggle_no_sell(c)
         \/ CopyTrade!create_toggle_anti_sandwich(c) \/ CopyTrade!create_toggle_auto_slippage(c)
  PROVE  \E f \in {"follow", "sandwich", "slippage"} :
           Treated(c, "copytrade_settings", f, CopyTrade!Creating, CopyTrade!Tell(None), CopyCards, CopyValue)
<1> DEFINE key == "copytrade_settings"
           steps == CopyTrade!Tell(None)
<1>1. FieldSteps(steps, data[key], CopyTrade!Creating, CopyCards)
  BY CopyPrompts
<1> HIDE DEF steps
<1> USE DEF CopyTrade!CreatePress, CopyTrade!Press, CopyTrade!RunsIn,
            CopyTrade!Ends, Ends, CopyTrade!Key, Started, CopyTrade!Arrived, Arrived, steps
<1> USE CopyIdle, CopyMeets
<1>2. CASE CopyTrade!create_toggle_auto_follow(c)
  BY <1>1, <1>2, PressTreated DEF CopyTrade!create_toggle_auto_follow
<1>3. CASE CopyTrade!create_toggle_no_sell(c)
  BY <1>1, <1>3, PressTreated DEF CopyTrade!create_toggle_no_sell
<1>4. CASE CopyTrade!create_toggle_anti_sandwich(c)
  BY <1>1, <1>4, PressTreated DEF CopyTrade!create_toggle_anti_sandwich
<1>5. CASE CopyTrade!create_toggle_auto_slippage(c)
  BY <1>1, <1>5, PressTreated DEF CopyTrade!create_toggle_auto_slippage
<1> QED
  BY <1>2, <1>3, <1>4, <1>5

LEMMA EditAnswersTreated ==
  ASSUME CopyIInv, NEW c \in Slot,
         \/ CopyTrade!edit_set_alias(c) \/ CopyTrade!edit_set_amount(c)
         \/ CopyTrade!edit_set_priority(c) \/ CopyTrade!edit_set_slippage(c)
  PROVE  \E f \in CopyField \ CopyFlag : \E state, steps :
           /\ Does(steps, "read")
           /\ Treated(c, "copytrade_settings", f, state, steps, CopyCards, CopyValue)
<1> DEFINE key == "copytrade_settings"
<1>1. key \in Keys
  BY DEF Keys
<1>2. CopyTrade!Tidy # <<>>
  <2>1. PICK s, x : s = <<x>> /\ x = [do |-> "tell", to |-> None]
    OBVIOUS
  <2>2. s # <<>>
    BY <2>1
  <2> QED
    BY <2>1, <2>2 DEF CopyTrade!Tidy, CopyTrade!Tell
<1>3. ASSUME NEW f \in CopyField \ CopyFlag, NEW steps \in {CopyTrade!SaveLast, CopyTrade!SaveFirst},
             calls[c].seen = Append(CopyTrade!Editing, f), Arrived(c),
             rows' = rows, data' = data,
             \/ Ends(c) /\ forms' = forms /\ fsm' = fsm /\ clash' = clash
             \/ /\ data[key] # None /\ Started(c, "", data[key], CopyTrade!Tidy)
                /\ clash' = (clash \/ Meets("") \/ fsm # Append(CopyTrade!Editing, f))
                /\ forms' = forms /\ fsm' = CopyTrade!Editing
             \/ /\ data[key] # None /\ Started(c, f, data[key], steps) /\ fsm' = fsm
                /\ clash' = (clash \/ Meets(f) \/ fsm # Append(CopyTrade!Editing, f))
                /\ \E n, v :
                     /\ \/ v = [forms[data[key]].value EXCEPT ![f] = n]
                        \/ f = "slippage" /\ v = CopyTrade!OwnSlippage([forms[data[key]].value EXCEPT ![f] = n])
                     /\ forms' = [forms EXCEPT ![data[key]].value = v]
      PROVE  \E s : /\ Does(s, "read")
                    /\ Treated(c, key, f, Append(CopyTrade!Editing, f), s, CopyCards, CopyValue)
  <2>1. Append(CopyTrade!Editing, f) # None
    BY <1>3 DEF Arrived
  <2>2. PICK state : state = Append(CopyTrade!Editing, f)
    OBVIOUS
  <2>3. Inside(state, CopyTrade!Editing)
    BY <2>1, <2>2, CopyStates
  <2>4. data[key] # None => FieldSteps(steps, data[key], state, CopyCards) /\ Does(steps, "read")
    BY <2>3, CopySaves
  <2>5. CASE Ends(c) /\ forms' = forms /\ fsm' = fsm /\ clash' = clash
    <3>1. Does(Save \o Tell(None), "read")
      BY SavesRead
    <3>2. Treated(c, key, f, Append(CopyTrade!Editing, f), Save \o Tell(None), CopyCards, CopyValue)
      BY <1>3, <2>5 DEF Treated
    <3> QED
      BY <3>1, <3>2
  <2>6. CASE /\ data[key] # None /\ Started(c, "", data[key], CopyTrade!Tidy)
             /\ clash' = (clash \/ Meets("") \/ fsm # Append(CopyTrade!Editing, f))
             /\ forms' = forms /\ fsm' = CopyTrade!Editing
    <3>1. TellsAgain(c, state, CopyCards)
      BY <2>2, <2>3, <2>6, CopyStates, CopyNamed, CopyMenus DEF TellsAgain
    <3> QED
      BY <1>3, <2>2, <2>4, <2>6, <3>1 DEF Treated
  <2>7. CASE /\ data[key] # None /\ Started(c, f, data[key], steps) /\ fsm' = fsm
             /\ clash' = (clash \/ Meets(f) \/ fsm # Append(CopyTrade!Editing, f))
             /\ \E n, v :
                  /\ \/ v = [forms[data[key]].value EXCEPT ![f] = n]
                     \/ f = "slippage" /\ v = CopyTrade!OwnSlippage([forms[data[key]].value EXCEPT ![f] = n])
                  /\ forms' = [forms EXCEPT ![data[key]].value = v]
    <3>6. PICK n : \E v :
            /\ \/ v = [forms[data[key]].value EXCEPT ![f] = n]
               \/ f = "slippage" /\ v = CopyTrade!OwnSlippage([forms[data[key]].value EXCEPT ![f] = n])
            /\ forms' = [forms EXCEPT ![data[key]].value = v]
      BY <2>7
    <3>1. PICK v :
            /\ \/ v = [forms[data[key]].value EXCEPT ![f] = n]
               \/ f = "slippage" /\ v = CopyTrade!OwnSlippage([forms[data[key]].value EXCEPT ![f] = n])
            /\ forms' = [forms EXCEPT ![data[key]].value = v]
      BY <3>6
    <3>2. PICK u \in CopyValue : u = forms[data[key]].value
      BY <1>1, <2>7, CopyFormValue
    <3>3. \/ v = [u EXCEPT ![f] = n]
          \/ f = "slippage" /\ v = CopyTrade!OwnSlippage([u EXCEPT ![f] = n])
      BY <3>1, <3>2
    <3>4. Guards(f, CopyValue, u, v)
      BY <3>3, CopyGuards
    <3>5. Alters(c, key, f, state, steps, CopyCards, CopyValue)
      BY <2>2, <2>4, <2>7, <3>1, <3>2, <3>4 DEF Alters
    <3> QED
      BY <1>3, <2>2, <2>4, <2>7, <3>5 DEF Treated
  <2> QED
    BY <1>3, <2>5, <2>6, <2>7
<1> USE DEF CopyTrade!EditAnswer, CopyTrade!Answer, CopyTrade!Unchanged, CopyTrade!RunsIn,
            CopyTrade!Ends, Ends, CopyTrade!Key, Started, CopyTrade!Arrived, Arrived
<1> USE CopyIdle, CopyMeets
<1>4. {"alias", "amount", "priority", "slippage"} \subseteq CopyField \ CopyFlag
  BY DEF CopyField, CopyFlag
<1>5. CASE CopyTrade!edit_set_alias(c)
  BY <1>2, <1>3, <1>4, <1>5 DEF CopyTrade!edit_set_alias
<1>6. CASE CopyTrade!edit_set_amount(c)
  BY <1>2, <1>3, <1>4, <1>6 DEF CopyTrade!edit_set_amount
<1>7. CASE CopyTrade!edit_set_priority(c)
  BY <1>2, <1>3, <1>4, <1>7 DEF CopyTrade!edit_set_priority
<1>8. CASE CopyTrade!edit_set_slippage(c)
  BY <1>2, <1>3, <1>4, <1>8 DEF CopyTrade!edit_set_slippage
<1> QED
  BY <1>5, <1>6, <1>7, <1>8

LEMMA EditPressesTreated ==
  ASSUME CopyIInv, NEW c \in Slot,
         \/ CopyTrade!edit_toggle_auto_follow(c) \/ CopyTrade!edit_toggle_no_sell(c)
         \/ CopyTrade!edit_toggle_anti_sandwich(c) \/ CopyTrade!edit_toggle_auto_slippage(c)
         \/ CopyTrade!toggle_copytrade(c)
  PROVE  \E f \in {"follow", "sandwich", "slippage", "active"} : \E steps :
           /\ Does(steps, "read")
           /\ Treated(c, "copytrade_settings", f, CopyTrade!Editing, steps, CopyCards, CopyValue)
<1> DEFINE key == "copytrade_settings"
           steps == CopyTrade!Save \o CopyTrade!Tell(None)
<1>1. Does(steps, "read")
  <2>1. CopyTrade!Save = Save /\ CopyTrade!Tell(None) = Tell(None)
    BY DEF CopyTrade!Save, Save, CopyTrade!Tell, Tell
  <2>2. Does(Save \o Tell(None), "read")
    BY SavesRead
  <2> QED
    BY <2>1, <2>2
<1>2. data[key] # None => FieldSteps(steps, data[key], CopyTrade!Editing, CopyCards)
  BY CopySaves, CopyStates
<1> HIDE DEF steps
<1>3. \E f \in {"follow", "sandwich", "slippage", "active"} :
        Treated(c, key, f, CopyTrade!Editing, steps, CopyCards, CopyValue)
  <2> USE DEF CopyTrade!EditPress, CopyTrade!Press, CopyTrade!RunsIn,
              CopyTrade!Ends, Ends, CopyTrade!Key, Started, CopyTrade!Arrived, Arrived, steps
  <2> USE CopyIdle, CopyMeets
  <2>1. CASE CopyTrade!edit_toggle_auto_follow(c)
    BY <1>2, <2>1, PressTreated DEF CopyTrade!edit_toggle_auto_follow
  <2>2. CASE CopyTrade!edit_toggle_no_sell(c)
    BY <1>2, <2>2, PressTreated DEF CopyTrade!edit_toggle_no_sell
  <2>3. CASE CopyTrade!edit_toggle_anti_sandwich(c)
    BY <1>2, <2>3, PressTreated DEF CopyTrade!edit_toggle_anti_sandwich
  <2>4. CASE CopyTrade!edit_toggle_auto_slippage(c)
    BY <1>2, <2>4, PressTreated DEF CopyTrade!edit_toggle_auto_slippage
  <2>5. CASE CopyTrade!toggle_copytrade(c)
    BY <1>2, <2>5, PressTreated DEF CopyTrade!toggle_copytrade
  <2> QED
    BY <2>1, <2>2, <2>3, <2>4, <2>5
<1> QED
  BY <1>1, <1>3

\* The handlers that work on no field, seen from the cards.
LEMMA ShownCards ==
  ASSUME NEW V, NEW D, NEW N, Dialogue(V, D, N), NEW p, WellNamed(p), CardInv(p), p.key \in Keys,
         NEW c \in Slot, Arrived(c), NEW form, NEW steps,
         LightSteps(steps, p), Started(c, "", form, steps),
         rows' = rows, data'[p.key] \in {data[p.key], None}, clash => clash',
         forms' = forms \/ \E o : forms' = Append(forms, o), fsm' = fsm
  PROVE  CardInv(p)'
<1>1. PICK on : on = ""
  OBVIOUS
<1>2. Fieldless(on)
  BY <1>1 DEF Fieldless
<1>3. Started(c, on, form, steps)
  BY <1>1
<1> QED
  BY <1>2, <1>3, LightCards

LEMMA CopyLight ==
  ASSUME CopyIInv, CardInv(CopyCards), NEW c \in Slot,
         \/ CopyTrade!start_copytrade(c) \/ CopyTrade!cancel_copytrade(c)
         \/ CopyTrade!delete_copytrade(c) \/ CopyTrade!back_to_copytrade(c)
  PROVE  CardInv(CopyCards)'
<1>1. /\ Arrived(c) /\ rows' = rows /\ forms' = forms /\ fsm' = fsm /\ (clash => clash')
      /\ data'["copytrade_settings"] \in {data["copytrade_settings"], None}
      /\ Started(c, "", None, CopyTrade!ShowMenu) \/ Started(c, "", None, CopyTrade!Tell(None))
  <2> USE CopyIdle
  <2> USE DEF Started, CopyTrade!Runs, CopyTrade!Arrived, Arrived, CopyTrade!Key
  <2>1. CASE CopyTrade!start_copytrade(c)
    BY <2>1 DEF CopyTrade!start_copytrade
  <2>2. CASE CopyTrade!cancel_copytrade(c)
    BY <2>2 DEF CopyTrade!cancel_copytrade
  <2>3. CASE CopyTrade!delete_copytrade(c)
    BY <2>3 DEF CopyTrade!delete_copytrade
  <2>4. CASE CopyTrade!back_to_copytrade(c)
    <3>1. "copytrade_settings" \in DOMAIN data
      BY DEF CopyIInv, Dialogue, Keys
    <3> QED
      BY <2>4, <3>1 DEF CopyTrade!back_to_copytrade
  <2> QED
    BY <2>1, <2>2, <2>3, <2>4
<1> QED
  BY <1>1, CopyMenus, CopyNamed, ShownCards DEF CopyIInv

LEMMA CopyAsks ==
  ASSUME CopyIInv, CardInv(CopyCards), NEW c \in Slot,
         \/ CopyTrade!create_start_set_address(c) \/ CopyTrade!create_start_set_alias(c)
         \/ CopyTrade!create_start_set_amount(c) \/ CopyTrade!create_start_set_priority(c)
         \/ CopyTrade!create_start_set_slippage(c)
         \/ CopyTrade!edit_start_set_alias(c) \/ CopyTrade!edit_start_set_amount(c)
         \/ CopyTrade!edit_start_set_priority(c) \/ CopyTrade!edit_start_set_slippage(c)
  PROVE  CardInv(CopyCards)'
<1>1. PICK f : CopyTrade!Ask(c, CopyTrade!Creating, f) \/ CopyTrade!Ask(c, CopyTrade!Editing, f)
  BY DEF CopyTrade!create_start_set_address, CopyTrade!create_start_set_alias,
         CopyTrade!create_start_set_amount, CopyTrade!create_start_set_priority,
         CopyTrade!create_start_set_slippage, CopyTrade!edit_start_set_alias,
         CopyTrade!edit_start_set_amount, CopyTrade!edit_start_set_priority,
         CopyTrade!edit_start_set_slippage
<1>2. PICK state : state \in {CopyTrade!Creating, CopyTrade!Editing} /\ CopyTrade!Ask(c, state, f)
  BY <1>1
<1>3. FieldSteps(CopyTrade!Tell(Append(state, f)), None, state, CopyCards)
  BY <1>2, CopyPrompts
<1>4. PICK steps : steps = CopyTrade!Tell(Append(state, f))
  OBVIOUS
<1>5. /\ Arrived(c) /\ Started(c, "prompt", None, steps)
      /\ rows' = rows /\ data' = data /\ fsm' = fsm /\ forms' = forms
      /\ clash' = (clash \/ Meets("prompt") \/ fsm # state)
  BY <1>2, <1>4, CopyIdle, CopyMeets
  DEF CopyTrade!Ask, CopyTrade!RunsIn, CopyTrade!Arrived, Arrived, Started
<1> QED
  BY <1>3, <1>4, <1>5, CopyNamed, AskedCards DEF CopyIInv

\* Writing the value of a form that it has is no change.
LEMMA SameForm ==
  ASSUME NEW V, NEW F, F \in Seq(Form(V)), NEW i \in 1..Len(F), NEW v, v = F[i].value
  PROVE  [F EXCEPT ![i].value = v] = F
<1>1. F[i] \in Form(V)
  OBVIOUS
<1>2. PICK o \in Form(V) : o = F[i]
  BY <1>1
<1>3. [o EXCEPT !.value = v] = o
  BY <1>2 DEF Form
<1>4. [F EXCEPT ![i] = o] = F
  BY <1>2
<1> QED
  BY <1>2, <1>3, <1>4

LEMMA CopyWhole ==
  ASSUME CopyIInv, CardInv(CopyCards), NEW c \in Slot,
         \/ CopyTrade!stop_all_copytrade(c) \/ CopyTrade!start_create_copytrade(c)
         \/ CopyTrade!handle_copytrade_selection(c)
  PROVE  CardInv(CopyCards)'
<1>1. PICK steps :
        /\ \/ steps = CopyTrade!Await("readAll") \o CopyTrade!Await("commit") \o CopyTrade!ShowMenu
           \/ steps = CopyTrade!Await("newCopytrade") \o CopyTrade!Tell(CopyTrade!Creating)
           \/ steps = CopyTrade!Await("loadCopytrade") \o CopyTrade!Tell(CopyTrade!Editing)
        /\ Arrived(c) /\ Started(c, "form", None, steps)
        /\ rows' = rows /\ data' = data /\ fsm' = fsm /\ forms' = forms
        /\ clash' = (clash \/ Meets("form"))
  <2> USE CopyIdle, CopyMeets
  <2> USE DEF Started, CopyTrade!Runs, CopyTrade!Arrived, Arrived
  <2>1. CASE CopyTrade!stop_all_copytrade(c)
    BY <2>1 DEF CopyTrade!stop_all_copytrade
  <2>2. CASE CopyTrade!start_create_copytrade(c)
    BY <2>2 DEF CopyTrade!start_create_copytrade
  <2>3. CASE CopyTrade!handle_copytrade_selection(c)
    BY <2>3 DEF CopyTrade!handle_copytrade_selection
  <2> QED
    BY <2>1, <2>2, <2>3
<1>2. /\ Ordered(steps) /\ \A i \in 1..Len(steps) : steps[i].do \in Awaited("form", CopyCards)
      /\ (Opens(steps, CopyCards) /\ steps[1].do = CopyCards.load) \/ Closes(steps, CopyCards)
      /\ Leads(steps, CopyCards.creating) => steps[1].do = CopyCards.new
  BY <1>1, CopyWholes, CopyNamed
<1> QED
  BY <1>1, <1>2, CopyNamed, WholeCards DEF CopyIInv

LEMMA CopyDeletes ==
  ASSUME CopyIInv, CardInv(CopyCards), NEW c \in Slot, CopyTrade!confirm_delete_copytrade(c)
  PROVE  CardInv(CopyCards)'
<1> DEFINE key == "copytrade_settings"
<1>1. PICK steps : steps = CopyTrade!Await("delete") \o CopyTrade!Await("deletedCopytrade")
  OBVIOUS
<1>2. key \in Keys /\ Arrived(c) /\ rows' = rows /\ data' = data /\ fsm' = fsm
  BY DEF CopyTrade!confirm_delete_copytrade, CopyTrade!Press, CopyTrade!Arrived, Arrived, Keys
<1>3. CASE Ends(c) /\ forms' = forms /\ clash' = clash
  <2>1. Treated(c, key, "active", CopyTrade!Editing, Save \o Tell(None), CopyCards, CopyValue)
    BY <1>2, <1>3 DEF Treated
  <2>2. Does(Save \o Tell(None), "read")
    BY SavesRead
  <2>3. PICK f : f = "active"
    OBVIOUS
  <2>4. ~Fieldless(f) /\ f # "form"
    BY <2>3 DEF Fieldless
  <2> QED
    BY <1>2, <2>1, <2>2, <2>3, <2>4, CopyNamed, TreatedCards DEF CopyIInv
<1>4. CASE ~(Ends(c) /\ forms' = forms /\ clash' = clash)
  <2>1. /\ data[key] # None /\ Started(c, "form", data[key], steps)
        /\ clash' = (clash \/ Meets("form") \/ fsm # CopyTrade!Editing)
        /\ \E v : v = forms[data[key]].value /\ forms' = [forms EXCEPT ![data[key]].value = v]
    BY <1>1, <1>4, CopyIdle, CopyMeets
    DEF CopyTrade!confirm_delete_copytrade, CopyTrade!Press, CopyTrade!Unchanged, CopyTrade!RunsIn,
        CopyTrade!Ends, Ends, CopyTrade!Key, Started
  <2>2. forms' = forms
    <3>1. forms \in Seq(Form(CopyValue)) /\ data[key] \in 1..Len(forms)
      BY <1>2, <2>1 DEF CopyIInv, Dialogue
    <3> QED
      BY <2>1, <3>1, SameForm
  <2>3. /\ Ordered(steps) /\ Closes(steps, CopyCards) /\ ~Leads(steps, CopyCards.creating)
        /\ ~Does(steps, "commit")
        /\ \A i \in 1..Len(steps) : steps[i].do \in Awaited("form", CopyCards)
    BY <1>1, CopyWholes, CopyNamed
  <2> QED
    BY <1>2, <2>1, <2>2, <2>3, CopyNamed, WholeCards DEF CopyIInv
<1> QED
  BY <1>3, <1>4

LEMMA CopySubmits ==
  ASSUME CopyIInv, CardInv(CopyCards), NEW c \in Slot, CopyTrade!submit_copytrade(c)
  PROVE  CardInv(CopyCards)'
<1>1. Arrived(c) /\ rows' = rows /\ data' = data /\ fsm' = fsm
  BY DEF CopyTrade!submit_copytrade, CopyTrade!Arrived, Arrived
<1>2. CASE Ends(c) /\ forms' = forms /\ clash' = clash
  <2>1. Idle.todo = <<>> /\ Fieldless(Idle.on) /\ Idle.write = {}
    BY DEF Idle, Fieldless
  <2>2. calls[c].todo = <<>> /\ calls' = [calls EXCEPT ![c] = Idle]
    BY <1>1, <1>2, ArrivedIdle DEF Ends
  <2> QED
    BY <1>1, <1>2, <2>1, <2>2, EndsCards, CopyNamed DEF CopyIInv
<1>3. CASE ~(Ends(c) /\ forms' = forms /\ clash' = clash)
  <2>1. /\ \E o : forms' = Append(forms, o)
        /\ Started(c, "", Len(forms) + 1, CopyTrade!Await("insert") \o CopyTrade!ShowMenu)
        /\ clash => clash'
    BY <1>3, CopyIdle DEF CopyTrade!submit_copytrade, CopyTrade!Key, CopyTrade!Ends, Ends,
                          CopyTrade!Runs, Started
  <2> QED
    BY <1>1, <2>1, CopyMenus, CopyNamed, ShownCards DEF CopyIInv
<1> QED
  BY <1>2, <1>3

LEMMA CopyComes ==
  ASSUME CopyIInv, CardInv(CopyCards), NEW c \in Slot,
         CopyTrade!NewCopytrade(c) \/ CopyTrade!LoadCopytrade(c) \/ CopyTrade!ForgetCopytrade(c)
  PROVE  CardInv(CopyCards)'
<1> USE DEF CopyTrade!At, CopyTrade!Running, Running, CopyTrade!Goes, Goes, CopyTrade!Key
<1> USE CopyIdle
<1>0. /\ CopyCards.key = "copytrade_settings" /\ CopyCards.load = "loadCopytrade"
      /\ CopyCards.new = "newCopytrade" /\ CopyCards.gone = "deletedCopytrade"
      /\ CopyCards.key \in Keys /\ WellNamed(CopyCards)
  BY CopyNamed
<1>1. CASE CopyTrade!NewCopytrade(c)
  <2>1. PICK o : o = [row |-> None, value |-> CopyTrade!NewForm]
    OBVIOUS
  <2>2. /\ Running(c) /\ Goes(c) /\ Head(calls[c].todo).do = "newCopytrade"
        /\ forms' = Append(forms, o) /\ clash' = clash
        /\ data' = [data EXCEPT !["copytrade_settings"] = Len(forms) + 1]
    BY <1>1, <2>1 DEF CopyTrade!NewCopytrade
  <2>3. o.row = None
    BY <2>1
  <2> QED
    BY <1>0, <2>2, <2>3, NewCards DEF CopyIInv
<1>2. CASE CopyTrade!LoadCopytrade(c)
  <2>1. PICK r \in DOMAIN rows :
          CopyTrade!Load(c, r, "loadCopytrade", "copytrade_settings", CopyTrade!AsForm(rows[r]))
    BY <1>2 DEF CopyTrade!LoadCopytrade
  <2>2. CASE ~Exists(r)
    <3>1. /\ Running(c) /\ Head(calls[c].todo).do = "loadCopytrade" /\ Ends(c)
          /\ UNCHANGED <<fsm, data, forms, rows, clash>>
      BY <2>1, <2>2 DEF CopyTrade!Load, CopyTrade!Exists, Exists, CopyTrade!Ends, Ends
    <3> QED
      BY <1>0, <3>1, MissingCards DEF CopyIInv
  <2>3. CASE Exists(r)
    <3>1. PICK o : o = [row |-> r, value |-> CopyTrade!AsForm(rows[r])]
      OBVIOUS
    <3>2. o.row = r /\ o.value = CopyTrade!AsForm(rows[r])
      BY <3>1
    <3>4. \A f \in DOMAIN o.value : Agrees(f, o.value[f], rows[o.row][f])
      BY <3>2 DEF CopyTrade!AsForm, CopyTrade!Field, Field, Agrees
    <3>3. /\ Running(c) /\ Head(calls[c].todo).do = "loadCopytrade" /\ Goes(c) /\ rows' = rows
          /\ forms' = Append(forms, o)
          /\ data' = [data EXCEPT !["copytrade_settings"] = Len(forms) + 1]
          /\ clash' = clash
      BY <2>1, <2>3, <3>1, <3>2 DEF CopyTrade!Load, CopyTrade!Exists, Exists
    <3> QED
      BY <1>0, <2>3, <3>2, <3>3, <3>4, LoadCards DEF CopyIInv
  <2> QED
    BY <2>2, <2>3
<1>3. CASE CopyTrade!ForgetCopytrade(c)
  <2>1. /\ Running(c) /\ Goes(c) /\ Head(calls[c].todo).do = "deletedCopytrade"
        /\ data' = [data EXCEPT !["copytrade_settings"] = None]
        /\ clash' = clash /\ forms' = forms /\ rows' = rows
    BY <1>3 DEF CopyTrade!ForgetCopytrade, CopyTrade!Forget
  <2> QED
    BY <1>0, <2>1, ForgetCards DEF CopyIInv
<1> QED
  BY <1>1, <1>2, <1>3

LEMMA CopyFields ==
  ASSUME NEW f, f \in (CopyField \ CopyFlag) \cup {"follow", "sandwich", "slippage", "active"}
  PROVE  ~Fieldless(f) /\ f # "form"
BY DEF CopyField, CopyFlag, Fieldless

\* Whatever a handler of the copy trades does, the cards stay right.
LEMMA CopyKeepsCards ==
  ASSUME CopyIInv, CardInv(CopyCards), NEW c \in Slot, CopyTrade!CopyTradeStep(c)
  PROVE  CardInv(CopyCards)'
<1>1. /\ WellNamed(CopyCards) /\ CopyCards.key \in Keys /\ CopyCards.key = "copytrade_settings"
      /\ CopyCards.creating = CopyTrade!Creating
  BY CopyNamed
<1>2. ASSUME NEW f, ~Fieldless(f), f # "form", NEW state, Inside(state, CopyTrade!Creating), NEW steps,
             Treated(c, "copytrade_settings", f, state, steps, CopyCards, CopyValue)
      PROVE  CardInv(CopyCards)'
  <2>1. ~clash /\ ~Meets(f) /\ fsm = state /\ data["copytrade_settings"] # None
          => forms[data["copytrade_settings"]].row = None
    BY <1>1, <1>2, CreatedRow
  <2> QED
    BY <1>1, <1>2, <2>1, TreatedCards DEF CopyIInv
<1>3. ASSUME NEW f, ~Fieldless(f), f # "form", NEW state, NEW steps, Does(steps, "read"),
             Treated(c, "copytrade_settings", f, state, steps, CopyCards, CopyValue)
      PROVE  CardInv(CopyCards)'
  BY <1>1, <1>3, TreatedCards DEF CopyIInv
<1>4. CASE \/ CopyTrade!create_set_address(c) \/ CopyTrade!create_set_alias(c)
           \/ CopyTrade!create_set_amount(c) \/ CopyTrade!create_set_priority(c)
           \/ CopyTrade!create_set_slippage(c)
  <2>1. PICK f \in CopyField \ CopyFlag :
          /\ Append(CopyTrade!Creating, f) # None
          /\ Treated(c, "copytrade_settings", f, Append(CopyTrade!Creating, f),
                     CopyTrade!TidyQuietly \o CopyTrade!Tell(CopyTrade!Creating), CopyCards, CopyValue)
    BY <1>4, CreateAnswersTreated
  <2>2. Inside(Append(CopyTrade!Creating, f), CopyTrade!Creating) /\ ~Fieldless(f) /\ f # "form"
    BY <2>1, CopyStates, CopyFields
  <2> QED
    BY <1>2, <2>1, <2>2
<1>5. CASE \/ CopyTrade!create_toggle_auto_follow(c) \/ CopyTrade!create_toggle_no_sell(c)
           \/ CopyTrade!create_toggle_anti_sandwich(c) \/ CopyTrade!create_toggle_auto_slippage(c)
  <2>1. PICK f \in {"follow", "sandwich", "slippage"} :
          Treated(c, "copytrade_settings", f, CopyTrade!Creating, CopyTrade!Tell(None), CopyCards, CopyValue)
    BY <1>5, CreatePressesTreated
  <2>2. Inside(CopyTrade!Creating, CopyTrade!Creating) /\ ~Fieldless(f) /\ f # "form"
    BY CopyStates, CopyFields
  <2> QED
    BY <1>2, <2>1, <2>2
<1>6. CASE \/ CopyTrade!edit_set_alias(c) \/ CopyTrade!edit_set_amount(c)
           \/ CopyTrade!edit_set_priority(c) \/ CopyTrade!edit_set_slippage(c)
  <2>1. PICK f \in CopyField \ CopyFlag : \E state, steps :
          /\ Does(steps, "read")
          /\ Treated(c, "copytrade_settings", f, state, steps, CopyCards, CopyValue)
    BY <1>6, EditAnswersTreated
  <2>2. ~Fieldless(f) /\ f # "form"
    BY CopyFields
  <2> QED
    BY <1>3, <2>1, <2>2
<1>7. CASE \/ CopyTrade!edit_toggle_auto_follow(c) \/ CopyTrade!edit_toggle_no_sell(c)
           \/ CopyTrade!edit_toggle_anti_sandwich(c) \/ CopyTrade!edit_toggle_auto_slippage(c)
           \/ CopyTrade!toggle_copytrade(c)
  <2>1. PICK f \in {"follow", "sandwich", "slippage", "active"} : \E steps :
          /\ Does(steps, "read")
          /\ Treated(c, "copytrade_settings", f, CopyTrade!Editing, steps, CopyCards, CopyValue)
    BY <1>7, EditPressesTreated
  <2>2. ~Fieldless(f) /\ f # "form"
    BY CopyFields
  <2> QED
    BY <1>3, <2>1, <2>2
<1> QED
  BY <1>4, <1>5, <1>6, <1>7, CopyLight, CopyAsks, CopyWhole, CopyDeletes, CopySubmits, CopyComes
  DEF CopyTrade!CopyTradeStep, CopyTrade!MenuHandlers, CopyTrade!CreateHandlers, CopyTrade!EditHandlers,
      CopyTrade!refresh_copytrade, CopyTrade!cancel_delete_copytrade

\* So does what handlers of all parts have in common.
LEMMA SharedKeepsCards ==
  ASSUME NEW V, NEW D, NEW N, Dialogue(V, D, N), None \notin V, \A v \in V, u \in V : DOMAIN v = DOMAIN u,
         NEW p, WellNamed(p), CardInv(p), p.key \in Keys, NEW c \in Slot,
         Receive(c) \/ Message(c) \/ Fail(c) \/ TableStep(c)
  PROVE  CardInv(p)'
BY ReceiveCards, MessageCards, FailCards, ReadCards, CommitCards, InsertCards, DeleteCards, ReadAllCards
DEF TableStep

-----------------------------------------------------------------------------
(***************************************************************************)
(* The cards of the monitors.                                              *)
(***************************************************************************)
LEMMA MonitorStates ==
  /\ Monitor!Editing # None /\ Monitor!Creating # None /\ Monitor!Menu # None
  /\ Inside(Monitor!Editing, Monitor!Editing)
  /\ ~Inside(Monitor!Creating, Monitor!Editing) /\ ~Inside(Monitor!Menu, Monitor!Editing)
  /\ ~Inside(None, Monitor!Editing) /\ ~Inside(None, <<>>)
  /\ ~Inside(Monitor!Editing, <<>>) /\ ~Inside(Monitor!Creating, <<>>) /\ ~Inside(Monitor!Menu, <<>>)
  /\ \A f : /\ ~Inside(Append(Monitor!Creating, f), Monitor!Editing)
            /\ ~Inside(Append(Monitor!Creating, f), <<>>) /\ ~Inside(Append(Monitor!Editing, f), <<>>)
            /\ Append(Monitor!Editing, f) # None => Inside(Append(Monitor!Editing, f), Monitor!Editing)
<1>1. Monitor!Editing # None /\ Monitor!Creating # None /\ Monitor!Menu # None
  BY BotAssumption
<1> QED
  BY <1>1, InsideTwo DEF Monitor!Editing, Monitor!Creating, Monitor!Menu

LEMMA MonitorNamed ==
  /\ MonitorCards.key = "monitor" /\ MonitorCards.home = Monitor!Editing
  /\ MonitorCards.creating = <<>> /\ MonitorCards.load = "loadMonitor"
  /\ MonitorCards.new = "none" /\ MonitorCards.gone = "deletedMonitor"
  /\ MonitorCards.key \in Keys /\ WellNamed(MonitorCards)
<1>1. /\ MonitorCards.key = "monitor" /\ MonitorCards.home = Monitor!Editing
      /\ MonitorCards.creating = <<>> /\ MonitorCards.load = "loadMonitor"
      /\ MonitorCards.new = "none" /\ MonitorCards.gone = "deletedMonitor"
  BY DEF MonitorCards
<1>2. WellNamed(MonitorCards)
  BY <1>1, MonitorStates DEF WellNamed
<1> QED
  BY <1>1, <1>2 DEF Keys

LEMMA MonitorMenus ==
  /\ LightSteps(Monitor!ShowMenu, MonitorCards) /\ LightSteps(Monitor!Tell(None), MonitorCards)
  /\ LightSteps(Monitor!Tell(Monitor!Creating), MonitorCards)
  /\ LightSteps(Monitor!Await("insert") \o Monitor!Tell(Monitor!Menu) \o Monitor!Tell(None), MonitorCards)
<1>1. PICK m, n, i, a : /\ m = [do |-> "tell", to |-> Monitor!Menu] /\ n = [do |-> "tell", to |-> None]
                        /\ i = [do |-> "insert", to |-> None]
                        /\ a = [do |-> "tell", to |-> Monitor!Creating]
  OBVIOUS
<1>2. /\ m.do = "tell" /\ m.to = Monitor!Menu /\ n.do = "tell" /\ n.to = None
      /\ i.do = "insert" /\ i.to = None /\ a.do = "tell" /\ a.to = Monitor!Creating
  BY <1>1
<1>3. /\ Monitor!ShowMenu = <<m>> /\ Monitor!Tell(None) = <<n>> /\ Monitor!Tell(Monitor!Menu) = <<m>>
      /\ Monitor!Tell(Monitor!Creating) = <<a>> /\ Monitor!Await("insert") = <<i>>
  BY <1>1 DEF Monitor!ShowMenu, Monitor!Tell, Monitor!Await
<1>4. LightSteps(<<m>>, MonitorCards)
  BY <1>2, StepOnly, MonitorStates, MonitorNamed DEF LightSteps, HasSteps
<1>5. LightSteps(<<n>>, MonitorCards)
  BY <1>2, StepOnly, MonitorStates, MonitorNamed DEF LightSteps, HasSteps
<1>6. LightSteps(<<a>>, MonitorCards)
  BY <1>2, StepOnly, MonitorStates, MonitorNamed DEF LightSteps, HasSteps
<1>7. PICK s : s = <<i>> \o <<m>> \o <<n>>
  OBVIOUS
<1>8. LightSteps(s, MonitorCards)
  <2>1. s = <<i>> \o <<m>> \o <<n>> => HasSteps(s, {i, m, n})
    BY StepsThree, Zenon
  <2>2. HasSteps(s, {i, m, n})
    BY <1>7, <2>1
  <2>3. i.do \in {"read", "readAll", "insert"} /\ (i.do = "read" => m.do = "commit")
          /\ m.do # "read" /\ n.do \notin {"read", "commit"} => Ordered(s)
    BY <1>7, StepsThree
  <2>4. Ordered(s)
    BY <1>2, <2>3
  <2> QED
    BY <1>2, <2>2, <2>4, MonitorStates, MonitorNamed DEF LightSteps, HasSteps
<1> QED
  BY <1>3, <1>4, <1>5, <1>6, <1>7, <1>8

LEMMA MonitorWholes ==
  /\ LET s == Monitor!Await("readAll") \o Monitor!Await("commit") \o Monitor!ShowMenu
     IN /\ Ordered(s) /\ Closes(s, MonitorCards) /\ ~Leads(s, <<>>)
        /\ \A i \in 1..Len(s) : s[i].do \in Awaited("form", MonitorCards)
  /\ LET s == Monitor!Await("loadMonitor") \o Monitor!Tell(Monitor!Editing)
     IN /\ Ordered(s) /\ Opens(s, MonitorCards) /\ s[1].do = MonitorCards.load /\ ~Does(s, "commit")
        /\ ~Leads(s, <<>>)
        /\ \A i \in 1..Len(s) : s[i].do \in Awaited("form", MonitorCards)
  /\ LET s == Monitor!Await("delete") \o Monitor!Await("deletedMonitor")
     IN /\ Ordered(s) /\ Closes(s, MonitorCards) /\ ~Leads(s, <<>>) /\ ~Does(s, "commit")
        /\ \A i \in 1..Len(s) : s[i].do \in Awaited("form", MonitorCards)
<1>1. PICK r, k, m, l, e, d, g :
        /\ r = [do |-> "readAll", to |-> None] /\ k = [do |-> "commit", to |-> None]
        /\ m = [do |-> "tell", to |-> Monitor!Menu]
        /\ l = [do |-> "loadMonitor", to |-> None] /\ e = [do |-> "tell", to |-> Monitor!Editing]
        /\ d = [do |-> "delete", to |-> None] /\ g = [do |-> "deletedMonitor", to |-> None]
  OBVIOUS
<1>2. /\ r.do = "readAll" /\ r.to = None /\ k.do = "commit" /\ k.to = None
      /\ m.do = "tell" /\ m.to = Monitor!Menu /\ l.do = "loadMonitor" /\ l.to = None
      /\ e.do = "tell" /\ e.to = Monitor!Editing /\ d.do = "delete" /\ d.to = None
      /\ g.do = "deletedMonitor" /\ g.to = None
  BY <1>1
<1>3. /\ Monitor!Await("readAll") = <<r>> /\ Monitor!Await("commit") = <<k>> /\ Monitor!ShowMenu = <<m>>
      /\ Monitor!Await("loadMonitor") = <<l>> /\ Monitor!Tell(Monitor!Editing) = <<e>>
      /\ Monitor!Await("delete") = <<d>> /\ Monitor!Await("deletedMonitor") = <<g>>
  BY <1>1 DEF Monitor!ShowMenu, Monitor!Tell, Monitor!Await
<1>4. \A x : x \in {"tell", "readAll", "commit", "delete", "loadMonitor", "deletedMonitor"}
               => x \in Awaited("form", MonitorCards)
  BY MonitorNamed DEF Awaited
<1>5. PICK s : s = <<r>> \o <<k>> \o <<m>>
  OBVIOUS
<1>6. /\ Ordered(s) /\ Closes(s, MonitorCards) /\ ~Leads(s, <<>>)
      /\ \A i \in 1..Len(s) : s[i].do \in Awaited("form", MonitorCards)
  <2>1. s[Len(s)] = m
    BY <1>5, StepsThree
  <2>2. s = <<r>> \o <<k>> \o <<m>> => HasSteps(s, {r, k, m})
    BY StepsThree, Zenon
  <2>3. HasSteps(s, {r, k, m})
    BY <1>5, <2>2
  <2>4. r.do \in {"read", "readAll", "insert"} /\ (r.do = "read" => k.do = "commit")
          /\ k.do # "read" /\ m.do \notin {"read", "commit"} => Ordered(s)
    BY <1>5, StepsThree
  <2>5. Ordered(s)
    BY <1>2, <2>4
  <2>6. Closes(s, MonitorCards)
    BY <1>2, <2>1, <2>3, MonitorStates, MonitorNamed DEF Closes, HasSteps
  <2> QED
    BY <1>2, <1>4, <2>3, <2>5, <2>6, MonitorStates DEF HasSteps
<1>9. PICK u : u = <<l>> \o <<e>>
  OBVIOUS
<1>10. /\ Ordered(u) /\ Opens(u, MonitorCards) /\ u[1].do = MonitorCards.load /\ ~Does(u, "commit")
       /\ ~Leads(u, <<>>)
       /\ \A i \in 1..Len(u) : u[i].do \in Awaited("form", MonitorCards)
  <2>1. Opens(u, MonitorCards)
    BY <1>1, <1>9, TwoOf, MonitorNamed DEF Opens
  <2>2. u[1] = l
    BY <1>9, StepsTwo
  <2>3. /\ HasSteps(u, {l, e})
        /\ l.do \notin {"read", "commit"} /\ e.do \notin {"read", "commit"} => Ordered(u)
    BY <1>9, StepsTwo
  <2>4. Ordered(u)
    BY <1>2, <2>3
  <2> QED
    BY <1>2, <1>4, <2>1, <2>2, <2>3, <2>4, MonitorStates, MonitorNamed DEF HasSteps
<1>11. PICK v : v = <<d>> \o <<g>>
  OBVIOUS
<1>12. /\ Ordered(v) /\ Closes(v, MonitorCards) /\ ~Leads(v, <<>>) /\ ~Does(v, "commit")
       /\ \A i \in 1..Len(v) : v[i].do \in Awaited("form", MonitorCards)
  <2>1. v[Len(v)] = g
    BY <1>11, StepsTwo
  <2>2. /\ HasSteps(v, {d, g})
        /\ d.do \notin {"read", "commit"} /\ g.do \notin {"read", "commit"} => Ordered(v)
    BY <1>11, StepsTwo
  <2>3. Ordered(v)
    BY <1>2, <2>2
  <2>4. Closes(v, MonitorCards)
    BY <1>2, <2>1, <2>2, MonitorStates, MonitorNamed DEF Closes, HasSteps
  <2> QED
    BY <1>2, <1>4, <2>2, <2>3, <2>4, MonitorStates DEF HasSteps
<1> QED
  BY <1>3, <1>5, <1>6, <1>9, <1>10, <1>11, <1>12

LEMMA MonitorFields ==
  ASSUME NEW f, NEW form
  PROVE  /\ FieldSteps(Monitor!Tell(Append(Monitor!Creating, f)), form, Monitor!Creating, MonitorCards)
         /\ FieldSteps(Monitor!Tell(Append(Monitor!Editing, f)), form, Monitor!Editing, MonitorCards)
         /\ FieldSteps(Monitor!TidyQuietly \o Monitor!Tell(Monitor!Creating), form,
                       Append(Monitor!Creating, f), MonitorCards)
         /\ Append(Monitor!Editing, f) # None /\ form # None /\ form = data["monitor"] =>
              FieldSteps(Monitor!TidyQuietly \o Monitor!Save \o Monitor!Tell(Monitor!Editing), form,
                         Append(Monitor!Editing, f), MonitorCards)
         /\ form # None /\ form = data["monitor"] =>
              FieldSteps(Monitor!Save \o Monitor!Tell(None), form, Monitor!Editing, MonitorCards)
         /\ Does(Monitor!TidyQuietly \o Monitor!Save \o Monitor!Tell(Monitor!Editing), "read")
         /\ Does(Monitor!Save \o Monitor!Tell(None), "read")
<1>1. \A t : Monitor!Tell(t) = Tell(t)
  BY DEF Monitor!Tell, Tell
<1>2. Monitor!TidyQuietly = TidyQuietly /\ Monitor!Save = Save
  BY DEF Monitor!TidyQuietly, TidyQuietly, Monitor!Save, Save
<1>3. MonitorCards.home = Monitor!Editing /\ MonitorCards.creating = <<>> /\ MonitorCards.key = "monitor"
  BY MonitorNamed
<1>4. FieldSteps(Monitor!Tell(Append(Monitor!Creating, f)), form, Monitor!Creating, MonitorCards)
  BY <1>1, <1>3, TellField, MonitorStates
<1>5. FieldSteps(Monitor!Tell(Append(Monitor!Editing, f)), form, Monitor!Editing, MonitorCards)
  BY <1>1, <1>3, TellField, MonitorStates
<1>6. FieldSteps(Monitor!TidyQuietly \o Monitor!Tell(Monitor!Creating), form,
                 Append(Monitor!Creating, f), MonitorCards)
  <2>1. ~Inside(Monitor!Creating, MonitorCards.home) /\ ~Inside(Monitor!Creating, MonitorCards.creating)
    BY <1>3, MonitorStates
  <2>2. \A state : FieldSteps(TidyQuietly \o Tell(Monitor!Creating), form, state, MonitorCards)
    BY <2>1, TidyField
  <2> QED
    BY <1>1, <1>2, <2>2
<1>7. PICK first : first = "tidy"
  OBVIOUS
<1>8. Monitor!TidyQuietly \o Monitor!Save \o Monitor!Tell(Monitor!Editing)
        = <<[do |-> first, to |-> None]>> \o Save \o Tell(Monitor!Editing)
  BY <1>1, <1>2, <1>7 DEF TidyQuietly
<1>9. Monitor!Save \o Monitor!Tell(None) = Save \o Tell(None)
  BY <1>1, <1>2
<1>10. ASSUME Append(Monitor!Editing, f) # None, form # None, form = data["monitor"]
       PROVE  FieldSteps(Monitor!TidyQuietly \o Monitor!Save \o Monitor!Tell(Monitor!Editing), form,
                         Append(Monitor!Editing, f), MonitorCards)
  <2>1. PICK state : state = Append(Monitor!Editing, f)
    OBVIOUS
  <2>2. /\ Inside(state, MonitorCards.home) /\ ~Inside(Monitor!Editing, MonitorCards.creating)
        /\ first \in {"tell", "tidy"} /\ form = data[MonitorCards.key]
    BY <1>3, <1>7, <1>10, <2>1, MonitorStates
  <2>3. FieldSteps(<<[do |-> first, to |-> None]>> \o Save \o Tell(Monitor!Editing), form, state, MonitorCards)
    BY <1>10, <2>2, TidySaveField
  <2> QED
    BY <1>8, <2>1, <2>3
<1>11. ASSUME form # None, form = data["monitor"]
       PROVE  FieldSteps(Monitor!Save \o Monitor!Tell(None), form, Monitor!Editing, MonitorCards)
  <2>1. ~Inside(None, MonitorCards.home) /\ ~Inside(None, MonitorCards.creating) /\ form = data[MonitorCards.key]
    BY <1>3, <1>11, InsideNone
  <2> QED
    BY <1>9, <1>11, <2>1, SaveField
<1> QED
  BY <1>4, <1>5, <1>6, <1>8, <1>9, <1>10, <1>11, SavesRead

LEMMA MonitorMeets == \A on : Monitor!Meets(on) = Meets(on)
BY DEF Monitor!Meets, Meets, Monitor!Running, Running, Monitor!SetBy, SetBy

LEMMA MonitorGuards ==
  ASSUME NEW u \in MonitorValue
  PROVE  /\ \A f \in {"target", "alias"}, n \in {1, 2} : Guards(f, MonitorValue, u, [u EXCEPT ![f] = n])
         /\ Guards("active", MonitorValue, u, Monitor!FlipActive(u))
<1>1. \A f : f \in SetBy(f)
  BY DEF SetBy
<1>2. ASSUME NEW f \in {"target", "alias"}, NEW n \in {1, 2}
      PROVE  Guards(f, MonitorValue, u, [u EXCEPT ![f] = n])
  <2>1. PICK v : v = [u EXCEPT ![f] = n]
    OBVIOUS
  <2>2. DOMAIN v = DOMAIN u /\ \A g \in DOMAIN u : g # f => v[g] = u[g]
    BY <2>1
  <2>3. Guards(f, MonitorValue, u, v)
    BY <1>1, <2>2, SetByGuards
  <2> QED
    BY <2>1, <2>3
<1>3. PICK y : y = Monitor!FlipActive(u)
  OBVIOUS
<1>4. DOMAIN y = DOMAIN u /\ \A g \in DOMAIN u : g # "active" => y[g] = u[g]
  BY <1>3, MonitorValueFields DEF Monitor!FlipActive
<1>5. Guards("active", MonitorValue, u, y)
  BY <1>1, <1>4, SetByGuards
<1> QED
  BY <1>2, <1>3, <1>5

\* A form that is created has no row while it is in the data.
LEMMA NewMonitorStays ==
  ASSUME NEW V, NEW D, NEW N, Dialogue(V, D, N), NewMonitor,
         data'["monitor_settings"] = data["monitor_settings"],
         \/ forms' = forms
         \/ \E o : forms' = Append(forms, o)
         \/ \E i \in 1..Len(forms) : \E v : forms' = [forms EXCEPT ![i].value = v]
  PROVE  NewMonitor'
<1>1. PICK k : k = data["monitor_settings"]
  OBVIOUS
<1>2. k # None => k \in 1..Len(forms) /\ forms[k].row = None
  BY <1>1 DEF NewMonitor, Dialogue, Keys
<1>3. k # None => forms'[k].row = None
  <2>1. CASE forms' = forms
    BY <1>2, <2>1
  <2>2. CASE \E o : forms' = Append(forms, o)
    BY <1>2, <2>2 DEF Dialogue
  <2>3. CASE \E i \in 1..Len(forms) : \E v : forms' = [forms EXCEPT ![i].value = v]
    <3>1. PICK i \in 1..Len(forms) : \E v : forms' = [forms EXCEPT ![i].value = v]
      BY <2>3
    <3>2. PICK v : forms' = [forms EXCEPT ![i].value = v]
      BY <3>1
    <3>3. forms[i] \in Form(V)
      BY DEF Dialogue
    <3>4. forms'[i].row = forms[i].row /\ \A j \in 1..Len(forms) : j # i => forms'[j] = forms[j]
      <4>1. forms \in Seq(Form(V))
        BY DEF Dialogue
      <4> QED
        BY <3>2, <3>3, <4>1 DEF Form
    <3> QED
      BY <1>2, <3>4
  <2> QED
    BY <2>1, <2>2, <2>3
<1> QED
  BY <1>1, <1>3 DEF NewMonitor

MonitorShown == CardInv(MonitorCards) /\ NewMonitor

LEMMA MonitorLight ==
  ASSUME MonitorIInv, MonitorShown, NEW c \in Slot,
         \/ Monitor!enter_monitor_menu(c) \/ Monitor!back_parent(c) \/ Monitor!delete_monitor(c)
         \/ Monitor!back_to_monitor(c)
  PROVE  MonitorShown'
<1>1. /\ Arrived(c) /\ rows' = rows /\ forms' = forms /\ fsm' = fsm /\ (clash => clash')
      /\ data'["monitor"] \in {data["monitor"], None}
      /\ data'["monitor_settings"] = data["monitor_settings"]
      /\ Started(c, "", None, Monitor!ShowMenu) \/ Started(c, "", None, Monitor!Tell(None))
  <2> USE MonitorIdle
  <2> USE DEF Started, Monitor!Runs, Monitor!Arrived, Arrived, Monitor!Key
  <2>1. CASE Monitor!enter_monitor_menu(c)
    BY <2>1 DEF Monitor!enter_monitor_menu
  <2>2. CASE Monitor!back_parent(c)
    BY <2>2 DEF Monitor!back_parent
  <2>3. CASE Monitor!delete_monitor(c)
    BY <2>3 DEF Monitor!delete_monitor
  <2>4. CASE Monitor!back_to_monitor(c)
    <3>1. "monitor" \in DOMAIN data /\ "monitor_settings" \in DOMAIN data
      BY DEF MonitorIInv, Dialogue, Keys
    <3> QED
      BY <2>4, <3>1 DEF Monitor!back_to_monitor
  <2> QED
    BY <2>1, <2>2, <2>3, <2>4
<1>2. NewMonitor'
  BY <1>1, NewMonitorStays DEF MonitorShown, MonitorIInv
<1>3. CardInv(MonitorCards)'
  BY <1>1, MonitorMenus, MonitorNamed, ShownCards DEF MonitorIInv, MonitorShown
<1> QED
  BY <1>2, <1>3 DEF MonitorShown

LEMMA MonitorCreates ==
  ASSUME MonitorIInv, MonitorShown, NEW c \in Slot, Monitor!create_new_monitor(c)
  PROVE  MonitorShown'
<1>1. PICK o : o = [row |-> None, value |-> Monitor!NewForm]
  OBVIOUS
<1>2. /\ Arrived(c) /\ rows' = rows /\ fsm' = fsm /\ (clash => clash')
      /\ forms' = Append(forms, o) /\ data' = [data EXCEPT !["monitor_settings"] = Len(forms) + 1]
      /\ Started(c, "", None, Monitor!Tell(Monitor!Creating))
  BY <1>1, MonitorIdle
  DEF Monitor!create_new_monitor, Started, Monitor!Runs, Monitor!Arrived, Arrived, Monitor!NewKey
<1>3. data'["monitor"] = data["monitor"] /\ data'["monitor_settings"] = Len(forms) + 1
  BY <1>2 DEF MonitorIInv, Dialogue, Keys
<1>4. NewMonitor'
  <2>1. o.row = None
    BY <1>1
  <2>2. forms'[Len(forms) + 1] = o
    <3>1. PICK S : forms \in Seq(S)
      BY DEF MonitorIInv, Dialogue
    <3>2. Len(forms) \in Nat /\ Append(forms, o)[Len(forms) + 1] = o
      BY <3>1
    <3> QED
      BY <1>2, <3>2
  <2> QED
    BY <1>3, <2>1, <2>2 DEF NewMonitor
<1>5. CardInv(MonitorCards)'
  BY <1>2, <1>3, MonitorMenus, MonitorNamed, ShownCards DEF MonitorIInv, MonitorShown
<1> QED
  BY <1>4, <1>5 DEF MonitorShown

LEMMA MonitorSubmits ==
  ASSUME MonitorIInv, MonitorShown, NEW c \in Slot, Monitor!submit_monitor(c)
  PROVE  MonitorShown'
<1>1. Arrived(c) /\ rows' = rows /\ data' = data /\ fsm' = fsm
  BY DEF Monitor!submit_monitor, Monitor!Arrived, Arrived
<1>2. CASE Ends(c) /\ forms' = forms /\ clash' = clash
  <2>1. Idle.todo = <<>> /\ Fieldless(Idle.on) /\ Idle.write = {}
    BY DEF Idle, Fieldless
  <2>2. calls[c].todo = <<>> /\ calls' = [calls EXCEPT ![c] = Idle]
    BY <1>1, <1>2, ArrivedIdle DEF Ends, MonitorShown
  <2>3. CardInv(MonitorCards)'
    BY <1>1, <1>2, <2>1, <2>2, EndsCards, MonitorNamed DEF MonitorIInv, MonitorShown
  <2>4. NewMonitor'
    BY <1>1, <1>2, NewMonitorStays DEF MonitorShown, MonitorIInv
  <2> QED
    BY <2>3, <2>4 DEF MonitorShown
<1>3. CASE ~(Ends(c) /\ forms' = forms /\ clash' = clash)
  <2>1. /\ \E o : forms' = Append(forms, o)
        /\ Started(c, "", Len(forms) + 1, Monitor!Await("insert") \o Monitor!Tell(Monitor!Menu) \o Monitor!Tell(None))
        /\ clash => clash'
    BY <1>3, MonitorIdle DEF Monitor!submit_monitor, Monitor!NewKey, Monitor!Ends, Ends,
                          Monitor!Runs, Started
  <2>2. CardInv(MonitorCards)'
    BY <1>1, <2>1, MonitorMenus, MonitorNamed, ShownCards DEF MonitorIInv, MonitorShown
  <2>3. NewMonitor'
    BY <1>1, <2>1, NewMonitorStays DEF MonitorShown, MonitorIInv
  <2> QED
    BY <2>2, <2>3 DEF MonitorShown
<1> QED
  BY <1>2, <1>3

LEMMA MonitorAsks ==
  ASSUME MonitorIInv, MonitorShown, NEW c \in Slot,
         \/ Monitor!create_start_set_address(c) \/ Monitor!create_start_set_alias(c)
         \/ Monitor!edit_start_set_alias(c)
  PROVE  MonitorShown'
<1>1. PICK f : Monitor!Ask(c, Monitor!Creating, f) \/ Monitor!Ask(c, Monitor!Editing, f)
  BY DEF Monitor!create_start_set_address, Monitor!create_start_set_alias, Monitor!edit_start_set_alias
<1>2. PICK state : state \in {Monitor!Creating, Monitor!Editing} /\ Monitor!Ask(c, state, f)
  BY <1>1
<1>3. FieldSteps(Monitor!Tell(Append(state, f)), None, state, MonitorCards)
  BY <1>2, MonitorFields
<1>4. PICK steps : steps = Monitor!Tell(Append(state, f))
  OBVIOUS
<1>5. /\ Arrived(c) /\ Started(c, "prompt", None, steps)
      /\ rows' = rows /\ data' = data /\ fsm' = fsm /\ forms' = forms
      /\ clash' = (clash \/ Meets("prompt") \/ fsm # state)
  BY <1>2, <1>4, MonitorIdle, MonitorMeets
  DEF Monitor!Ask, Monitor!RunsIn, Monitor!Arrived, Arrived, Started
<1>6. CardInv(MonitorCards)'
  BY <1>3, <1>4, <1>5, MonitorNamed, AskedCards DEF MonitorIInv, MonitorShown
<1>7. NewMonitor'
  BY <1>5, NewMonitorStays DEF MonitorShown, MonitorIInv
<1> QED
  BY <1>6, <1>7 DEF MonitorShown

LEMMA MonitorWhole ==
  ASSUME MonitorIInv, MonitorShown, NEW c \in Slot,
         Monitor!stop_all_monitor(c) \/ Monitor!handle_monitor_selection(c)
  PROVE  MonitorShown'
<1>1. PICK steps :
        /\ \/ steps = Monitor!Await("readAll") \o Monitor!Await("commit") \o Monitor!ShowMenu
           \/ steps = Monitor!Await("loadMonitor") \o Monitor!Tell(Monitor!Editing)
        /\ Arrived(c) /\ Started(c, "form", None, steps)
        /\ rows' = rows /\ data' = data /\ fsm' = fsm /\ forms' = forms
        /\ clash' = (clash \/ Meets("form"))
  <2> USE MonitorIdle, MonitorMeets
  <2> USE DEF Started, Monitor!Runs, Monitor!Arrived, Arrived
  <2>1. CASE Monitor!stop_all_monitor(c)
    BY <2>1 DEF Monitor!stop_all_monitor
  <2>2. CASE Monitor!handle_monitor_selection(c)
    BY <2>2 DEF Monitor!handle_monitor_selection
  <2> QED
    BY <2>1, <2>2
<1>2. /\ Ordered(steps) /\ \A i \in 1..Len(steps) : steps[i].do \in Awaited("form", MonitorCards)
      /\ (Opens(steps, MonitorCards) /\ steps[1].do = MonitorCards.load) \/ Closes(steps, MonitorCards)
      /\ Leads(steps, MonitorCards.creating) => steps[1].do = MonitorCards.new
  BY <1>1, MonitorWholes, MonitorNamed
<1>3. CardInv(MonitorCards)'
  BY <1>1, <1>2, MonitorNamed, WholeCards DEF MonitorIInv, MonitorShown
<1>4. NewMonitor'
  BY <1>1, NewMonitorStays DEF MonitorShown, MonitorIInv
<1> QED
  BY <1>3, <1>4 DEF MonitorShown

\* A change of a monitor, of the one that is created or of a card.
LEMMA ChangeTreated ==
  ASSUME MonitorIInv, NEW c \in Slot, NEW key \in Keys, NEW f, NEW state, NEW steps,
         Arrived(c), rows' = rows, data' = data, fsm' = fsm,
         data[key] # None => FieldSteps(steps, data[key], state, MonitorCards),
         \/ Ends(c) /\ forms' = forms /\ clash' = clash
         \/ /\ data[key] # None /\ Started(c, f, data[key], steps)
            /\ clash' = (clash \/ Meets(f) \/ fsm # state)
            /\ \E u, v :
                 /\ u = forms[data[key]].value /\ forms' = [forms EXCEPT ![data[key]].value = v]
                 /\ \/ f \in {"target", "alias"} /\ \E n \in {1, 2} : v = [u EXCEPT ![f] = n]
                    \/ f = "active" /\ v = Monitor!FlipActive(u)
  PROVE  /\ Treated(c, key, f, state, steps, MonitorCards, MonitorValue)
         /\ forms' = forms \/ \E i \in 1..Len(forms) : \E v : forms' = [forms EXCEPT ![i].value = v]
<1>2. CASE Ends(c) /\ forms' = forms /\ clash' = clash
  BY <1>2 DEF Treated
<1>3. CASE ~(Ends(c) /\ forms' = forms /\ clash' = clash)
  <2>1. PICK u, v :
          /\ u = forms[data[key]].value /\ forms' = [forms EXCEPT ![data[key]].value = v]
          /\ \/ f \in {"target", "alias"} /\ \E n \in {1, 2} : v = [u EXCEPT ![f] = n]
             \/ f = "active" /\ v = Monitor!FlipActive(u)
    BY <1>3
  <2>2. /\ data[key] # None /\ Started(c, f, data[key], steps)
        /\ FieldSteps(steps, data[key], state, MonitorCards)
        /\ clash' = (clash \/ Meets(f) \/ fsm # state)
    BY <1>3
  <2>3. u \in MonitorValue
    BY <2>1, <2>2, MonitorFormValue
  <2>4. Guards(f, MonitorValue, u, v)
    <3>1. CASE f \in {"target", "alias"} /\ \E n \in {1, 2} : v = [u EXCEPT ![f] = n]
      <4>1. PICK n \in {1, 2} : v = [u EXCEPT ![f] = n]
        BY <3>1
      <4>2. Guards(f, MonitorValue, u, [u EXCEPT ![f] = n])
        BY <2>3, <3>1, MonitorGuards
      <4> QED
        BY <4>1, <4>2
    <3>2. CASE f = "active" /\ v = Monitor!FlipActive(u)
      BY <2>3, <3>2, MonitorGuards
    <3> QED
      BY <2>1, <3>1, <3>2
  <2>5. Alters(c, key, f, state, steps, MonitorCards, MonitorValue)
    BY <2>1, <2>2, <2>4 DEF Alters
  <2>6. data[key] \in 1..Len(forms)
    BY <2>2 DEF MonitorIInv, Dialogue
  <2> QED
    BY <2>1, <2>5, <2>6 DEF Treated
<1> QED
  BY <1>2, <1>3

LEMMA MonitorAnswered ==
  ASSUME MonitorIInv, MonitorShown, NEW c \in Slot, Monitor!create_set_address(c) \/ Monitor!create_set_alias(c)
  PROVE  MonitorShown'
<1> DEFINE key == "monitor_settings"
           steps == Monitor!TidyQuietly \o Monitor!Tell(Monitor!Creating)
<1>1. key \in Keys
  BY DEF Keys
<1>2. ASSUME NEW f PROVE FieldSteps(steps, data[key], Append(Monitor!Creating, f), MonitorCards)
  BY MonitorFields
<1> HIDE DEF steps
<1>3. PICK f \in {"target", "alias"} :
        /\ Arrived(c) /\ rows' = rows /\ data' = data /\ fsm' = fsm
        /\ \/ Ends(c) /\ forms' = forms /\ clash' = clash
           \/ /\ data[key] # None /\ Started(c, f, data[key], steps)
              /\ clash' = (clash \/ Meets(f) \/ fsm # Append(Monitor!Creating, f))
              /\ \E n \in {1, 2} : forms' = [forms EXCEPT ![data[key]].value = [forms[data[key]].value EXCEPT ![f] = n]]
  <2> USE DEF Monitor!CreateAnswer, Monitor!Answer, Monitor!Unchanged, Monitor!RunsIn, Monitor!Arrived, Arrived,
              Monitor!Ends, Ends, Monitor!NewKey, Started, Monitor!Names, steps
  <2> USE MonitorIdle, MonitorMeets
  <2>1. CASE Monitor!create_set_address(c)
    BY <2>1 DEF Monitor!create_set_address
  <2>2. CASE Monitor!create_set_alias(c)
    BY <2>2 DEF Monitor!create_set_alias
  <2> QED
    BY <2>1, <2>2
<1>4. /\ Treated(c, key, f, Append(Monitor!Creating, f), steps, MonitorCards, MonitorValue)
      /\ forms' = forms \/ \E i \in 1..Len(forms) : \E v : forms' = [forms EXCEPT ![i].value = v]
  <2>1. ~(Ends(c) /\ forms' = forms /\ clash' = clash) =>
          \E u, v : /\ u = forms[data[key]].value /\ forms' = [forms EXCEPT ![data[key]].value = v]
                   /\ \E n \in {1, 2} : v = [u EXCEPT ![f] = n]
    <3>1. SUFFICES ASSUME ~(Ends(c) /\ forms' = forms /\ clash' = clash)
                   PROVE  \E u, v : /\ u = forms[data[key]].value /\ forms' = [forms EXCEPT ![data[key]].value = v]
                                   /\ \E n \in {1, 2} : v = [u EXCEPT ![f] = n]
      OBVIOUS
    <3>2. PICK n \in {1, 2} : forms' = [forms EXCEPT ![data[key]].value = [forms[data[key]].value EXCEPT ![f] = n]]
      BY <1>3, <3>1
    <3>3. PICK u, v : u = forms[data[key]].value /\ v = [u EXCEPT ![f] = n]
      OBVIOUS
    <3>4. forms' = [forms EXCEPT ![data[key]].value = v]
      BY <3>2, <3>3
    <3> QED
      BY <3>3, <3>4
  <2>2. \/ Ends(c) /\ forms' = forms /\ clash' = clash
        \/ /\ data[key] # None /\ Started(c, f, data[key], steps)
           /\ clash' = (clash \/ Meets(f) \/ fsm # Append(Monitor!Creating, f))
           /\ \E u, v :
                /\ u = forms[data[key]].value /\ forms' = [forms EXCEPT ![data[key]].value = v]
                /\ \/ f \in {"target", "alias"} /\ \E n \in {1, 2} : v = [u EXCEPT ![f] = n]
                   \/ f = "active" /\ v = Monitor!FlipActive(u)
    BY <1>3, <2>1
  <2> QED
    BY <1>1, <1>2, <1>3, <2>2, ChangeTreated
<1>5. NewMonitor'
  BY <1>3, <1>4, NewMonitorStays DEF MonitorIInv, MonitorShown
<1>6. CardInv(MonitorCards)'
  <2>1. ~Fieldless(f) /\ f # "form"
    BY <1>3 DEF Fieldless
  <2>2. data[key] # None => forms[data[key]].row = None
    BY DEF MonitorShown, NewMonitor
  <2> QED
    BY <1>1, <1>4, <2>1, <2>2, MonitorNamed, TreatedCards DEF MonitorIInv, MonitorShown
<1> QED
  BY <1>5, <1>6 DEF MonitorShown

LEMMA MonitorEdited ==
  ASSUME MonitorIInv, MonitorShown, NEW c \in Slot, Monitor!edit_set_alias(c) \/ Monitor!toggle_monitor(c)
  PROVE  MonitorShown'
<1> DEFINE key == "monitor"
           Step(f, state, steps) ==
             /\ Arrived(c) /\ rows' = rows /\ data' = data /\ fsm' = fsm
             /\ \/ Ends(c) /\ forms' = forms /\ clash' = clash
                \/ /\ data[key] # None /\ Started(c, f, data[key], steps)
                   /\ clash' = (clash \/ Meets(f) \/ fsm # state)
                   /\ \E u, v :
                        /\ u = forms[data[key]].value /\ forms' = [forms EXCEPT ![data[key]].value = v]
                        /\ \/ f \in {"target", "alias"} /\ \E n \in {1, 2} : v = [u EXCEPT ![f] = n]
                           \/ f = "active" /\ v = Monitor!FlipActive(u)
<1>1. key \in Keys
  BY DEF Keys
<1>2. \E f \in {"alias", "active"} : \E state, steps :
        /\ Step(f, state, steps) /\ Does(steps, "read")
        /\ data[key] # None => FieldSteps(steps, data[key], state, MonitorCards)
  <2> USE DEF Monitor!Answer, Monitor!Press, Monitor!Unchanged, Monitor!RunsIn, Monitor!Arrived, Arrived,
              Monitor!Ends, Ends, Monitor!Key, Started, Monitor!Names
  <2> USE MonitorIdle, MonitorMeets
  <2>1. CASE Monitor!edit_set_alias(c)
    <3>1. PICK steps : steps = Monitor!TidyQuietly \o Monitor!Save \o Monitor!Tell(Monitor!Editing)
      OBVIOUS
    <3>2. PICK state : state = Append(Monitor!Editing, "alias")
      OBVIOUS
    <3>3. Step("alias", state, steps) /\ state # None
      BY <2>1, <3>1, <3>2 DEF Monitor!edit_set_alias
    <3>4. Does(steps, "read") /\ (data[key] # None => FieldSteps(steps, data[key], state, MonitorCards))
      BY <3>1, <3>2, <3>3, MonitorFields
    <3> HIDE DEF Step
    <3> QED
      BY <3>3, <3>4
  <2>2. CASE Monitor!toggle_monitor(c)
    <3>1. PICK steps : steps = Monitor!Save \o Monitor!Tell(None)
      OBVIOUS
    <3>3. Step("active", Monitor!Editing, steps)
      BY <2>2, <3>1 DEF Monitor!toggle_monitor
    <3>4. Does(steps, "read") /\ (data[key] # None => FieldSteps(steps, data[key], Monitor!Editing, MonitorCards))
      BY <3>1, MonitorFields
    <3> HIDE DEF Step
    <3> QED
      BY <3>3, <3>4
  <2> QED
    BY <2>1, <2>2
<1>3. PICK f \in {"alias", "active"} : \E state, steps :
        /\ Step(f, state, steps) /\ Does(steps, "read")
        /\ data[key] # None => FieldSteps(steps, data[key], state, MonitorCards)
  BY <1>2
<1>4. PICK state, steps :
        /\ Step(f, state, steps) /\ Does(steps, "read")
        /\ data[key] # None => FieldSteps(steps, data[key], state, MonitorCards)
  BY <1>3
<1>5. /\ Treated(c, key, f, state, steps, MonitorCards, MonitorValue)
      /\ forms' = forms \/ \E i \in 1..Len(forms) : \E v : forms' = [forms EXCEPT ![i].value = v]
  BY <1>1, <1>4, ChangeTreated
<1>6. NewMonitor'
  BY <1>4, <1>5, NewMonitorStays DEF MonitorIInv, MonitorShown
<1>7. CardInv(MonitorCards)'
  <2>1. ~Fieldless(f) /\ f # "form"
    BY <1>3 DEF Fieldless
  <2> QED
    BY <1>1, <1>4, <1>5, <2>1, MonitorNamed, TreatedCards DEF MonitorIInv, MonitorShown
<1> QED
  BY <1>6, <1>7 DEF MonitorShown

LEMMA MonitorDeletes ==
  ASSUME MonitorIInv, MonitorShown, NEW c \in Slot, Monitor!confirm_delete_monitor(c)
  PROVE  MonitorShown'
<1> DEFINE key == "monitor"
<1>1. PICK steps : steps = Monitor!Await("delete") \o Monitor!Await("deletedMonitor")
  OBVIOUS
<1>2. key \in Keys /\ Arrived(c) /\ rows' = rows /\ data' = data /\ fsm' = fsm
  BY DEF Monitor!confirm_delete_monitor, Monitor!Press, Monitor!Arrived, Arrived, Keys
<1>3. CASE Ends(c) /\ forms' = forms /\ clash' = clash
  <2>1. Idle.todo = <<>> /\ Fieldless(Idle.on) /\ Idle.write = {}
    BY DEF Idle, Fieldless
  <2>2. calls[c].todo = <<>> /\ calls' = [calls EXCEPT ![c] = Idle]
    BY <1>2, <1>3, ArrivedIdle DEF Ends, MonitorShown
  <2>3. CardInv(MonitorCards)'
    BY <1>2, <1>3, <2>1, <2>2, EndsCards, MonitorNamed DEF MonitorIInv, MonitorShown
  <2>4. NewMonitor'
    BY <1>2, <1>3, NewMonitorStays DEF MonitorShown, MonitorIInv
  <2> QED
    BY <2>3, <2>4 DEF MonitorShown
<1>4. CASE ~(Ends(c) /\ forms' = forms /\ clash' = clash)
  <2>1. /\ data[key] # None /\ Started(c, "form", data[key], steps)
        /\ clash' = (clash \/ Meets("form") \/ fsm # Monitor!Editing)
        /\ \E v : v = forms[data[key]].value /\ forms' = [forms EXCEPT ![data[key]].value = v]
    BY <1>1, <1>4, MonitorIdle, MonitorMeets
    DEF Monitor!confirm_delete_monitor, Monitor!Press, Monitor!Unchanged, Monitor!RunsIn,
        Monitor!Ends, Ends, Monitor!Key, Started
  <2>2. forms' = forms
    <3>1. forms \in Seq(Form(MonitorValue)) /\ data[key] \in 1..Len(forms)
      BY <1>2, <2>1 DEF MonitorIInv, Dialogue
    <3> QED
      BY <2>1, <3>1, SameForm
  <2>3. /\ Ordered(steps) /\ Closes(steps, MonitorCards) /\ ~Leads(steps, MonitorCards.creating)
        /\ ~Does(steps, "commit")
        /\ \A i \in 1..Len(steps) : steps[i].do \in Awaited("form", MonitorCards)
    BY <1>1, MonitorWholes, MonitorNamed
  <2>4. CardInv(MonitorCards)'
    BY <1>2, <2>1, <2>2, <2>3, MonitorNamed, WholeCards DEF MonitorIInv, MonitorShown
  <2>5. NewMonitor'
    BY <1>2, <2>2, NewMonitorStays DEF MonitorShown, MonitorIInv
  <2> QED
    BY <2>4, <2>5 DEF MonitorShown
<1> QED
  BY <1>3, <1>4

LEMMA MonitorComes ==
  ASSUME MonitorIInv, MonitorShown, NEW c \in Slot, Monitor!LoadMonitor(c) \/ Monitor!ForgetMonitor(c)
  PROVE  MonitorShown'
<1> USE DEF Monitor!At, Monitor!Running, Running, Monitor!Goes, Goes, Monitor!Key
<1> USE MonitorIdle
<1>0. /\ MonitorCards.key = "monitor" /\ MonitorCards.load = "loadMonitor"
      /\ MonitorCards.gone = "deletedMonitor"
      /\ MonitorCards.key \in Keys /\ WellNamed(MonitorCards)
  BY MonitorNamed
<1>2. CASE Monitor!LoadMonitor(c)
  <2>1. PICK r \in DOMAIN rows : Monitor!Load(c, r, "loadMonitor", "monitor", rows[r])
    BY <1>2 DEF Monitor!LoadMonitor
  <2>2. CASE ~Exists(r)
    <3>1. /\ Running(c) /\ Head(calls[c].todo).do = "loadMonitor" /\ Ends(c)
          /\ UNCHANGED <<fsm, data, forms, rows, clash>>
      BY <2>1, <2>2 DEF Monitor!Load, Monitor!Exists, Exists, Monitor!Ends, Ends
    <3>2. CardInv(MonitorCards)'
      BY <1>0, <3>1, MissingCards DEF MonitorIInv, MonitorShown
    <3>3. NewMonitor'
      BY <3>1, NewMonitorStays DEF MonitorShown, MonitorIInv
    <3> QED
      BY <3>2, <3>3 DEF MonitorShown
  <2>3. CASE Exists(r)
    <3>1. PICK o : o = [row |-> r, value |-> rows[r]]
      OBVIOUS
    <3>2. o.row = r /\ o.value = rows[r]
      BY <3>1
    <3>3. /\ Running(c) /\ Head(calls[c].todo).do = "loadMonitor" /\ Goes(c) /\ rows' = rows
          /\ forms' = Append(forms, o)
          /\ data' = [data EXCEPT !["monitor"] = Len(forms) + 1]
          /\ clash' = clash
      BY <2>1, <2>3, <3>1, <3>2 DEF Monitor!Load, Monitor!Exists, Exists
    <3>7. \A f \in DOMAIN o.value : Agrees(f, o.value[f], rows[o.row][f])
      <4>1. rows[r] \in MonitorValue
        BY <2>3 DEF Exists, MonitorIInv, Dialogue
      <4>2. \A f \in DOMAIN rows[r] : f \notin {"slippage", "amount"}
        BY <4>1, MonitorValueFields
      <4> QED
        BY <3>2, <4>2 DEF Agrees, Field
    <3>4. CardInv(MonitorCards)'
      BY <1>0, <2>3, <3>2, <3>3, <3>7, LoadCards DEF MonitorIInv, MonitorShown
    <3>5. data'["monitor_settings"] = data["monitor_settings"]
      BY <3>3 DEF MonitorIInv, Dialogue, Keys
    <3>6. NewMonitor'
      BY <3>3, <3>5, NewMonitorStays DEF MonitorShown, MonitorIInv
    <3> QED
      BY <3>4, <3>6 DEF MonitorShown
  <2> QED
    BY <2>2, <2>3
<1>3. CASE Monitor!ForgetMonitor(c)
  <2>1. /\ Running(c) /\ Goes(c) /\ Head(calls[c].todo).do = "deletedMonitor"
        /\ data' = [data EXCEPT !["monitor"] = None]
        /\ clash' = clash /\ forms' = forms /\ rows' = rows
    BY <1>3 DEF Monitor!ForgetMonitor, Monitor!Forget
  <2>2. CardInv(MonitorCards)'
    BY <1>0, <2>1, ForgetCards DEF MonitorIInv, MonitorShown
  <2>3. data'["monitor_settings"] = data["monitor_settings"]
    BY <2>1 DEF MonitorIInv, Dialogue, Keys
  <2>4. NewMonitor'
    BY <2>1, <2>3, NewMonitorStays DEF MonitorShown, MonitorIInv
  <2> QED
    BY <2>2, <2>4 DEF MonitorShown
<1> QED
  BY <1>2, <1>3

\* Whatever a handler of the monitors does, the cards stay right.
LEMMA MonitorKeepsCards ==
  ASSUME MonitorIInv, MonitorShown, NEW c \in Slot, Monitor!MonitorStep(c)
  PROVE  MonitorShown'
BY MonitorLight, MonitorCreates, MonitorSubmits, MonitorAsks, MonitorWhole, MonitorAnswered, MonitorEdited,
   MonitorDeletes, MonitorComes
DEF Monitor!MonitorStep, Monitor!cancel_delete_monitor

-----------------------------------------------------------------------------
(***************************************************************************)
(* What the cards show.                                                    *)
(***************************************************************************)
\* When nobody is at work, the card shows what the table holds.
LEMMA CardSaved ==
  ASSUME NEW p, CardInv(p), ~clash, \A c \in Slot : ~Running(c), Inside(fsm, p.home),
         data[p.key] # None, NEW o, o = forms[data[p.key]], o.row # None
  PROVE  /\ Exists(o.row)
         /\ \A f \in DOMAIN o.value : Agrees(f, o.value[f], rows[o.row][f])
<1>1. PICK i : i = data[p.key]
  OBVIOUS
<1>2. Attended(p)
  BY DEF Attended
<1>3. \A c \in Slot : calls[c].todo = <<>>
  BY DEF Running
<1>4. ~Replaced(p)
  BY <1>3 DEF Replaced
<1>5. SavedOrDue(i)
  BY <1>1, <1>2, <1>4 DEF CardInv, CardKept
<1>6. \A c \in Slot : \A f : ~WillSave(calls[c], i, f)
  BY <1>3, NoneLeft DEF WillSave
<1> QED
  BY <1>1, <1>5, <1>6 DEF SavedOrDue

\* A chat always has a state, the empty one if it has no other.
LEMMA GoesThere ==
  ASSUME fsm # None, NEW c \in Slot, Goes(c) PROVE fsm' # None
BY DEF Goes

LEMMA CopyStateThere ==
  ASSUME fsm # None, NEW c \in Slot, CopyTrade!CopyTradeStep(c) PROVE fsm' # None
<1>0. CopyTrade!Creating # None /\ CopyTrade!Editing # None
  BY BotAssumption
<1>1. CASE CopyTrade!MenuHandlers(c)
  BY <1>1 DEF CopyTrade!MenuHandlers, CopyTrade!start_copytrade, CopyTrade!refresh_copytrade,
     CopyTrade!stop_all_copytrade
<1>2. CASE CopyTrade!CreateHandlers(c)
  BY <1>0, <1>2 DEF CopyTrade!CreateHandlers, CopyTrade!start_create_copytrade, CopyTrade!cancel_copytrade,
     CopyTrade!submit_copytrade, CopyTrade!create_start_set_address, CopyTrade!create_set_address,
     CopyTrade!create_start_set_alias, CopyTrade!create_set_alias, CopyTrade!create_start_set_amount,
     CopyTrade!create_set_amount, CopyTrade!create_start_set_priority, CopyTrade!create_set_priority,
     CopyTrade!create_start_set_slippage, CopyTrade!create_set_slippage,
     CopyTrade!create_toggle_auto_follow, CopyTrade!create_toggle_no_sell,
     CopyTrade!create_toggle_anti_sandwich, CopyTrade!create_toggle_auto_slippage,
     CopyTrade!Ask, CopyTrade!CreateAnswer, CopyTrade!Answer, CopyTrade!CreatePress, CopyTrade!Press
<1>3. CASE CopyTrade!EditHandlers(c)
  BY <1>0, <1>3 DEF CopyTrade!EditHandlers, CopyTrade!handle_copytrade_selection, CopyTrade!back_to_copytrade,
     CopyTrade!edit_start_set_alias, CopyTrade!edit_set_alias, CopyTrade!edit_start_set_amount,
     CopyTrade!edit_set_amount, CopyTrade!edit_start_set_priority, CopyTrade!edit_set_priority,
     CopyTrade!edit_start_set_slippage, CopyTrade!edit_set_slippage, CopyTrade!edit_toggle_auto_follow,
     CopyTrade!edit_toggle_no_sell, CopyTrade!edit_toggle_anti_sandwich,
     CopyTrade!edit_toggle_auto_slippage, CopyTrade!toggle_copytrade, CopyTrade!delete_copytrade,
     CopyTrade!confirm_delete_copytrade, CopyTrade!cancel_delete_copytrade,
     CopyTrade!Ask, CopyTrade!EditAnswer, CopyTrade!Answer, CopyTrade!EditPress, CopyTrade!Press
<1>4. CASE CopyTrade!NewCopytrade(c) \/ CopyTrade!LoadCopytrade(c) \/ CopyTrade!ForgetCopytrade(c)
  BY <1>4 DEF CopyTrade!NewCopytrade, CopyTrade!LoadCopytrade, CopyTrade!Load,
     CopyTrade!ForgetCopytrade, CopyTrade!Forget, CopyTrade!Goes
<1> QED
  BY <1>1, <1>2, <1>3, <1>4 DEF CopyTrade!CopyTradeStep

LEMMA MonitorStateThere ==
  ASSUME fsm # None, NEW c \in Slot, Monitor!MonitorStep(c) PROVE fsm' # None
<1>0. Monitor!Creating # None /\ Monitor!Editing # None
  BY BotAssumption
<1> QED
BY <1>0 DEF Monitor!MonitorStep, Monitor!enter_monitor_menu, Monitor!stop_all_monitor,
   Monitor!create_new_monitor, Monitor!back_parent, Monitor!submit_monitor,
   Monitor!create_start_set_address, Monitor!create_set_address, Monitor!create_start_set_alias,
   Monitor!create_set_alias, Monitor!handle_monitor_selection, Monitor!LoadMonitor,
   Monitor!edit_start_set_alias, Monitor!edit_set_alias, Monitor!toggle_monitor,
   Monitor!back_to_monitor, Monitor!delete_monitor, Monitor!cancel_delete_monitor,
   Monitor!confirm_delete_monitor, Monitor!ForgetMonitor,
   Monitor!Ask, Monitor!CreateAnswer, Monitor!Answer, Monitor!Press, Monitor!Load, Monitor!Forget,
   Monitor!Goes

LEMMA SharedStateThere ==
  ASSUME fsm # None, NEW c \in Slot, Receive(c) \/ Message(c) \/ Fail(c) \/ TableStep(c)
  PROVE  fsm' # None
BY GoesThere DEF Receive, Message, Fail, TableStep, Read, Commit, Insert, Delete, ReadAll

\* The cards of a dialogue without a form, and when nothing changes.
LEMMA CardsBegin ==
  ASSUME calls = [c \in Slot |-> Idle], NEW p, p.key \in Keys, data = Fresh
  PROVE  CardInv(p)
<1>1. data[p.key] = None
  BY FreshData
<1>2. Idle.todo = <<>> /\ Idle.on = "" /\ Idle.write = {} /\ Idle.form = None
  BY DEF Idle
<1>3. \A c \in Slot : calls[c] = Idle
  OBVIOUS
<1>4. Regular(Idle, p)
  BY <1>2, IdleRegular
<1>5. \A c \in Slot : Regular(calls[c], p)
  BY <1>3, <1>4
<1>6. Apart
  BY <1>2, <1>3 DEF Apart, AtWork
<1>7. CardKept(p) /\ NewKept(p)
  BY <1>1 DEF CardKept, NewKept
<1>8. ~Saving(Idle)
  BY <1>2 DEF Saving
<1>9. \A c \in Slot : Exact(calls[c]) /\ Current(calls[c], p)
  BY <1>3, <1>8 DEF Exact, Current
<1> QED
  BY <1>5, <1>6, <1>7, <1>9 DEF CardInv

LEMMA CardsStay ==
  ASSUME NEW p, CardInv(p), UNCHANGED <<fsm, data, forms, rows, calls, clash>>
  PROVE  CardInv(p)'
<1>1. fsm' = fsm /\ data' = data /\ forms' = forms /\ rows' = rows /\ calls' = calls /\ clash' = clash
  OBVIOUS
<1>2. (Apart => Apart') /\ (CardKept(p) => CardKept(p)') /\ (NewKept(p) => NewKept(p)')
  <2>1. Apart => Apart'
    BY <1>1 DEF Apart
  <2>2. Attended(p)' => Attended(p)
    BY <1>1 DEF Attended
  <2>3. Replaced(p) => Replaced(p)'
    BY <1>1 DEF Replaced
  <2>4. \A i : SavedOrDue(i) => SavedOrDue(i)'
    BY <1>1 DEF SavedOrDue, WillSave, Exists
  <2>5. CardKept(p) => CardKept(p)'
    BY <1>1, <2>2, <2>3, <2>4 DEF CardKept
  <2>6. NewKept(p) => NewKept(p)'
    BY <1>1 DEF NewKept, Creation, Opened
  <2> QED
    BY <2>1, <2>5, <2>6
<1>3. \A c \in Slot : (Exact(calls[c]) => Exact(calls[c])') /\ (Current(calls[c], p) => Current(calls[c], p)')
  BY <1>1 DEF Exact, Current
<1>4. \A c \in Slot : Regular(calls[c], p)'
  BY <1>1 DEF CardInv
<1> QED
  BY <1>1, <1>2, <1>3, <1>4 DEF CardInv

\* When nobody is at work, the menus of the trading part show the setting of the wallet.
LEMMA TradeSaved ==
  ASSUME TradeIInv, ~clash, \A c \in Slot : ~Running(c), data["setting"] # None
  PROVE  LET o == forms[data["setting"]]
         IN /\ Exists(o.row)
            /\ \A f \in DOMAIN o.value : Agrees(f, o.value[f], rows[o.row][f])
<1>1. SettledNow /\ TradeTypes
  BY DEF TradeIInv, Running, Works
<1>2. PICK i : i = data["setting"]
  OBVIOUS
<1>3. i \in 1..Len(forms) /\ forms[i].row = wallet /\ forms[i].value = rows[wallet]
  BY <1>1, <1>2 DEF SettledNow, DataSaved, Saved, TradeTypes
<1>4. forms[i].value \in TradeValue
  <2>1. forms \in Seq(TradeForm)
    BY <1>1 DEF TradeTypes
  <2>2. forms[i] \in TradeForm
    BY <1>3, <2>1
  <2> QED
    BY <2>2 DEF TradeForm
<1>5. None \notin TradeValue
  BY BotAssumption DEF TradeValue, Trade!BotSettings, Trade!Numbers
<1>6. wallet \in 1..Len(rows)
  <2>1. wallet \in Wallet /\ rows \in [Wallet -> TradeValue \cup {None}]
    BY <1>1 DEF TradeTypes
  <2>2. PICK n \in Nat : Wallet = 1..n
    BY BotAssumption, FS_CardinalityType
  <2>3. DOMAIN rows = 1..n /\ rows \in [1..n -> TradeValue \cup {None}]
    BY <2>1, <2>2
  <2>4. rows \in Seq(TradeValue \cup {None})
    BY <2>3
  <2>5. Len(rows) = n
    BY <2>3, <2>4
  <2> QED
    BY <2>1, <2>2, <2>5
<1>7. \A f \in DOMAIN forms[i].value : f \notin {"slippage", "amount"}
  BY <1>4 DEF TradeValue, Trade!BotSettings
<1>8. \A f \in DOMAIN forms[i].value : Agrees(f, forms[i].value[f], rows[wallet][f])
  BY <1>3, <1>7 DEF Agrees, Field
<1>9. Exists(wallet)
  BY <1>3, <1>4, <1>5, <1>6 DEF Exists
<1> QED
  BY <1>2, <1>3, <1>8, <1>9

\* What holds of the cards of the part in use.
CardsIInv ==
  /\ part \in {"copytrade", "monitor"} => fsm # None
  /\ part = "copytrade" => CardInv(CopyCards)
  /\ part = "monitor" => MonitorShown

ShownIInv == IInv /\ CardsIInv

LEMMA ShownBegins == Init => ShownIInv
<1> SUFFICES ASSUME Init PROVE ShownIInv
  OBVIOUS
<1>1. IInv
  BY BotBegins
<1>2. fsm # None
  BY BotAssumption DEF Init
<1>3. part # "trade" => data = Fresh /\ calls = [c \in Slot |-> Idle]
  BY DEF Init
<1>4. part = "copytrade" => CardInv(CopyCards)
  BY <1>3, CopyNamed, CardsBegin
<1>5. part = "monitor" => CardInv(MonitorCards)
  BY <1>3, MonitorNamed, CardsBegin
<1>6. part = "monitor" => NewMonitor
  BY <1>3, FreshData DEF NewMonitor
<1> QED
  BY <1>1, <1>2, <1>4, <1>5, <1>6 DEF ShownIInv, CardsIInv, MonitorShown

LEMMA CopyFormed == None \notin CopyValue /\ \A v \in CopyValue, u \in CopyValue : DOMAIN v = DOMAIN u
<1>1. \A v \in CopyValue : DOMAIN v = CopyField
  BY CopyValueFields
<1>2. None \notin CopyValue
  BY BotAssumption DEF CopyValue
<1> QED
  BY <1>1, <1>2

LEMMA MonitorFormed ==
  None \notin MonitorValue /\ \A v \in MonitorValue, u \in MonitorValue : DOMAIN v = DOMAIN u
<1>1. \A v \in MonitorValue : DOMAIN v = {"target", "alias", "active"}
  BY MonitorValueFields
<1>2. None \notin MonitorValue
  BY BotAssumption DEF MonitorValue, Alias, Monitor!Settings, Monitor!Names
<1> QED
  BY <1>1, <1>2

\* A step all parts have in common.
LEMMA SharedKeepsShown ==
  ASSUME ShownIInv, NEW c \in Slot, Receive(c) \/ Message(c) \/ Fail(c) \/ TableStep(c), part' = part
  PROVE  CardsIInv'
<1>1. fsm # None => fsm' # None
  BY SharedStateThere
<1>2. CASE part = "copytrade"
  <2>1. CopyIInv /\ CardInv(CopyCards)
    BY <1>2 DEF ShownIInv, CardsIInv, IInv, PartIInv
  <2>2. CardInv(CopyCards)'
    BY <2>1, CopyFormed, CopyNamed, SharedKeepsCards DEF CopyIInv
  <2> QED
    BY <1>1, <1>2, <2>2 DEF CardsIInv, ShownIInv
<1>3. CASE part = "monitor"
  <2>1. MonitorIInv /\ MonitorShown
    BY <1>3 DEF ShownIInv, CardsIInv, IInv, PartIInv
  <2>2. CardInv(MonitorCards)'
    BY <2>1, MonitorFormed, MonitorNamed, SharedKeepsCards DEF MonitorIInv, MonitorShown
  <2>3. forms' = forms /\ data' = data
    BY DEF Receive, Message, Fail, TableStep, Read, Commit, Insert, Delete, ReadAll
  <2>4. NewMonitor'
    BY <2>1, <2>3, NewMonitorStays DEF MonitorIInv, MonitorShown
  <2> QED
    BY <1>1, <1>3, <2>2, <2>4 DEF CardsIInv, MonitorShown, ShownIInv
<1>4. CASE part \notin {"copytrade", "monitor"}
  BY <1>4 DEF CardsIInv
<1> QED
  BY <1>2, <1>3, <1>4

LEMMA ShownKeeps == ShownIInv /\ [Next]_vars => ShownIInv'
<1> SUFFICES ASSUME ShownIInv, [Next]_vars PROVE ShownIInv'
  OBVIOUS
<1>1. IInv'
  BY BotKeeps DEF ShownIInv
<1>2. CASE UNCHANGED vars
  <2>1. UNCHANGED <<fsm, data, forms, rows, calls, clash>> /\ part' = part
    BY <1>2 DEF vars, chatVars
  <2>2. part = "copytrade" => CardInv(CopyCards)'
    BY <2>1, CardsStay DEF ShownIInv, CardsIInv
  <2>3. part = "monitor" => CardInv(MonitorCards)'
    BY <2>1, CardsStay DEF ShownIInv, CardsIInv, MonitorShown
  <2>4. part = "monitor" => NewMonitor'
    BY <2>1 DEF ShownIInv, CardsIInv, MonitorShown, NewMonitor
  <2> QED
    BY <1>1, <2>1, <2>2, <2>3, <2>4 DEF ShownIInv, CardsIInv, MonitorShown
<1>3. CASE Next
  <2>1. PICK c \in Slot : \/ Anywhere(c) \/ OnTable(c) \/ InCopyTrade(c) \/ InMonitor(c)
                          \/ InTrade(c) \/ OnData(c) \/ AtTheDoor \/ Notifying
    BY <1>3 DEF Next
  <2>2. CASE Anywhere(c) \/ OnTable(c)
    <3>1. Receive(c) \/ Message(c) \/ Fail(c) \/ TableStep(c)
      BY <2>2 DEF Anywhere, OnTable
    <3>2. part' = part
      BY <2>2 DEF Anywhere, OnTable
    <3> QED
      BY <1>1, <3>1, <3>2, SharedKeepsShown DEF ShownIInv
  <2>3. CASE InCopyTrade(c)
    <3>1. part = "copytrade" /\ part' = part /\ CopyTrade!CopyTradeStep(c)
      BY <2>3 DEF InCopyTrade
    <3>2. CopyIInv /\ CardInv(CopyCards) /\ fsm # None
      BY <3>1 DEF ShownIInv, CardsIInv, IInv, PartIInv
    <3>3. CardInv(CopyCards)' /\ fsm' # None
      BY <3>1, <3>2, CopyKeepsCards, CopyStateThere
    <3> QED
      BY <1>1, <3>1, <3>3 DEF ShownIInv, CardsIInv
  <2>4. CASE InMonitor(c)
    <3>1. part = "monitor" /\ part' = part /\ Monitor!MonitorStep(c)
      BY <2>4 DEF InMonitor
    <3>2. MonitorIInv /\ MonitorShown /\ fsm # None
      BY <3>1 DEF ShownIInv, CardsIInv, IInv, PartIInv
    <3>3. MonitorShown' /\ fsm' # None
      BY <3>1, <3>2, MonitorKeepsCards, MonitorStateThere
    <3> QED
      BY <1>1, <3>1, <3>3 DEF ShownIInv, CardsIInv
  <2>5. CASE InTrade(c) \/ OnData(c) \/ AtTheDoor \/ Notifying
    BY <1>1, <2>5 DEF InTrade, OnData, AtTheDoor, Notifying, ShownIInv, CardsIInv
  <2> QED
    BY <2>1, <2>2, <2>3, <2>4, <2>5
<1> QED
  BY <1>2, <1>3

LEMMA ShownEnough == ShownIInv => FormSaved
<1> SUFFICES ASSUME ShownIInv PROVE FormSaved
  OBVIOUS
<1>1. IInv /\ PartIInv /\ CardsIInv
  BY DEF ShownIInv, IInv
<1>2. SUFFICES ASSUME Edited # None, forms[Edited].row # None, ~clash, \A c \in Slot : ~Running(c)
               PROVE  /\ Exists(forms[Edited].row)
                      /\ \A f \in DOMAIN forms[Edited].value :
                           Agrees(f, forms[Edited].value[f], rows[forms[Edited].row][f])
  BY DEF FormSaved, Agrees
<1>3. CASE part = "copytrade"
  <2>1. Within(CopyTrade!Editing) /\ Edited = data["copytrade_settings"]
    BY <1>2, <1>3 DEF Edited, CopyTrade!Key
  <2>2. Dialogue(CopyValue, CopyDo, CopyNeedy) /\ CardInv(CopyCards)
    BY <1>1, <1>3 DEF PartIInv, CardsIInv, CopyIInv
  <2>3. Inside(fsm, CopyCards.home)
    BY <1>3, <2>1, CopyNamed DEF ShownIInv, CardsIInv, Inside, Within
  <2> QED
    BY <1>2, <2>1, <2>2, <2>3, CopyNamed, CardSaved
<1>4. CASE part = "monitor"
  <2>1. Within(Monitor!Editing) /\ Edited = data["monitor"]
    BY <1>2, <1>4 DEF Edited, Monitor!Key
  <2>2. Dialogue(MonitorValue, MonitorDo, MonitorNeedy) /\ CardInv(MonitorCards)
    BY <1>1, <1>4 DEF PartIInv, CardsIInv, MonitorIInv, MonitorShown
  <2>3. Inside(fsm, MonitorCards.home)
    BY <1>4, <2>1, MonitorNamed DEF ShownIInv, CardsIInv, Inside, Within
  <2> QED
    BY <1>2, <2>1, <2>2, <2>3, MonitorNamed, CardSaved
<1>5. CASE part = "trade"
  <2>1. Edited = data["setting"] /\ TradeIInv
    BY <1>1, <1>5 DEF Edited, Trade!Setting, PartIInv
  <2> QED
    BY <1>2, <2>1, TradeSaved
<1>6. CASE part \notin {"copytrade", "monitor", "trade"}
  BY <1>2, <1>6 DEF Edited
<1> QED
  BY <1>3, <1>4, <1>5, <1>6

\* Whatever handlers overlap and whichever order their awaits return in: when none is at
\* work, every field the card of a copy trade, a monitor or a setting shows is what the
\* database holds of it, as Column writes or as Field reads it (int() of the slippage, the
\* rounding of the amount) - unless two of them set the same field or a call failed.
THEOREM FormShownIsSaved == Spec => []FormSaved
<1>1. Init => ShownIInv
  BY ShownBegins
<1>2. ShownIInv /\ [Next]_vars => ShownIInv'
  BY ShownKeeps
<1>3. ShownIInv => FormSaved
  BY ShownEnough
<1> QED
  BY <1>1, <1>2, <1>3, PTL DEF Spec
=============================================================================
