--------------------------------- MODULE Access ---------------------------------
(***************************************************************************)
(* Who the bot serves: the middlewares every update passes, /start with    *)
(* its registration, and activation codes (middlewares, conversations/home,*)
(* services/user.py, services/activation.py).                              *)
(***************************************************************************)
EXTENDS Chat

CONSTANTS
  User, Manager,
  Code,       \* bound: the activation codes that may be generated
  Valid,      \* how long a code is good for
  Private,    \* the bot's mode
  MaxTime     \* bound on the clock

VARIABLES
  registered,   \* users with a default wallet (bot_users)
  configured,   \* users whose wallet has a setting (Redis)
  licence,      \* user -> expiry, None without one (bot_user_licenses)
  codes,        \* code -> None until generated, Unused, or the user who used it
  waiting,      \* users whose FSM state is WAITING_FOR_ACTIVATION_CODE
  requests,     \* the updates in hand, by slot
  now

accessVars == <<registered, configured, licence, codes, waiting, requests, now>>

Unused == "unused"
NoRequest == [at |-> "none", user |-> None, kind |-> "", code |-> None, seen |-> FALSE, had |-> None]

Kinds    == {"/start", "command", "text", "button", "activate"}
Messages == {"/start", "command", "text"}

Elsewhere == UNCHANGED <<fsm, data, forms, rows, calls>>

\* The request of s goes on at the await `at`, or ends.
GoesOn(s, at) == requests' = [requests EXCEPT ![s].at = at]
Done(s)      == requests' = [requests EXCEPT ![s] = NoRequest]
In(s, at)    == requests[s].at = at

Tables == <<registered, configured, licence, codes>>

\* An update comes in: a text may be a code.
Arrive(s) ==
  /\ In(s, "none") /\ left > 0
  /\ \E u \in User, k \in Kinds, c \in Code \cup {None} :
       /\ (k = "text") = (c # None)
       /\ requests' = [requests EXCEPT ![s] =
            [NoRequest EXCEPT !.at = "initialize", !.user = u, !.kind = k, !.code = c,
                              !.seen = u \in waiting]]
  /\ left' = left - 1
  /\ Elsewhere /\ UNCHANGED <<Tables, waiting, now, failures, clash>>

\* InitializeMiddleware: /start, the button for a code, and messages of a user who
\* is asked for a code pass; all else is for registered users.
InitializeMiddleware(s) ==
  /\ In(s, "initialize")
  /\ LET r == requests[s]
     IN IF \/ r.kind \in {"/start", "activate"}
           \/ r.kind \in Messages /\ r.user \in waiting
           \/ r.user \in registered
        THEN GoesOn(s, "authorize") ELSE Done(s)
  /\ Elsewhere /\ UNCHANGED <<Tables, waiting, now, left, failures, clash>>

AuthorizeAnyone(s) ==       \* mutant: a missing licence passes
  /\ In(s, "authorize")
  /\ GoesOn(s, "handle")
  /\ Elsewhere /\ UNCHANGED <<Tables, waiting, now, left, failures, clash>>

\* AuthorizationMiddleware: in private mode all but the manager need a licence,
\* except for plain texts and the button for a code.  One that has run out is
\* complained about, and passes.
AuthorizationMiddleware(s) ==
  /\ In(s, "authorize")
  /\ LET r == requests[s]
     IN IF \/ ~Private \/ r.user = Manager
           \/ r.kind \in {"text", "activate"}
           \/ licence[r.user] # None
        THEN GoesOn(s, "handle") ELSE Done(s)
  /\ Elsewhere /\ UNCHANGED <<Tables, waiting, now, left, failures, clash>>

\* Any other handler: the user is served.
Serve(s) ==
  /\ In(s, "handle") /\ requests[s].kind \in {"command", "button"}
  /\ Done(s)
  /\ Elsewhere /\ UNCHANGED <<Tables, waiting, now, left, failures, clash>>

(***************************************************************************)
(* /start                                                                  *)
(***************************************************************************)
start(s) ==
  /\ In(s, "handle") /\ requests[s].kind = "/start"
  /\ IF requests[s].user \in registered THEN Done(s) ELSE GoesOn(s, "register")
  /\ Elsewhere /\ UNCHANGED <<Tables, waiting, now, left, failures, clash>>

\* /start with a token: the menu of the token, or an error for a user without a
\* wallet, who is not registered by it.
start_asset(s) ==
  /\ In(s, "handle") /\ requests[s].kind = "/start"
  /\ Done(s)
  /\ Elsewhere /\ UNCHANGED <<Tables, waiting, now, left, failures, clash>>

\* A user has one default wallet: a second insertion is an error.
register(s) ==
  /\ In(s, "register")
  /\ IF requests[s].user \in registered
     THEN Done(s) /\ UNCHANGED registered
     ELSE GoesOn(s, "default") /\ registered' = registered \cup {requests[s].user}
  /\ Elsewhere /\ UNCHANGED <<configured, licence, codes, waiting, now, left, failures, clash>>

create_default(s) ==
  /\ In(s, "default")
  /\ configured' = configured \cup {requests[s].user}
  /\ Done(s)
  /\ Elsewhere /\ UNCHANGED <<registered, licence, codes, waiting, now, left, failures, clash>>

(***************************************************************************)
(* Activation codes                                                        *)
(***************************************************************************)
\* The manager's command; a new code is none of the existing ones.
generate_code(s) ==
  /\ In(s, "handle") /\ requests[s].kind = "command" /\ requests[s].user = Manager
  /\ \E c \in Code : codes[c] = None /\ codes' = [codes EXCEPT ![c] = Unused]
  /\ Done(s)
  /\ Elsewhere /\ UNCHANGED <<registered, configured, licence, waiting, now, left, failures, clash>>

\* The prompt is out, then the state is set.
start_activation_code(s) ==
  /\ In(s, "handle") /\ requests[s].kind = "activate"
  /\ waiting' = waiting \cup {requests[s].user}
  /\ Done(s)
  /\ Elsewhere /\ UNCHANGED <<Tables, now, left, failures, clash>>

\* A text that the state did not select goes elsewhere.
OtherText(s) ==
  /\ In(s, "handle") /\ requests[s].kind = "text" /\ ~requests[s].seen
  /\ Done(s)
  /\ Elsewhere /\ UNCHANGED <<Tables, waiting, now, left, failures, clash>>

\* activate_user, first query: an unused code of that name.
handle_activation_code(s) ==
  /\ In(s, "handle") /\ requests[s].kind = "text" /\ requests[s].seen
  /\ IF codes[requests[s].code] = Unused
     THEN /\ GoesOn(s, "licence")
          /\ clash' = (clash \/ \E t \in Slot \ {s} :
               requests[t].at \in {"licence", "activate"}
               /\ (requests[t].user = requests[s].user \/ requests[t].code = requests[s].code))
     ELSE Done(s) /\ UNCHANGED clash
  /\ Elsewhere /\ UNCHANGED <<Tables, waiting, now, left, failures>>

\* Second query: the licence the user has.
get_user_license(s) ==
  /\ In(s, "licence")
  /\ requests' = [requests EXCEPT ![s].at = "activate", ![s].had = licence[requests[s].user]]
  /\ Elsewhere /\ UNCHANGED <<Tables, waiting, now, left, failures, clash>>

ActivateAfresh(s) ==        \* mutant: what is left of a licence is lost
  /\ In(s, "activate")
  /\ LET r == requests[s]
     IN /\ codes' = [codes EXCEPT ![r.code] = r.user]
        /\ licence' = [licence EXCEPT ![r.user] = now + Valid]
  /\ GoesOn(s, "activated")
  /\ Elsewhere /\ UNCHANGED <<registered, configured, waiting, now, left, failures, clash>>

\* The commit: the code is used and the time it gives is added to the licence read
\* before; a second first licence of the user is an error.
activate_user(s) ==
  /\ In(s, "activate")
  /\ LET r == requests[s]
     IN IF r.had = None /\ licence[r.user] # None
        THEN Done(s) /\ UNCHANGED <<codes, licence>>
        ELSE /\ codes' = [codes EXCEPT ![r.code] = r.user]
             /\ licence' = [licence EXCEPT ![r.user] =
                              IF r.had = None THEN now + Valid ELSE r.had + Valid]
             /\ GoesOn(s, "activated")
  /\ Elsewhere /\ UNCHANGED <<registered, configured, waiting, now, left, failures, clash>>

\* The good news is out: state.clear().
Activated(s) ==
  /\ In(s, "activated")
  /\ waiting' = waiting \ {requests[s].user}
  /\ Done(s)
  /\ Elsewhere /\ UNCHANGED <<Tables, now, left, failures, clash>>

\* Any await may fail; what was committed before stays.
Broken(s) ==
  /\ ~In(s, "none") /\ failures < MaxFailures
  /\ failures' = failures + 1
  /\ Done(s)
  /\ Elsewhere /\ UNCHANGED <<Tables, waiting, now, left, clash>>

Tick ==
  /\ now < MaxTime /\ now' = now + 1
  /\ Elsewhere /\ UNCHANGED <<Tables, waiting, requests, left, failures, clash>>

AccessInit ==
  /\ registered = {} /\ configured = {}
  /\ licence = [u \in User |-> None]
  /\ codes \in [Code -> {None, Unused}]
  /\ waiting = {}
  /\ requests = [s \in Slot |-> NoRequest]
  /\ now = 0

AccessStep(s) ==
  \/ Arrive(s) \/ InitializeMiddleware(s) \/ AuthorizationMiddleware(s)
  \/ Serve(s) \/ start(s) \/ start_asset(s) \/ register(s) \/ create_default(s)
  \/ generate_code(s) \/ start_activation_code(s) \/ OtherText(s)
  \/ handle_activation_code(s) \/ get_user_license(s) \/ activate_user(s)
  \/ Activated(s) \/ Broken(s)

(***************************************************************************)
(* Properties                                                              *)
(***************************************************************************)
Used(u) == {c \in Code : codes[c] = u}

\* A licence is as long as the codes its user has used make it, and a user with a
\* wallet has a setting, unless two activations met or a call failed.
AccessInv ==
  /\ ~clash => \A u \in User :
       IF Used(u) = {} THEN licence[u] = None
       ELSE /\ licence[u] >= Valid * Cardinality(Used(u))
            /\ licence[u] <= now + Valid * Cardinality(Used(u))
  /\ failures = 0 => \A u \in registered \ configured :
       \E s \in Slot : requests[s].user = u /\ In(s, "default")

\* In private mode nobody but the manager gets a command or a button served without
\* having used a code.
ServedInvited ==
  ~clash /\ Private => \A s \in Slot :
    LET r == requests[s]
    IN In(s, "handle") /\ r.kind \in {"/start", "command", "button"} /\ r.user # Manager =>
       Used(r.user) # {}
=============================================================================
