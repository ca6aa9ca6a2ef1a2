---------------------------- MODULE IncomingRequests ---------------------------
(***************************************************************************)
(* People who send /start without a link: the bot has a request stored for *)
(* each command (start.go, incoming_requests.go), and the operators work   *)
(* the requests off in the panel (IncomingRequestsPage.tsx), from a list   *)
(* that is fetched every ten seconds and with two calls per press of the   *)
(* button.  The panel's other way to a session is in OperatorAccounts.     *)
(***************************************************************************)
EXTENDS Integers, FiniteSets

CONSTANTS
  People,        \* users of Telegram that no session knows
  Operators,     \* panels: an operator with two of them counts twice
  Requests,      \* ids of incoming_requests
  MaxSessions,   \* bound on the sessions created for one request
  MaxFailures    \* bound on the failures of a behaviour, one of each kind

(* What may fail.  After "answer" a call of the panel has been carried out and
   its answer is lost. *)
Faults == {"insert", "timeout", "list", "create", "mark", "answer"}

Nobody == "nobody"

ASSUME IncomingAssumption ==
  /\ Requests \subseteq Nat /\ IsFiniteSet(Requests) /\ Nobody \notin People
  /\ MaxSessions \in Nat /\ MaxFailures \in Nat

VARIABLES
  sender,    \* incoming_requests.telegram_id, or Nobody
  status,    \* incoming_requests.status
  bot,       \* where the bot's handler for a person is
  call,      \* where the backend's handler for a person is
  row,       \* the row that handler stored, 0 for none
  greeted,   \* how often a person was told his request is taken
  alerts,    \* requests announced in the operators' group
  page,      \* what a panel shows: the list, or something else
  list,      \* the cached list of a panel
  fetch,     \* the panel's call for the list
  seen,      \* what that call read
  press,     \* where the mutation of a panel is
  pressed,   \* the request of that mutation, 0 at first
  sessions,  \* sessions created for a request
  failed     \* the kinds of failure so far

personVars == <<sender, bot, call, row, greeted, alerts>>
listVars == <<page, list, fetch, seen>>
pressVars == <<press, pressed, sessions>>
vars == <<personVars, status, listVars, pressVars, failed>>

Free == {r \in Requests : sender[r] = Nobody}
NewOnes == {r \in Requests : sender[r] # Nobody /\ status[r] = "new"}

TypeOK ==
  /\ sender \in [Requests -> People \cup {Nobody}]
  /\ status \in [Requests -> {"new", "processed"}]
  /\ bot \in [People -> {"idle", "waiting", "greeting"}]
  /\ call \in [People -> {"none", "insert", "alert"}]
  /\ row \in [People -> Requests \cup {0}]
  /\ greeted \in [People -> 0..(Cardinality(Requests) + MaxFailures)]
  /\ alerts \subseteq Requests
  /\ page \in [Operators -> {"list", "other"}]
  /\ list \in [Operators -> SUBSET Requests]
  /\ fetch \in [Operators -> {"none", "asked", "read"}]
  /\ seen \in [Operators -> SUBSET Requests]
  /\ press \in [Operators -> {"idle", "create", "created", "mark", "marked"}]
  /\ pressed \in [Operators -> Requests \cup {0}]
  /\ sessions \in [Requests -> 0..MaxSessions]
  /\ failed \subseteq Faults

Init ==
  /\ sender = [r \in Requests |-> Nobody]
  /\ status = [r \in Requests |-> "new"]
  /\ bot = [p \in People |-> "idle"] /\ call = [p \in People |-> "none"]
  /\ row = [p \in People |-> 0] /\ greeted = [p \in People |-> 0]
  /\ alerts = {}
  /\ page = [o \in Operators |-> "other"] /\ list = [o \in Operators |-> {}]
  /\ fetch = [o \in Operators |-> "none"] /\ seen = [o \in Operators |-> {}]
  /\ press = [o \in Operators |-> "idle"] /\ pressed = [o \in Operators |-> 0]
  /\ sessions = [r \in Requests |-> 0]
  /\ failed = {}

Fault(f) ==
  /\ f \notin failed /\ Cardinality(failed) < MaxFailures
  /\ failed' = failed \cup {f}

(***************************************************************************)
(* /start without a payload: the bot calls the backend, waits for the      *)
(* answer or ten seconds, and greets whatever came of it.                  *)
(***************************************************************************)

(* Enough rows are left for every call: the table has no bound. *)
handleWithoutPayload(p) ==
  /\ bot[p] = "idle" /\ call[p] = "none"
  /\ Cardinality(Free) > Cardinality({q \in People : call[q] = "insert"})
  /\ bot' = [bot EXCEPT ![p] = "waiting"]
  /\ call' = [call EXCEPT ![p] = "insert"]
  /\ row' = [row EXCEPT ![p] = 0]
  /\ UNCHANGED <<sender, greeted, alerts, status, listVars, pressVars, failed>>

(* The backend's handler ends: a bot that still waits has its answer. *)
Answer(p) ==
  /\ call' = [call EXCEPT ![p] = "none"]
  /\ bot' = [bot EXCEPT ![p] = IF @ = "waiting" THEN "greeting" ELSE @]

InsertRequest(p) ==
  /\ call[p] = "insert"
  /\ \E r \in Free :
       /\ \A f \in Free : r <= f
       /\ sender' = [sender EXCEPT ![r] = p]
       /\ status' = [status EXCEPT ![r] = "new"]
       /\ row' = [row EXCEPT ![p] = r]
  /\ call' = [call EXCEPT ![p] = "alert"]
  /\ UNCHANGED <<bot, greeted, alerts, listVars, pressVars, failed>>

InsertFails(p) ==
  /\ call[p] = "insert" /\ Fault("insert")
  /\ Answer(p)
  /\ UNCHANGED <<sender, status, row, greeted, alerts, listVars, pressVars>>

(* NewServer leaves botClient nil: the call for the alert panics, and the
   answer is a 500 for a row that is stored. *)
BotClientSet == FALSE

AlertRollsBack(p) ==  \* mutant
  /\ call[p] = "alert"
  /\ sender' = [sender EXCEPT ![row[p]] = Nobody]
  /\ Answer(p)
  /\ UNCHANGED <<status, alerts, row, greeted, listVars, pressVars, failed>>

sendIncomingRequestAlert(p) ==
  /\ call[p] = "alert"
  /\ alerts' = IF BotClientSet THEN alerts \cup {row[p]} ELSE alerts
  /\ Answer(p)
  /\ UNCHANGED <<sender, status, row, greeted, listVars, pressVars, failed>>

RequestTimesOut(p) ==
  /\ bot[p] = "waiting" /\ Fault("timeout")
  /\ bot' = [bot EXCEPT ![p] = "greeting"]
  /\ UNCHANGED <<sender, call, row, greeted, alerts, status, listVars, pressVars>>

sendNeutralGreeting(p) ==
  /\ bot[p] = "greeting"
  /\ bot' = [bot EXCEPT ![p] = "idle"]
  /\ greeted' = [greeted EXCEPT ![p] = @ + 1]
  /\ UNCHANGED <<sender, call, row, alerts, status, listVars, pressVars, failed>>

(***************************************************************************)
(* The list of a panel: shown from the cache, fetched when the page opens  *)
(* and every ten seconds.  A call that has begun ends in the cache even if *)
(* the operator has left the page.                                         *)
(***************************************************************************)
OpenPage(o) ==
  /\ page[o] = "other"
  /\ page' = [page EXCEPT ![o] = "list"]
  /\ UNCHANGED <<personVars, status, list, fetch, seen, pressVars, failed>>

LeavePage(o) ==
  /\ page[o] = "list"
  /\ page' = [page EXCEPT ![o] = "other"]
  /\ UNCHANGED <<personVars, status, list, fetch, seen, pressVars, failed>>

RefetchWhenEmpty(o) ==  \* mutant
  /\ page[o] = "list" /\ fetch[o] = "none" /\ list[o] = {}
  /\ fetch' = [fetch EXCEPT ![o] = "asked"]
  /\ UNCHANGED <<personVars, status, page, list, seen, pressVars, failed>>

Refetch(o) ==
  /\ page[o] = "list" /\ fetch[o] = "none"
  /\ fetch' = [fetch EXCEPT ![o] = "asked"]
  /\ UNCHANGED <<personVars, status, page, list, seen, pressVars, failed>>

handleListIncomingRequests(o) ==
  /\ fetch[o] = "asked"
  /\ fetch' = [fetch EXCEPT ![o] = "read"]
  /\ seen' = [seen EXCEPT ![o] = NewOnes]
  /\ UNCHANGED <<personVars, status, page, list, pressVars, failed>>

ListArrives(o) ==
  /\ fetch[o] = "read"
  /\ fetch' = [fetch EXCEPT ![o] = "none"]
  /\ list' = [list EXCEPT ![o] = seen[o]]
  /\ seen' = [seen EXCEPT ![o] = {}]
  /\ UNCHANGED <<personVars, status, page, pressVars, failed>>

(* The cache keeps what it had. *)
ListFails(o) ==
  /\ fetch[o] # "none" /\ Fault("list")
  /\ fetch' = [fetch EXCEPT ![o] = "none"]
  /\ seen' = [seen EXCEPT ![o] = {}]
  /\ UNCHANGED <<personVars, status, page, list, pressVars>>

PressMarksFirst(o, r) ==  \* mutant
  /\ page[o] = "list" /\ press[o] = "idle" /\ r \in list[o]
  /\ press' = [press EXCEPT ![o] = "create"]
  /\ pressed' = [pressed EXCEPT ![o] = r]
  /\ status' = [status EXCEPT ![r] = "processed"]
  /\ UNCHANGED <<personVars, listVars, sessions, failed>>

(***************************************************************************)
(* The button: a session is created, then the request is marked.  It is    *)
(* disabled while the two calls run; an error of either is the same error  *)
(* to the operator.                                                        *)
(***************************************************************************)
Press(o, r) ==
  /\ page[o] = "list" /\ press[o] = "idle" /\ r \in list[o]
  /\ press' = [press EXCEPT ![o] = "create"]
  /\ pressed' = [pressed EXCEPT ![o] = r]
  /\ UNCHANGED <<personVars, status, listVars, sessions, failed>>

handleCreateSession(o) ==
  /\ press[o] = "create" /\ sessions[pressed[o]] < MaxSessions
  /\ sessions' = [sessions EXCEPT ![pressed[o]] = @ + 1]
  /\ press' = [press EXCEPT ![o] = "created"]
  /\ UNCHANGED <<personVars, status, listVars, pressed, failed>>

SessionCreated(o) ==
  /\ press[o] = "created"
  /\ press' = [press EXCEPT ![o] = "mark"]
  /\ UNCHANGED <<personVars, status, listVars, pressed, sessions, failed>>

UpdateToOtherStatus(o) ==  \* mutant
  /\ press[o] = "mark"
  /\ status' = [status EXCEPT ![pressed[o]] = "in_progress"]
  /\ press' = [press EXCEPT ![o] = "marked"]
  /\ UNCHANGED <<personVars, listVars, pressed, sessions, failed>>

handleUpdateIncomingRequestStatus(o) ==
  /\ press[o] = "mark"
  /\ status' = [status EXCEPT ![pressed[o]] = "processed"]
  /\ press' = [press EXCEPT ![o] = "marked"]
  /\ UNCHANGED <<personVars, listVars, pressed, sessions, failed>>

(* onSuccess: a list that is shown is fetched anew, and the panel goes on to
   the session. *)
Marked(o) ==
  /\ press[o] = "marked"
  /\ press' = [press EXCEPT ![o] = "idle"]
  /\ fetch' = [fetch EXCEPT ![o] = IF page[o] = "list" THEN "asked" ELSE @]
  /\ seen' = [seen EXCEPT ![o] = IF page[o] = "list" THEN {} ELSE @]
  /\ page' = [page EXCEPT ![o] = "other"]
  /\ UNCHANGED <<personVars, status, list, pressed, sessions, failed>>

(* onError: nothing is fetched, the row and the button stay. *)
PressFails(o) ==
  /\ press[o] # "idle"
  /\ Fault(CASE press[o] = "create" -> "create"
             [] press[o] = "mark" -> "mark"
             [] OTHER -> "answer")
  /\ press' = [press EXCEPT ![o] = "idle"]
  /\ UNCHANGED <<personVars, status, listVars, pressed, sessions>>

ListStep(o) == Refetch(o) \/ handleListIncomingRequests(o) \/ ListArrives(o)

Next ==
  \/ \E p \in People :
       \/ handleWithoutPayload(p) \/ InsertRequest(p) \/ InsertFails(p)
       \/ sendIncomingRequestAlert(p) \/ RequestTimesOut(p)
       \/ sendNeutralGreeting(p)
  \/ \E o \in Operators :
       \/ OpenPage(o) \/ LeavePage(o) \/ ListStep(o) \/ ListFails(o)
       \/ \E r \in Requests : Press(o, r)
       \/ handleCreateSession(o) \/ SessionCreated(o)
       \/ handleUpdateIncomingRequestStatus(o) \/ Marked(o) \/ PressFails(o)

(* The interval of the list runs as long as the page is shown. *)
Spec == Init /\ [][Next]_vars
FairSpec == Spec /\ \A o \in Operators : WF_vars(ListStep(o))

(***************************************************************************)
(* Properties.                                                             *)
(***************************************************************************)

(* Whoever is told that his request is taken has a row for each time he was
   told, although every one of these calls ends in a panic behind the insert:
   only a failed insert and a time-out, which the bot greets as well, may leave
   him without (start.go: the greeting follows the call). *)
GreetedIsStored ==
  \A p \in People :
    greeted[p] <= Cardinality({r \in Requests : sender[r] = p})
                    + Cardinality(failed \cap {"insert", "timeout"})

(* No request disappears from the lists without a session, whatever fails and
   whoever presses at the same time (IncomingRequestsPage.tsx: the session is
   created first). *)
ProcessedHasSession ==
  \A r \in Requests : status[r] = "processed" => sessions[r] > 0

(* A request that someone has dealt with leaves every list that stays open
   (IncomingRequestsPage.tsx: refetchInterval). *)
ProcessedLeavesLists ==
  \A r \in Requests, o \in Operators :
    (status[r] = "processed" /\ page[o] = "list")
      ~> (r \notin list[o] \/ page[o] = "other")
=============================================================================
