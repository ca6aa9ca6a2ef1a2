------------------------------ MODULE BotUpdates ------------------------------
(***************************************************************************)
(* The bot's handlers between the pool that calls them and the backend     *)
(* they call: handleUpdate of bot/cmd/bot/main.go, the handlers of         *)
(* bot/internal/handlers other than photo.go and voice.go (see MediaRelay) *)
(* and the client of bot/internal/backendclient.                           *)
(*                                                                         *)
(* Pool is what Dispatcher guarantees: several updates, also of one person,*)
(* are handled at once, and updates come again when the process has died.  *)
(* Core is the backend's conversation core, one request per handler.  The  *)
(* bot waits ten seconds for an answer and then gives up, which does not   *)
(* undo what the backend has done or keep it from going on.                *)
(*                                                                         *)
(* The operator whose menu is asked for is one row, of which the status is *)
(* kept.  A row of incoming_requests is left out (see IncomingRequests).   *)
(***************************************************************************)
EXTENDS Integers, Sequences, FiniteSets

CONSTANTS
  MaxUpdates, Concurrency, MaxCrashes,  \* see UpdatePool
  Users, Sessions, None, PauseThreshold, Failures,  \* see SessionRelay
  Clients, Executors,  \* who is bound to each session at the start
  Current,             \* the active session of each user at the start
  Contents,            \* what the updates may be: functions on them
  Fatal                \* bound: those contents that see the process die

Updates == 1..MaxUpdates
(* The request update u makes in the process started after n crashes. *)
Slots == Updates \X (0..MaxCrashes)

(***************************************************************************)
(* What an update is: where handleUpdate looks, in the order it looks.     *)
(***************************************************************************)
Callbacks == {"set_lang", "switch_session", "open_session", "take_request",
              "close_session", "op_menu", "callback"}
Commands  == {"start", "help", "language", "operator", "sessions", "current", "stop", "command"}
Bodies    == {"blocked", "photo", "voice", "text", "other"}

(* arg is the session of a switch, the language of set_lang, the action of
   op_menu, and the payload of /start as strings.Split cuts it at its dashes. *)
Update == [from : Users, what : Callbacks \cup Commands \cup Bodies,
           arg : Sessions \cup {"ru", "en", "sessions", "incoming", "", None} \cup
                 Seq(Sessions \cup {"c", "e", ""})]

ASSUME BotAssumption ==
  /\ MaxUpdates \in Nat /\ Concurrency \in Nat \ {0} /\ MaxCrashes \in Nat
  /\ Clients \in [Sessions -> Users \cup {None}]
  /\ Executors \in [Sessions -> Users \cup {None}]
  /\ Current \in [Users -> Sessions \cup {None}]
  /\ \A w \in Users :  \* see ActiveIsLinked of SessionRelay
       Current[w] # None => w \in {Clients[Current[w]], Executors[Current[w]]}
  /\ None \notin Users \cup Sessions
  /\ PauseThreshold \in Nat \ {0} /\ Failures \in BOOLEAN
  /\ \A c \in Contents : \A u \in Updates : c[u] \in Update

VARIABLES
  sent, confirmed, phase, handled, crashes,              \* of Pool
  registered, active, rowLock, client, executor, status, closedAt,
  closeRequestedBy, messages, violations, audit, pc, job, started,
  linked, paired, inbox, open,                           \* of Core
  content,   \* what each update is
  at,        \* where the handler of each update is
  listed,    \* the active session a list of sessions has read
  operator,  \* the status of the operator's row
  said,      \* what the handler last told the sender, "none" if nothing
  by,        \* history: the request that stored each message
  alone,     \* history: requests that met no other that moves the same person
  told,      \* history: the session each user was last told is his active one
  entitled   \* history: updates during whose handling the operator was active

poolVars == <<sent, confirmed, phase, handled, crashes>>
coreVars == <<registered, active, rowLock, client, executor, status, closedAt,
              closeRequestedBy, messages, violations, audit, pc, job, started,
              linked, paired, inbox, open>>
handlerVars == <<at, listed, said>>
historyVars == <<by, alone, told, entitled>>
vars == <<poolVars, coreVars, content, operator, handlerVars, historyVars>>

Pool == INSTANCE UpdatePool
Core == INSTANCE SessionRelay WITH
  Operators <- {}, Access <- {}, Handlers <- Slots, Keys <- Users,
  ViolationKey <- [u \in Users |-> u], MaxRequests <- MaxUpdates * (MaxCrashes + 1),
  Ops <- {"bind", "relay", "switch", "lang", "stop"}

Notices == {"none", "greeting", "connected", "help", "choose_language", "language",
            "link", "processed", "unprocessed", "error", "no_active_session", "session_not_active",
            "counterparty_not_bound_yet", "moderation_violation", "undeliverable",
            "switched", "not_switched", "stopped", "not_stopped", "unsupported",
            "sessions", "no_sessions", "current", "no_current", "no_list",
            "menu", "restricted", "operator_list", "no_operator_list"}

TypeOK ==
  /\ phase \in [Updates -> Pool!Phases]
  /\ Core!TypeOK
  /\ content \in Contents
  /\ at \in [Updates -> {"off", "entered", "asked", "listing", "menu", "over"}]
  /\ listed \in [Updates -> Sessions \cup {None}]
  /\ operator \in {"active", "suspended", "disabled"}
  /\ said \in [Updates -> Notices]
  /\ by \in Seq(Slots) /\ Len(by) = Len(messages)
  /\ alone \subseteq Slots /\ told \in [Users -> Sessions \cup {None}]
  /\ entitled \subseteq Updates

Sides(s) == {Clients[s], Executors[s]} \ {None}
Init ==
  /\ Pool!Init
  /\ registered = UNION {Sides(s) : s \in Sessions}
  /\ active = Current
  /\ rowLock = [u \in Users |-> None]
  /\ client = Clients /\ executor = Executors
  /\ status = [s \in Sessions |-> "active"]
  /\ closedAt = [s \in Sessions |-> FALSE]
  /\ closeRequestedBy = [s \in Sessions |-> None]
  /\ messages = <<>> /\ violations = [u \in Users |-> 0] /\ audit = {}
  /\ pc = [h \in Slots |-> "idle"] /\ job = [h \in Slots |-> Core!NoJob]
  /\ started = 0
  /\ linked = {l \in Users \X Sessions : l[1] \in Sides(l[2])}
  /\ paired = {<<s, Clients[s], Executors[s]>> :
                 s \in {t \in Sessions : None \notin {Clients[t], Executors[t]}}}
  /\ inbox = {} /\ open = [h \in Slots |-> {}]
  /\ content \in Contents
  /\ at = [u \in Updates |-> "off"] /\ listed = [u \in Updates |-> None]
  /\ operator = "active"
  /\ said = [u \in Updates |-> "none"]
  /\ by = <<>> /\ alone = {} /\ told = [u \in Users |-> None] /\ entitled = {}

Slot(u) == <<u, crashes>>
What(u) == content[u].what
From(u) == content[u].from
At(u, step) == phase[u] = "handling" /\ at[u] = step

-------------------------------------------------------------------------------
(***************************************************************************)
(* The pool: Send and Confirm are Telegram's.  What is confirmed matters   *)
(* only if the process dies.                                               *)
(***************************************************************************)
Arrive ==
  /\ Pool!Send \/ (content \in Fatal /\ Pool!Confirm)
  /\ UNCHANGED <<coreVars, content, operator, handlerVars, historyVars>>

Enter(u) ==
  /\ Pool!Start(u)
  /\ at' = [at EXCEPT ![u] = "entered"]
  /\ said' = [said EXCEPT ![u] = "none"]
  /\ entitled' = IF operator = "active" THEN entitled \cup {u} ELSE entitled \ {u}
  /\ UNCHANGED <<coreVars, content, operator, listed, by, alone, told>>

(* The handler tells the sender something, or nothing, and returns. *)
Tell(u, notice) ==
  /\ said' = [said EXCEPT ![u] = notice]
  /\ told' = IF notice \in {"connected", "switched"} /\ Slot(u) \in alone
             THEN [told EXCEPT ![From(u)] = job[Slot(u)].session] ELSE told
  /\ at' = [at EXCEPT ![u] = "over"]
  /\ listed' = [listed EXCEPT ![u] = None]
  /\ Pool!Return(u)

(* The process dies; the requests it has made go on without it. *)
Crash ==
  /\ content \in Fatal /\ Pool!Die
  /\ at' = [u \in Updates |-> "off"]
  /\ listed' = [u \in Updates |-> None]
  /\ said' = [u \in Updates |-> "none"]
  /\ UNCHANGED <<coreVars, content, operator, historyVars>>

-------------------------------------------------------------------------------
(***************************************************************************)
(* Updates answered without the backend.                                   *)
(***************************************************************************)

(* ParseDeepLinkPayload: a session and a side. *)
Valid(parts) == Len(parts) = 2 /\ parts[1] \in Sessions /\ parts[2] \in {"c", "e"}
RoleIn(parts) == IF parts[2] = "c" THEN "client" ELSE "executor"

(* The reply of handleUpdate's branches that call nobody. *)
Reply(c) ==
  CASE c.what \in {"callback", "command", "other"} -> "none"
    [] c.what \in {"open_session", "close_session"} -> "link"
    [] c.what = "help" -> "help"
    [] c.what = "language" -> "choose_language"
    [] c.what = "blocked" -> "unsupported"
    [] c.what = "start" -> "greeting"
    [] c.what = "set_lang" -> "none"
    [] OTHER -> "error"

(* The request of the conversation core an update leads to. *)
Op(c) ==
  CASE c.what = "text" -> "relay"
    [] c.what = "stop" -> "stop"
    [] c.what = "start" /\ Valid(c.arg) -> "bind"
    [] c.what = "switch_session" /\ c.arg \in Sessions -> "switch"
    [] c.what = "set_lang" /\ c.arg \in {"ru", "en"} -> "lang"
    [] OTHER -> "none"

Elsewhere == {"sessions", "current", "operator", "op_menu", "photo", "voice", "take_request"}
WithoutPayload(c) == c.what = "start" /\ c.arg = <<"">>

Answer(u) ==
  /\ At(u, "entered")
  /\ Op(content[u]) = "none" /\ What(u) \notin Elsewhere /\ ~WithoutPayload(content[u])
  /\ Tell(u, Reply(content[u]))
  /\ UNCHANGED <<coreVars, content, operator, by, alone, entitled>>

(* A row is asked for in incoming_requests.  The greeting does not depend on
   whether the call succeeded. *)
HandleWithoutPayload(u) ==
  /\ At(u, "entered") /\ WithoutPayload(content[u])
  /\ Tell(u, "greeting")
  /\ UNCHANGED <<coreVars, content, operator, by, alone, entitled>>

(* "Взять в работу": the row is marked processed, or the call fails. *)
HandleTakeRequest(u) ==
  /\ At(u, "entered") /\ What(u) = "take_request"
  /\ \E notice \in {"processed", "unprocessed", "error"} : Tell(u, notice)
  /\ UNCHANGED <<coreVars, content, operator, by, alone, entitled>>

(* See MediaRelay. *)
HandleMedia(u) ==
  /\ At(u, "entered") /\ What(u) \in {"photo", "voice"}
  /\ \E notice \in {"none", "error"} : Tell(u, notice)
  /\ UNCHANGED <<coreVars, content, operator, by, alone, entitled>>

-------------------------------------------------------------------------------
(***************************************************************************)
(* Updates that lead to a request of the conversation core.                *)
(***************************************************************************)
Moves == {"bind", "switch", "lang"}
(* The requests in flight that may change the active session of w. *)
Moving(w) == {h \in Slots : job[h].who = w /\ job[h].op \in Moves}

Request(u, h) ==
  LET c == content[u] IN
  \/ Op(c) = "bind"   /\ Core!BindRead(h, c.from, c.arg[1], RoleIn(c.arg))
  \/ Op(c) = "relay"  /\ Core!RelayReadSender(h, c.from)
  \/ Op(c) = "switch" /\ Core!SwitchRead(h, c.from, c.arg)
  \/ Op(c) = "lang"   /\ Core!LangRead(h, c.from)
  \/ Op(c) = "stop"   /\ Core!StopRead(h, c.from)

Ask(u) ==
  LET w == From(u)
      moves == Op(content[u]) \in Moves IN
  /\ At(u, "entered")
  /\ Request(u, Slot(u))
  /\ at' = [at EXCEPT ![u] = "asked"]
  /\ alone' = IF ~moves THEN alone
              ELSE IF Moving(w) = {} THEN alone \cup {Slot(u)} ELSE alone \ Moving(w)
  /\ told' = IF moves THEN [told EXCEPT ![w] = None] ELSE told
  /\ UNCHANGED <<poolVars, content, operator, listed, said, by, entitled>>

(* The backend takes one statement further whatever was asked of it. *)
BackendStep(h) ==
  /\ pc[h] # "reply"
  /\ Core!Progress(h)
  /\ by' = IF Len(messages') > Len(messages) THEN Append(by, h) ELSE by
  /\ UNCHANGED <<poolVars, content, operator, handlerVars, alone, told, entitled>>

(* What the sender is told of the result of his update: no word of a text that
   was relayed. *)
RelayNoticeOfKnownReasons(result) ==  \* mutant
  IF result \in {"relayed", "sender_not_in_session"} THEN "none"
  ELSE IF result = "not_found" THEN "error" ELSE result
RelayNotice(result) ==
  IF result = "relayed" THEN "none"
  ELSE IF result = "not_found" THEN "error"
  ELSE IF result = "sender_not_in_session" THEN "undeliverable"
  ELSE result

SwitchNoticeOfPress(result) == "switched"  \* mutant
SwitchNotice(result) == IF result = "ok" THEN "switched" ELSE "not_switched"

BindNotice(result) == IF result = "bound" THEN "connected" ELSE "greeting"
StopNotice(result) == IF result = "ok" THEN "stopped" ELSE "not_stopped"

(* The language is confirmed whatever the backend answers. *)
Notice(op, result) ==
  CASE op = "relay"  -> RelayNotice(result)
    [] op = "switch" -> SwitchNotice(result)
    [] op = "bind"   -> BindNotice(result)
    [] op = "stop"   -> StopNotice(result)
    [] op = "lang"   -> "language"

(* The answer comes in time: the other side is sent what it says, the sender
   is told, and the handler returns. *)
Answered(u) ==
  /\ At(u, "asked")
  /\ Core!Reply(Slot(u))
  /\ Tell(u, Notice(job[Slot(u)].op, job[Slot(u)].result))
  /\ UNCHANGED <<content, operator, by, alone, entitled>>

(* The call fails or its ten seconds are over; it is not made again. *)
GiveUpAndRetry(u) ==  \* mutant
  /\ At(u, "asked")
  /\ at' = [at EXCEPT ![u] = "entered"]
  /\ UNCHANGED <<poolVars, coreVars, content, operator, listed, said, historyVars>>
GiveUpWithTheBackend(u) ==  \* mutant
  /\ At(u, "asked") /\ pc[Slot(u)] = "idle"
  /\ Tell(u, Notice(Op(content[u]), "error"))
  /\ UNCHANGED <<coreVars, content, operator, by, alone, entitled>>
GiveUp(u) ==
  /\ At(u, "asked")
  /\ Tell(u, Notice(Op(content[u]), "error"))
  /\ UNCHANGED <<coreVars, content, operator, by, alone, entitled>>

(* Nobody waits for this request any more. *)
Orphan(h) == h[2] # crashes \/ at[h[1]] # "asked"

(* A request nobody waits for ends: the backend notices that the connection
   of the caller is gone, or a statement has failed, which made the bot give
   up, or there is nobody to send the answer to. *)
Cancel(h) ==
  /\ Orphan(h) /\ pc[h] # "idle"
  /\ rowLock' = [u \in Users |-> IF rowLock[u] = h THEN None ELSE rowLock[u]]
  /\ Core!Finish(h)
  /\ UNCHANGED <<registered, active, client, executor, status, closedAt,
                 closeRequestedBy, messages, violations, audit, started,
                 linked, paired, inbox>>
  /\ UNCHANGED <<poolVars, content, operator, handlerVars, historyVars>>

-------------------------------------------------------------------------------
(***************************************************************************)
(* Lists: the sessions of a participant, the operator's menu.              *)
(***************************************************************************)

(* handleListUserSessions reads the user, then his sessions. *)
ListRead(u) ==
  /\ At(u, "entered") /\ What(u) \in {"sessions", "current"}
  /\ \/ /\ From(u) \in registered
        /\ at' = [at EXCEPT ![u] = "listing"]
        /\ listed' = [listed EXCEPT ![u] = active[From(u)]]
        /\ UNCHANGED <<poolVars, said, told>>
     \/ Tell(u, "no_list")
  /\ UNCHANGED <<coreVars, content, operator, by, alone, entitled>>

ListByParticipant(w) == {s \in Sessions : w \in {client[s], executor[s]} /\ status[s] # "closed"}

SessionsNotice(sessions) == IF sessions = {} THEN "no_sessions" ELSE "sessions"
CurrentNotice(sessions, current) == IF current \in sessions THEN "current" ELSE "no_current"

ListShow(u) ==
  LET sessions == ListByParticipant(From(u)) IN
  /\ At(u, "listing")
  /\ \/ Tell(u, IF What(u) = "current" THEN CurrentNotice(sessions, listed[u])
                ELSE SessionsNotice(sessions))
     \/ Tell(u, "no_list")
  /\ UNCHANGED <<coreVars, content, operator, by, alone, entitled>>

IsActiveOperator(st) == st = "active"

Menu(u) ==
  IF What(u) = "operator" THEN Tell(u, "menu")
  ELSE IF content[u].arg \in {"sessions", "incoming"}
    THEN at' = [at EXCEPT ![u] = "menu"] /\ UNCHANGED <<poolVars, listed, said, told>>
  ELSE Tell(u, "none")

(* The whitelist is checked for the command and again for every button. *)
MenuCheckOnce(u) ==  \* mutant
  /\ At(u, "entered") /\ What(u) \in {"operator", "op_menu"}
  /\ \/ Tell(u, "restricted")
     \/ (What(u) = "op_menu" \/ IsActiveOperator(operator)) /\ Menu(u)
  /\ UNCHANGED <<coreVars, content, operator, by, alone, entitled>>
MenuCheck(u) ==
  /\ At(u, "entered") /\ What(u) \in {"operator", "op_menu"}
  /\ \/ Tell(u, "restricted")
     \/ IsActiveOperator(operator) /\ Menu(u)
  /\ UNCHANGED <<coreVars, content, operator, by, alone, entitled>>

MenuShow(u) ==
  /\ At(u, "menu")
  /\ \E notice \in {"operator_list", "no_operator_list"} : Tell(u, notice)
  /\ UNCHANGED <<coreVars, content, operator, by, alone, entitled>>

(* An admin changes the operator's status in the panel. *)
OperatorChanges ==
  /\ \E u \in Updates : What(u) \in {"operator", "op_menu"} /\ phase[u] \in {"waiting", "handling"}
  /\ operator' \in {"active", "suspended", "disabled"} \ {operator}
  /\ entitled' = IF operator' = "active" THEN entitled \cup Pool!In("handling") ELSE entitled
  /\ UNCHANGED <<poolVars, coreVars, content, handlerVars, by, alone, told>>

-------------------------------------------------------------------------------
Handler(u) ==
  \/ Answer(u) \/ HandleWithoutPayload(u) \/ HandleTakeRequest(u) \/ HandleMedia(u)
  \/ Ask(u) \/ Answered(u) \/ GiveUp(u)
  \/ ListRead(u) \/ ListShow(u) \/ MenuCheck(u) \/ MenuShow(u)

Rest ==
  /\ sent = MaxUpdates
  /\ \A u \in Updates : phase[u] \in {"over", "lost"}
  /\ \A h \in Slots : pc[h] = "idle"
  /\ UNCHANGED vars

Next ==
  \/ Arrive \/ Crash \/ OperatorChanges \/ Rest
  \/ \E u \in Updates : Enter(u) \/ Handler(u)
  \/ \E h \in Slots : BackendStep(h) \/ Cancel(h)

Spec == Init /\ [][Next]_vars

(* The dispatcher goes on as Dispatcher shows, and the handler's calls end
   after ten seconds at the latest.  Nothing is asked of the backend. *)
FairSpec ==
  /\ Spec
  /\ WF_vars(\E u \in Updates : Enter(u))
  /\ \A u \in Updates : WF_vars(Handler(u))

-------------------------------------------------------------------------------
(***************************************************************************)
(* Properties                                                              *)
(***************************************************************************)

(* A person who was told which session is his active one, by "Сессия
   переключена" or by the greeting of a link, is in that session until he asks
   for another change of it or of his language: what he was told has happened,
   and no text or stop of his, update of anybody else or death of the process
   moves him.  This is promised of a change only that met no other change of
   the same person, be it one the bot has given up on or one that is handled
   again after a crash.  Changes that overlapped are exempt (alone): they may be
   told in another order than they were made, and the language change undoes
   what was made meanwhile. *)
ToldIsActive == \A w \in Users : told[w] # None => active[w] = told[w]

(* A text is stored at most once by each process that handled it. *)
StoredOncePerProcess == \A i, j \in DOMAIN by : by[i] = by[j] => i = j

(* The sender of a text whose handler has returned was told that something
   went wrong, or the text is stored for the other side: silence means that it
   is on its way (message_relay.go). *)
SilenceMeansStored ==
  \A u \in Updates :
    phase[u] = "over" /\ at[u] = "over" /\ What(u) = "text" /\ said[u] = "none" =>
      \E i \in DOMAIN by : by[i] = Slot(u) /\ messages[i].recipient # None

(* The operator's menu and its lists are shown only to somebody who was an
   active operator while the update was handled, however long ago the message
   with the button was sent (operators.go:56-57). *)
MenuOnlyForActive ==
  \A u \in Updates : said[u] \in {"menu", "operator_list"} => u \in entitled

(* When users stop sending, every update is answered or lost in the end: no
   answer of the backend, or lack of one, holds a place in the pool. *)
EverythingIsAnswered ==
  <>[](Pool!In("waiting") \cup Pool!In("handling") = {})
=============================================================================
