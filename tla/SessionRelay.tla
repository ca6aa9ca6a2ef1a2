----------------------------- MODULE SessionRelay -----------------------------
(***************************************************************************)
(* The conversation core of the backend: the users, sessions and messages  *)
(* tables, the Redis violation counters, and every request handler that    *)
(* touches them on behalf of a chat participant or of an operator:         *)
(*                                                                         *)
(*   bind    POST  /internal/sessions/:id/bind    handleBindSession        *)
(*   relay   POST  /internal/messages/relay       handleRelayMessage       *)
(*   switch  PATCH /internal/.../active-session   handleSwitchActiveSession*)
(*   lang    PATCH /internal/.../language         handleUpdateUserLanguage *)
(*   stop    POST  /internal/sessions/stop        handleStopSession        *)
(*   patch   PATCH /sessions/:id/status           handleUpdateSessionStatus*)
(*   sendas  POST  /sessions/:id/send-as          handleSendMessageAsOper..*)
(*                                                                         *)
(* Gin runs each request in its own goroutine and no handler holds a       *)
(* transaction over more than one statement (except SwitchActiveSessionTx) *)
(* so a request is a process that takes one step per database statement,   *)
(* keeping in job[p] what it has read so far.  The bot's half of a request *)
(* (what it sends to Telegram on the backend's answer) is the step Reply.  *)
(***************************************************************************)
EXTENDS Naturals, Sequences

CONSTANTS
  Users,           \* Telegram accounts of the participants
  Operators,       \* operators of the web panel
  Sessions,        \* sessions, as handleCreateSession leaves them
  Handlers,        \* requests that can be in flight at once
  None,            \* SQL NULL
  Access,          \* <<operator, session>> pairs canAccessSession accepts
  Keys,            \* Redis keys of the violation counters
  ViolationKey,    \* key of a user or operator: both use their numeric id
  PauseThreshold,  \* blocked messages after which a session is paused
  Ops,             \* the operations the environment issues
  Failures,        \* whether statements, sends and processes may fail
  MaxRequests      \* bound: requests issued in a behaviour

Roles == {"client", "executor"}
Statuses == {"active", "paused", "pending_close", "closed"}
PatchStatuses == {"active", "paused", "closed"}
Operations == {"bind", "relay", "switch", "lang", "stop", "patch", "sendas"}

ASSUME ConstantsAssumption ==
  /\ None \notin Users \cup Operators \cup Sessions
  /\ Access \subseteq Operators \X Sessions
  /\ ViolationKey \in [Users \cup Operators -> Keys]
  /\ PauseThreshold \in Nat \ {0}
  /\ Ops \subseteq Operations
  /\ Failures \in BOOLEAN
  /\ MaxRequests \in Nat

VARIABLES
  registered,        \* users with a row
  active,            \* users.active_session_id
  rowLock,           \* handler holding the FOR UPDATE lock of a user's row
  client, executor,  \* sessions.client_user_id, sessions.executor_user_id
  status, closedAt,  \* sessions.status, whether sessions.closed_at is set
  closeRequestedBy,  \* sessions.close_requested_by
  messages,          \* messages, in id order
  violations,        \* Redis counters
  audit,             \* audit_log
  pc, job,           \* the requests in flight
  started,           \* requests issued so far
  (* history, read by the properties only *)
  linked,            \* <<user, session>>: the user opened a link to it
  paired,            \* <<session, client, executor>> bound at one moment
  inbox,             \* what the bot has sent, and to whom
  open               \* sessions active at some moment of each request

userRows == <<registered, active, rowLock>>
sessionRows == <<client, executor, status, closedAt, closeRequestedBy>>
history == <<linked, paired, inbox, open>>
vars == <<userRows, sessionRows, messages, violations, audit, pc, job,
          started, history>>

-----------------------------------------------------------------------------
(* Requests in flight *)

Steps ==
  {"idle", "bind_user", "bind_create", "bind_active", "bind_role",
   "bind_collect", "relay_session", "relay_check", "relay_pause",
   "relay_alert", "relay_store", "switch_check", "switch_write",
   "lang_write", "stop_session", "stop_update", "stop_record", "stop_alert",
   "patch_write", "send_check", "send_store", "send_bot", "reply"}

Results ==
  {"none", "ok", "error", "not_found", "refused", "bound", "relayed",
   "no_active_session", "session_not_active", "sender_not_in_session",
   "moderation_violation", "counterparty_not_bound_yet"}

\* A row of messages.  role is the side it speaks for; an operator's message
\* has no sender.  recipient is the side it was addressed to when stored.
Message ==
  [session : Sessions, sender : Users \cup {None}, role : Roles,
   recipient : Users \cup {None}, delivered : BOOLEAN]

\* What the bot sent: message number ref, or the stop notice when ref = 0.
Delivery == [session : Sessions, ref : Nat, to : Users]

AuditEntry ==
  [action : {"session_stop_requested", "session_status_updated",
             "operator_sent_message_as"},
   actor : Users \cup Operators, session : Sessions]

\* A handler's arguments and local variables.
Job ==
  [op : Operations \cup {"none"}, who : Users \cup Operators \cup {None},
   session : Sessions \cup {None}, role : Roles \cup {None},
   status : PatchStatuses,                    \* argument of patch
   client : Users \cup {None},                \* session row as it was read
   executor : Users \cup {None},
   to : Users \cup {None},                    \* recipient or counterpart
   message : Nat,                             \* row this request inserted
   base : Nat,                                \* rows when the request began
   handed : SUBSET Nat,                       \* undelivered messages returned
   result : Results]

NoJob ==
  [op |-> "none", who |-> None, session |-> None, role |-> None,
   status |-> "active", client |-> None, executor |-> None, to |-> None,
   message |-> 0, base |-> 0, handed |-> {}, result |-> "none"]

Begin(p, o) ==
  /\ pc[p] = "idle"
  /\ o \in Ops
  /\ started < MaxRequests
  /\ started' = started + 1
  /\ open' = [open EXCEPT ![p] = {s \in Sessions : status[s] = "active"}]

At(p, step) == pc[p] = step

Goto(p, step) == pc' = [pc EXCEPT ![p] = step]

Answer(p, r) ==
  /\ Goto(p, "reply")
  /\ job' = [job EXCEPT ![p].result = r]

\* A side effect the code only logs the failure of.
Logged(effect, nothing) == effect \/ (Failures /\ nothing)

-----------------------------------------------------------------------------
(* Helpers of the handlers *)

\* NewServer takes a bot client and does not store it: the field stays nil
\* and the first call through it panics; gin's Recovery answers 500.
BotClientSet == FALSE

\* The INSERT of MessageRepository.Create leaves the delivered column to its
\* default, whatever the handler put in the field.
StoredDeliveredAsGiven(field) == field  \* mutant
StoredDelivered(field) == TRUE

RoleOf(u, c, e) ==
  IF c = u THEN "client" ELSE IF e = u THEN "executor" ELSE None

CounterpartSwapped(r, c, e) == IF r = "client" THEN c ELSE e  \* mutant
Counterpart(r, c, e) == IF r = "client" THEN e ELSE c

UpdateStatus(s, st) ==
  /\ status' = [status EXCEPT ![s] = st]
  /\ closedAt' = [closedAt EXCEPT ![s] = @ \/ st = "closed"]
  /\ open' = [p \in Handlers |->
                IF st = "active" /\ pc[p] # "idle" THEN open[p] \cup {s}
                ELSE open[p]]

\* Postgres makes a writer of the row wait for the lock's holder.
RowFree(u) == rowLock[u] = None

AuditLog(a, actor, s) ==
  Logged(audit' = audit \cup {[action |-> a, actor |-> actor, session |-> s]},
         UNCHANGED audit)

\* Counts above the threshold are not told apart.
Incremented(k) ==
  [violations EXCEPT ![k] = IF @ < PauseThreshold THEN @ + 1 ELSE @]

\* Check answers with an error when Redis fails at the INCR, which may have
\* counted nevertheless, or at the EXPIRE that follows the first one; both
\* handlers let the message through.
CheckError(k) ==
  /\ Failures
  /\ violations' \in {violations, Incremented(k)}

InsertMessage(p, s, sender, r, recipient) ==
  /\ messages' = Append(messages,
                   [session |-> s, sender |-> sender, role |-> r,
                    recipient |-> recipient,
                    delivered |-> StoredDelivered(recipient # None)])
  /\ job' = [job EXCEPT
               ![p].message = Len(messages) + 1,
               ![p].result = IF recipient = None
                             THEN "counterparty_not_bound_yet" ELSE "relayed"]

-----------------------------------------------------------------------------
(* bind: a user opens the link of one side of a session *)

BindRead(p, u, s, r) ==
  /\ Begin(p, "bind")
  /\ Goto(p, "bind_user")
  /\ job' = [job EXCEPT ![p] =
               [NoJob EXCEPT !.op = "bind", !.who = u, !.session = s,
                             !.role = r, !.client = client[s],
                             !.executor = executor[s],
                             !.base = Len(messages)]]
  /\ UNCHANGED <<userRows, sessionRows, messages, violations, audit,
                 linked, paired, inbox>>

BindUser(p) ==
  /\ At(p, "bind_user")
  /\ Goto(p, IF job[p].who \in registered THEN "bind_active"
             ELSE "bind_create")
  /\ UNCHANGED <<userRows, sessionRows, messages, violations, audit, job,
                 started, history>>

\* The unique index on telegram_id rejects the slower of two first contacts.
BindCreate(p) ==
  LET u == job[p].who IN
  /\ At(p, "bind_create")
  /\ IF u \in registered
       THEN Answer(p, "error") /\ UNCHANGED registered
       ELSE /\ registered' = registered \cup {u}
            /\ Goto(p, "bind_active")
            /\ UNCHANGED job
  /\ UNCHANGED <<active, rowLock, sessionRows, messages, violations, audit,
                 started, history>>

BindSetActive(p) ==
  LET u == job[p].who
      s == job[p].session IN
  /\ At(p, "bind_active")
  /\ RowFree(u)
  /\ active' = [active EXCEPT ![u] = s]
  /\ linked' = linked \cup {<<u, s>>}
  /\ Goto(p, "bind_role")
  /\ UNCHANGED <<registered, rowLock, sessionRows, messages, violations,
                 audit, job, started, paired, inbox, open>>

\* The side is taken if it was free in the row read at the start; the UPDATE
\* itself has no condition.
SideUnchecked(j) == TRUE  \* mutant
SideIsFree(j) ==
  IF j.role = "client" THEN j.client = None ELSE j.executor = None

BindTakeRole(p) ==
  LET s == job[p].session
      u == job[p].who
      takesClient == job[p].role = "client" /\ SideIsFree(job[p])
      takesExecutor == job[p].role = "executor" /\ SideIsFree(job[p]) IN
  /\ At(p, "bind_role")
  /\ client' = IF takesClient THEN [client EXCEPT ![s] = u] ELSE client
  /\ executor' = IF takesExecutor THEN [executor EXCEPT ![s] = u]
                 ELSE executor
  /\ paired' = IF client'[s] # None /\ executor'[s] # None
               THEN paired \cup {<<s, client'[s], executor'[s]>>}
               ELSE paired
  /\ Goto(p, "bind_collect")
  /\ UNCHANGED <<userRows, status, closedAt, closeRequestedBy, messages,
                 violations, audit, job, started, linked, inbox, open>>

\* ListUndelivered and MarkDelivered in one step: the list is empty as long
\* as StoredDelivered is what it is.  A failure of either is only logged.
Undelivered(s, u) ==
  {i \in DOMAIN messages : /\ messages[i].session = s
                           /\ ~messages[i].delivered
                           /\ messages[i].sender # u}

BindCollect(p) ==
  LET todo == Undelivered(job[p].session, job[p].who) IN
  /\ At(p, "bind_collect")
  /\ messages' = [i \in DOMAIN messages |->
                    [messages[i] EXCEPT !.delivered = @ \/ i \in todo]]
  /\ job' = [job EXCEPT ![p].handed = todo, ![p].result = "bound"]
  /\ Goto(p, "reply")
  /\ UNCHANGED <<userRows, sessionRows, violations, audit, started, history>>

-----------------------------------------------------------------------------
(* relay: a participant's message *)

RelayReadSender(p, u) ==
  /\ Begin(p, "relay")
  /\ Goto(p, IF active[u] = None THEN "reply" ELSE "relay_session")
  /\ job' = [job EXCEPT ![p] =
               [NoJob EXCEPT !.op = "relay", !.who = u,
                             !.session = active[u],
                             !.result = IF u \notin registered THEN "not_found"
                                        ELSE IF active[u] = None
                                          THEN "no_active_session"
                                        ELSE "none"]]
  /\ UNCHANGED <<userRows, sessionRows, messages, violations, audit,
                 linked, paired, inbox>>

RefusalOfOutsider(s, r) ==  \* mutant
  IF r = None THEN "sender_not_in_session" ELSE "none"
RefusalOfInactive(s, r) ==  \* mutant
  IF status[s] # "active" THEN "session_not_active" ELSE "none"
Refusal(s, r) ==
  IF status[s] # "active" THEN "session_not_active"
  ELSE IF r = None THEN "sender_not_in_session"
  ELSE "none"

RelayReadSession(p) ==
  LET s == job[p].session
      r == RoleOf(job[p].who, client[s], executor[s])
      refusal == Refusal(s, r) IN
  /\ At(p, "relay_session")
  /\ Goto(p, IF refusal = "none" THEN "relay_check" ELSE "reply")
  /\ job' = [job EXCEPT ![p].role = r, ![p].result = refusal,
                        ![p].client = client[s], ![p].executor = executor[s],
                        ![p].to = Counterpart(r, client[s], executor[s])]
  /\ UNCHANGED <<userRows, sessionRows, messages, violations, audit, started,
                 history>>

\* Photos and voice are not checked: they are the messages that pass.
RelayCheck(p) ==
  LET k == ViolationKey[job[p].who] IN
  /\ At(p, "relay_check")
  /\ \/ UNCHANGED violations /\ Goto(p, "relay_store")
     \/ CheckError(k) /\ Goto(p, "relay_store")
     \/ /\ violations' = Incremented(k)
        /\ Goto(p, IF violations'[k] >= PauseThreshold THEN "relay_pause"
                   ELSE "relay_alert")
  /\ UNCHANGED <<userRows, sessionRows, messages, audit, job, started,
                 history>>

RelayPause(p) ==
  /\ At(p, "relay_pause")
  /\ Logged(UpdateStatus(job[p].session, "paused"),
            UNCHANGED <<status, closedAt, open>>)
  /\ Goto(p, "relay_alert")
  /\ UNCHANGED <<userRows, client, executor, closeRequestedBy, messages,
                 violations, audit, job, started, linked, paired, inbox>>

RelayAlert(p) ==
  /\ At(p, "relay_alert")
  /\ Answer(p, IF BotClientSet THEN "moderation_violation" ELSE "error")
  /\ UNCHANGED <<userRows, sessionRows, messages, violations, audit, started,
                 history>>

RelayStore(p) ==
  LET j == job[p] IN
  /\ At(p, "relay_store")
  /\ InsertMessage(p, j.session, j.who, j.role, j.to)
  /\ Goto(p, "reply")
  /\ UNCHANGED <<userRows, sessionRows, violations, audit, started, history>>

-----------------------------------------------------------------------------
(* switch and lang: the two requests that rewrite a user's row *)

SwitchRead(p, u, s) ==
  /\ Begin(p, "switch")
  /\ Goto(p, IF u \in registered THEN "switch_check" ELSE "reply")
  /\ job' = [job EXCEPT ![p] =
               [NoJob EXCEPT !.op = "switch", !.who = u, !.session = s,
                             !.result = IF u \in registered THEN "none"
                                        ELSE "not_found"]]
  /\ UNCHANGED <<userRows, sessionRows, messages, violations, audit,
                 linked, paired, inbox>>

AnyoneParticipates(u, s) == TRUE  \* mutant
IsParticipant(u, s) == u \in {client[s], executor[s]}

LockKept(u, p) == rowLock' = [rowLock EXCEPT ![u] = p]  \* mutant
RolledBack(u, p) == UNCHANGED rowLock

\* SELECT ... FOR UPDATE, then the participation check; a refusal rolls back.
SwitchCheck(p) ==
  LET s == job[p].session
      u == job[p].who IN
  /\ At(p, "switch_check")
  /\ RowFree(u)
  /\ IF IsParticipant(u, s)
       THEN /\ rowLock' = [rowLock EXCEPT ![u] = p]
            /\ Goto(p, "switch_write")
            /\ UNCHANGED job
       ELSE Answer(p, "refused") /\ RolledBack(u, p)
  /\ UNCHANGED <<registered, active, sessionRows, messages, violations, audit,
                 started, history>>

SwitchWrite(p) ==
  LET u == job[p].who IN
  /\ At(p, "switch_write")
  /\ active' = [active EXCEPT ![u] = job[p].session]
  /\ rowLock' = [rowLock EXCEPT ![u] = None]
  /\ Answer(p, "ok")
  /\ UNCHANGED <<registered, sessionRows, messages, violations, audit,
                 started, history>>

LangRead(p, u) ==
  /\ Begin(p, "lang")
  /\ Goto(p, IF u \in registered THEN "lang_write" ELSE "reply")
  /\ job' = [job EXCEPT ![p] =
               [NoJob EXCEPT !.op = "lang", !.who = u, !.session = active[u],
                             !.result = IF u \in registered THEN "none"
                                        ELSE "not_found"]]
  /\ UNCHANGED <<userRows, sessionRows, messages, violations, audit,
                 linked, paired, inbox>>

\* UserRepository.Update writes the whole row back, active session included.
LangWrite(p) ==
  LET u == job[p].who IN
  /\ At(p, "lang_write")
  /\ RowFree(u)
  /\ active' = [active EXCEPT ![u] = job[p].session]
  /\ Answer(p, "ok")
  /\ UNCHANGED <<registered, rowLock, sessionRows, messages, violations,
                 audit, started, history>>

-----------------------------------------------------------------------------
(* stop: a participant asks for the session to be closed *)

StopRead(p, u) ==
  /\ Begin(p, "stop")
  /\ Goto(p, IF active[u] = None THEN "reply" ELSE "stop_session")
  /\ job' = [job EXCEPT ![p] =
               [NoJob EXCEPT !.op = "stop", !.who = u, !.session = active[u],
                             !.result = IF u \notin registered THEN "not_found"
                                        ELSE IF active[u] = None THEN "refused"
                                        ELSE "none"]]
  /\ UNCHANGED <<userRows, sessionRows, messages, violations, audit,
                 linked, paired, inbox>>

StopReadSession(p) ==
  LET s == job[p].session
      r == IF client[s] = job[p].who THEN "client" ELSE "executor" IN
  /\ At(p, "stop_session")
  /\ job' = [job EXCEPT ![p].to = Counterpart(r, client[s], executor[s])]
  /\ Goto(p, "stop_update")
  /\ UNCHANGED <<userRows, sessionRows, messages, violations, audit, started,
                 history>>

StopUpdateOnly(p) ==  \* mutant
  /\ At(p, "stop_update")
  /\ UpdateStatus(job[p].session, "pending_close")
  /\ Goto(p, "stop_alert")
  /\ UNCHANGED <<userRows, client, executor, closeRequestedBy, messages,
                 violations, audit, job, started, linked, paired, inbox>>

StopUpdate(p) ==
  /\ At(p, "stop_update")
  /\ UpdateStatus(job[p].session, "pending_close")
  /\ Goto(p, "stop_record")
  /\ UNCHANGED <<userRows, client, executor, closeRequestedBy, messages,
                 violations, audit, job, started, linked, paired, inbox>>

StopRecord(p) ==
  LET s == job[p].session
      u == job[p].who IN
  /\ At(p, "stop_record")
  /\ Logged(closeRequestedBy' = [closeRequestedBy EXCEPT ![s] = u],
            UNCHANGED closeRequestedBy)
  /\ Goto(p, "stop_alert")
  /\ UNCHANGED <<userRows, client, executor, status, closedAt, messages,
                 violations, audit, job, started, history>>

StopAlert(p) ==
  /\ At(p, "stop_alert")
  /\ AuditLog("session_stop_requested", job[p].who, job[p].session)
  /\ Answer(p, IF BotClientSet THEN "ok" ELSE "error")
  /\ UNCHANGED <<userRows, sessionRows, messages, violations, started,
                 history>>

-----------------------------------------------------------------------------
(* patch and sendas: the operators *)

PatchRead(p, o, s, st) ==
  LET allowed == <<o, s>> \in Access IN
  /\ Begin(p, "patch")
  /\ Goto(p, IF allowed THEN "patch_write" ELSE "reply")
  /\ job' = [job EXCEPT ![p] =
               [NoJob EXCEPT !.op = "patch", !.who = o, !.session = s,
                             !.status = st,
                             !.result = IF allowed THEN "none" ELSE "refused"]]
  /\ UNCHANGED <<userRows, sessionRows, messages, violations, audit,
                 linked, paired, inbox>>

\* Nothing reads the audit log between the two statements of this step.
PatchWrite(p) ==
  /\ At(p, "patch_write")
  /\ UpdateStatus(job[p].session, job[p].status)
  /\ AuditLog("session_status_updated", job[p].who, job[p].session)
  /\ Answer(p, "ok")
  /\ UNCHANGED <<userRows, client, executor, closeRequestedBy, messages,
                 violations, started, linked, paired, inbox>>

SendAsRead(p, o, s, r) ==
  LET accepted == <<o, s>> \in Access /\ status[s] = "active" IN
  /\ Begin(p, "sendas")
  /\ Goto(p, IF accepted THEN "send_check" ELSE "reply")
  /\ job' = [job EXCEPT ![p] =
               [NoJob EXCEPT !.op = "sendas", !.who = o, !.session = s,
                             !.role = r,
                             !.to = Counterpart(r, client[s], executor[s]),
                             !.result = IF accepted THEN "none"
                                        ELSE "refused"]]
  /\ UNCHANGED <<userRows, sessionRows, messages, violations, audit,
                 linked, paired, inbox>>

\* A blocked operator message is counted under the operator's id and refused;
\* the session is never paused for it.
SendAsCheck(p) ==
  LET k == ViolationKey[job[p].who] IN
  /\ At(p, "send_check")
  /\ \/ UNCHANGED <<violations, job>> /\ Goto(p, "send_store")
     \/ CheckError(k) /\ Goto(p, "send_store") /\ UNCHANGED job
     \/ violations' = Incremented(k) /\ Answer(p, "moderation_violation")
  /\ UNCHANGED <<userRows, sessionRows, messages, audit, started, history>>

SendAsStore(p) ==
  LET j == job[p] IN
  /\ At(p, "send_store")
  /\ IF j.to = None
       THEN Answer(p, "refused") /\ UNCHANGED messages
       ELSE /\ InsertMessage(p, j.session, None, j.role, j.to)
            /\ Goto(p, "send_bot")
  /\ UNCHANGED <<userRows, sessionRows, violations, audit, started, history>>

\* Delivery through the bot, then the audit entry, unless the call panics.
SendAsBot(p) ==
  LET j == job[p] IN
  /\ At(p, "send_bot")
  /\ IF BotClientSet
       THEN /\ Logged(inbox' = inbox \cup {[session |-> j.session,
                                            ref |-> j.message, to |-> j.to]},
                      UNCHANGED inbox)
            /\ AuditLog("operator_sent_message_as", j.who, j.session)
            /\ Answer(p, "ok")
       ELSE Answer(p, "error") /\ UNCHANGED <<inbox, audit>>
  /\ UNCHANGED <<userRows, sessionRows, messages, violations, started,
                 linked, paired, open>>

-----------------------------------------------------------------------------
(* Answers, failures, time *)

\* What the bot sends to Telegram when it gets the answer to a request.
Outgoing(j) ==
  CASE j.op = "relay" /\ j.result = "relayed" ->
         {[session |-> j.session, ref |-> j.message, to |-> j.to]}
    [] j.op = "bind" /\ j.result = "bound" ->
         {[session |-> j.session, ref |-> i, to |-> j.who] : i \in j.handed}
    [] j.op = "stop" /\ j.result = "ok" /\ j.to # None ->
         {[session |-> j.session, ref |-> 0, to |-> j.to]}
    [] OTHER -> {}

Finish(p) ==
  /\ Goto(p, "idle")
  /\ job' = [job EXCEPT ![p] = NoJob]
  /\ open' = [open EXCEPT ![p] = {}]

\* A failed send is logged and the next one tried.
Reply(p) ==
  /\ At(p, "reply")
  /\ \E sent \in SUBSET Outgoing(job[p]) :
       /\ Failures \/ sent = Outgoing(job[p])
       /\ inbox' = inbox \cup sent
  /\ Finish(p)
  /\ UNCHANGED <<userRows, sessionRows, messages, violations, audit, started,
                 linked, paired>>

\* The request ends between two statements: a statement fails, the bot's ten
\* seconds run out and its connection closes, or a process dies.  Postgres
\* rolls an open transaction back.
Abort(p) ==
  /\ Failures
  /\ ~At(p, "idle")
  /\ rowLock' = [u \in Users |-> IF rowLock[u] = p THEN None ELSE rowLock[u]]
  /\ Finish(p)
  /\ UNCHANGED <<registered, active, sessionRows, messages, violations, audit,
                 started, linked, paired, inbox>>

\* The 24 hours of a counter are over.
ViolationsExpire(k) ==
  /\ violations[k] > 0
  /\ violations' = [violations EXCEPT ![k] = 0]
  /\ UNCHANGED <<userRows, sessionRows, messages, audit, pc, job, started,
                 history>>

-----------------------------------------------------------------------------
(* Specification *)

Init ==
  /\ registered = {}
  /\ active = [u \in Users |-> None]
  /\ rowLock = [u \in Users |-> None]
  /\ client = [s \in Sessions |-> None]
  /\ executor = [s \in Sessions |-> None]
  /\ status = [s \in Sessions |-> "active"]
  /\ closedAt = [s \in Sessions |-> FALSE]
  /\ closeRequestedBy = [s \in Sessions |-> None]
  /\ messages = << >>
  /\ violations = [k \in Keys |-> 0]
  /\ audit = {}
  /\ pc = [p \in Handlers |-> "idle"]
  /\ job = [p \in Handlers |-> NoJob]
  /\ started = 0
  /\ linked = {}
  /\ paired = {}
  /\ inbox = {}
  /\ open = [p \in Handlers |-> {}]

Arrival(p) ==
  \/ \E u \in Users, s \in Sessions, r \in Roles : BindRead(p, u, s, r)
  \/ \E u \in Users : RelayReadSender(p, u)
  \/ \E u \in Users, s \in Sessions : SwitchRead(p, u, s)
  \/ \E u \in Users : LangRead(p, u)
  \/ \E u \in Users : StopRead(p, u)
  \/ \E o \in Operators, s \in Sessions, st \in PatchStatuses :
       PatchRead(p, o, s, st)
  \/ \E o \in Operators, s \in Sessions, r \in Roles : SendAsRead(p, o, s, r)

Progress(p) ==
  \/ BindUser(p)
  \/ BindCreate(p)
  \/ BindSetActive(p)
  \/ BindTakeRole(p)
  \/ BindCollect(p)
  \/ RelayReadSession(p)
  \/ RelayCheck(p)
  \/ RelayPause(p)
  \/ RelayAlert(p)
  \/ RelayStore(p)
  \/ SwitchCheck(p)
  \/ SwitchWrite(p)
  \/ LangWrite(p)
  \/ StopReadSession(p)
  \/ StopUpdate(p)
  \/ StopRecord(p)
  \/ StopAlert(p)
  \/ PatchWrite(p)
  \/ SendAsCheck(p)
  \/ SendAsStore(p)
  \/ SendAsBot(p)
  \/ Reply(p)

\* The bound on requests is reached and all of them have been answered.
Exhausted ==
  /\ started = MaxRequests
  /\ \A p \in Handlers : At(p, "idle")
  /\ UNCHANGED vars

Next ==
  \/ \E p \in Handlers : Arrival(p) \/ Progress(p) \/ Abort(p)
  \/ \E k \in Keys : ViolationsExpire(k)
  \/ Exhausted

Spec == Init /\ [][Next]_vars

\* A goroutine that can take a step takes it; nothing makes requests arrive,
\* fail or counters expire.
FairSpec == Spec /\ \A p \in Handlers : WF_vars(Progress(p))

-----------------------------------------------------------------------------
(* Properties that hold *)

\* Every variable keeps its type: rows stay well formed whatever requests
\* interleave in the handlers.
TypeOK ==
  /\ registered \subseteq Users
  /\ active \in [Users -> Sessions \cup {None}]
  /\ rowLock \in [Users -> Handlers \cup {None}]
  /\ client \in [Sessions -> Users \cup {None}]
  /\ executor \in [Sessions -> Users \cup {None}]
  /\ status \in [Sessions -> Statuses]
  /\ closedAt \in [Sessions -> BOOLEAN]
  /\ closeRequestedBy \in [Sessions -> Users \cup {None}]
  /\ messages \in Seq(Message)
  /\ violations \in [Keys -> 0 .. PauseThreshold]
  /\ audit \subseteq AuditEntry
  /\ pc \in [Handlers -> Steps]
  /\ job \in [Handlers -> Job]
  /\ started \in 0 .. MaxRequests
  /\ linked \subseteq Users \X Sessions
  /\ paired \subseteq Sessions \X Users \X Users
  /\ inbox \subseteq Delivery
  /\ open \in [Handlers -> SUBSET Sessions]

\* The bot never hands a participant's message to anyone but a person who was
\* the other side of that very session at a moment when the sender was its
\* own side, however binds, switches and relays interleave between the reads
\* of relayMessage and the send (determineRoleAndRecipient, deliverToRecipient,
\* deliverPendingMessages).
DeliveredToCounterpart ==
  \A d \in inbox : d.ref > 0 =>
    LET m == messages[d.ref] IN
    /\ d.ref \in DOMAIN messages
    /\ m.session = d.session
    /\ m.sender # None =>
         IF m.role = "client" THEN <<d.session, m.sender, d.to>> \in paired
         ELSE <<d.session, d.to, m.sender>> \in paired

\* The relay is a mailbox: whatever the handlers do between their statements,
\* the log of messages is only ever appended to, and an entry leaves it only
\* for the person paired with its author (see Mailbox).
Box == INSTANCE Mailbox WITH log <- messages, pairs <- paired, handed <- inbox

ImplementsMailbox == Box!Spec

\* A message is stored only by a request during which its session was active
\* at some moment: a relay or send-as that begins after a pause, a /stop or a
\* close has taken effect stores nothing until the session is resumed, although
\* the status is read once and the row inserted several statements later.
AcceptedWhileActive ==
  \A p \in Handlers : job[p].message > 0 => job[p].session \in open[p]

\* A user's active session is always one whose link that user has opened:
\* neither a switch nor the row a language change writes back can put anyone
\* into a conversation they were never invited to.
ActiveIsLinked ==
  \A u \in Users : active[u] # None => <<u, active[u]>> \in linked

\* Once a side of a session is taken and no request to bind that side is in
\* flight, the side belongs to that user for good: the unconditional UPDATE of
\* SetClientUser and SetExecutorUser can only replace a user who bound
\* concurrently.
NoBind(s, r) ==
  \A p \in Handlers :
    ~(job[p].op = "bind" /\ job[p].session = s /\ job[p].role = r)

RolesSettle ==
  \A s \in Sessions, u \in Users :
    /\ [](client[s] = u /\ NoBind(s, "client") => [](client[s] = u))
    /\ [](executor[s] = u /\ NoBind(s, "executor") => [](executor[s] = u))

\* As long as no statement fails, a session waiting for the operator's decision
\* names a user who asked for it and had opened its link, except while a stop
\* request is between UpdateStatus and SetCloseRequestedBy, and whatever
\* operators and other participants do to the status meanwhile.
PendingCloseHasRequester ==
  \A s \in Sessions :
    /\ status[s] = "pending_close" =>
         \/ closeRequestedBy[s] # None
         \/ \E p \in Handlers : At(p, "stop_record") /\ job[p].session = s
    /\ closeRequestedBy[s] # None => <<closeRequestedBy[s], s>> \in linked

\* A session an operator has closed is taken up again only by an operator, by the
\* /stop of somebody who had opened its link, or by the automatic pause for a
\* message that arrived when the session was not closed yet: the pause is written
\* several statements after the status was read (messages.go:114), but never for
\* a message sent to a closed session.
ReopenedForCause ==
  [][\A s \in Sessions : status[s] = "closed" /\ status'[s] # "closed" =>
       \E p \in Handlers :
         /\ job[p].session = s /\ pc'[p] # pc[p]
         /\ \/ job[p].op = "patch"
            \/ job[p].op = "stop" /\ <<job[p].who, s>> \in linked
            \/ job[p].op = "relay" /\ s \in open[p]]_vars

\* Every request is answered: no handler waits for ever for the row lock of
\* SwitchActiveSessionTx, whose holder always commits or rolls back.
RequestsComplete ==
  \A p \in Handlers : ~At(p, "idle") ~> At(p, "idle")

-----------------------------------------------------------------------------
(* What the documentation says and the code does not do *)

\* sessions.go and message_relay.go: a participant who connects is given every
\* message the other side sent to the empty seat.
BoundUserGetsPending ==
  \A p \in Handlers :
    LET j == job[p] IN
    (At(p, "reply") /\ j.op = "bind" /\ j.result = "bound"
       /\ Counterpart(IF j.role = "client" THEN "executor" ELSE "client",
                      client[j.session], executor[j.session]) = j.who) =>
      \A i \in 1 .. j.base :
        (/\ messages[i].session = j.session
         /\ messages[i].recipient = None
         /\ messages[i].role # j.role
         /\ messages[i].sender # j.who) => i \in j.handed

\* user_repository.go: the lock on the users row serialises the updates that
\* change a user's active session, so a language change leaves it alone.
LanguageKeepsActive ==
  [][\A p \in Handlers : LangWrite(p) => UNCHANGED active]_vars

=============================================================================
