---------------------------- MODULE BotUpdatesProofs ----------------------------
(***************************************************************************)
(* Proofs about BotUpdates, for any number of updates, users and sessions, *)
(* any content of the updates and any place in the pool.                   *)
(*                                                                         *)
(* What the sender is told is decided by the answer to a request that has  *)
(* run through the backend among others.  The inductive invariant says of  *)
(* every request which update it belongs to, what it has stored and what   *)
(* its answer will mean (JobInv), that a process makes each request once   *)
(* (MadeInv), and that nobody else moves a person while his last request   *)
(* to be moved is under way (AloneInv, ToldInv).                           *)
(***************************************************************************)
EXTENDS BotUpdates, SequenceTheorems, TLAPS

-------------------------------------------------------------------------------
(* The inductive invariant *)

StepsOf(op) ==
  CASE op = "bind"   -> {"bind_user", "bind_create", "bind_active", "bind_role", "bind_collect"}
    [] op = "relay"  -> {"relay_session", "relay_check", "relay_pause", "relay_alert",
                         "relay_store"}
    [] op = "switch" -> {"switch_check", "switch_write"}
    [] op = "lang"   -> {"lang_write"}
    [] op = "stop"   -> {"stop_session", "stop_update", "stop_record", "stop_alert"}

Stored(h) == \E i \in DOMAIN by : by[i] = h

(* A request belongs to an update and speaks for its sender. *)
BelongsTo(j, c) == j.op = Op(c) /\ j.op # "none" /\ j.who = c.from

(* Before its answer a request has stored nothing. *)
Working(h, j, step) ==
  step \notin {"idle", "reply"} =>
    /\ step \in StepsOf(j.op)
    /\ ~Stored(h)
    /\ step # "lang_write" => j.session \in Sessions
    /\ step \in {"relay_check", "relay_pause", "relay_alert", "relay_store"} =>
         j.role \in Core!Roles

(* What a relay may answer. *)
RelayResults == Core!Results \ {"none", "ok", "bound", "refused"}

(* A relay that answers "relayed" has stored the text for the other side. *)
Answering(h, j, step) ==
  step = "reply" =>
    /\ j.op # "lang" /\ j.result \in {"bound", "relayed", "ok"} => j.session \in Sessions
    /\ j.op = "relay" =>
         /\ j.result \in RelayResults
         /\ j.result = "relayed" =>
              /\ j.to # None
              /\ \E i \in DOMAIN by : by[i] = h /\ messages[i].recipient = j.to

JobInv(h) ==
  IF pc[h] = "idle" THEN job[h] = Core!NoJob
  ELSE /\ BelongsTo(job[h], content[h[1]])
       /\ Working(h, job[h], pc[h])
       /\ Answering(h, job[h], pc[h])

(* The handler of h has made its request, and does not make it again. *)
Made(h) ==
  \/ h[2] < crashes
  \/ h[2] = crashes /\ (At(h[1], "asked") \/ phase[h[1]] = "over")

MadeInv == \A h \in Slots : pc[h] # "idle" \/ h \in alone \/ Stored(h) => Made(h)

(* The user's row says what request h was to make of it. *)
Moved(h) ==
  \/ pc[h] \in {"bind_role", "bind_collect"}
  \/ pc[h] = "reply" /\ job[h].result \in {"bound", "ok"}

AloneInv ==
  \A h \in alone : job[h].op \in Moves =>
    /\ Moving(job[h].who) = {h}
    /\ Moved(h) => active[job[h].who] = job[h].session

ToldInv == \A w \in Users : told[w] # None => Moving(w) = {} /\ active[w] = told[w]

MenuInv ==
  \A u \in Updates :
    \/ said[u] \in {"menu", "operator_list"} \/ at[u] = "menu"
    \/ phase[u] = "handling" /\ operator = "active"
    => u \in entitled

(* An update with a number beyond the last one sent has not been touched, and
   a handler waits for an answer only if it has asked for something. *)
PoolInv ==
  /\ crashes \in 0..MaxCrashes /\ sent \in Nat
  /\ \A u \in Updates : u > sent => phase[u] = "unsent"
  /\ \A u \in Updates : at[u] = "asked" => Op(content[u]) # "none"

IInv ==
  /\ TypeOK
  /\ PoolInv
  /\ \A h \in Slots : JobInv(h)
  /\ MadeInv
  /\ AloneInv
  /\ ToldInv
  /\ MenuInv
  /\ StoredOncePerProcess
  /\ SilenceMeansStored

-------------------------------------------------------------------------------
(* Types *)

(* The tables of the core, and everything else it keeps but its requests. *)
TablesOK ==
  /\ registered \subseteq Users
  /\ active \in [Users -> Sessions \cup {None}]
  /\ rowLock \in [Users -> Slots \cup {None}]
  /\ client \in [Sessions -> Users \cup {None}]
  /\ executor \in [Sessions -> Users \cup {None}]
  /\ status \in [Sessions -> Core!Statuses]
  /\ closedAt \in [Sessions -> BOOLEAN]
  /\ closeRequestedBy \in [Sessions -> Users \cup {None}]
  /\ messages \in Seq(Core!Message)
  /\ violations \in [Users -> 0..PauseThreshold]
  /\ audit \subseteq Core!AuditEntry
  /\ started \in 0..(MaxUpdates * (MaxCrashes + 1))
  /\ linked \subseteq Users \X Sessions
  /\ paired \subseteq Sessions \X Users \X Users
  /\ inbox \subseteq Core!Delivery
  /\ open \in [Slots -> SUBSET Sessions]

JobsOK == pc \in [Slots -> Core!Steps] /\ job \in [Slots -> Core!Job]

LEMMA CoreTypes == Core!TypeOK <=> TablesOK /\ JobsOK
BY DEF Core!TypeOK, TablesOK, JobsOK

HandlersOK ==
  /\ phase \in [Updates -> Pool!Phases]
  /\ content \in Contents
  /\ at \in [Updates -> {"off", "entered", "asked", "listing", "menu", "over"}]
  /\ listed \in [Updates -> Sessions \cup {None}]
  /\ operator \in {"active", "suspended", "disabled"}
  /\ said \in [Updates -> Notices]
  /\ alone \subseteq Slots /\ told \in [Users -> Sessions \cup {None}]
  /\ entitled \subseteq Updates

LEMMA Types ==
  TypeOK <=> TablesOK /\ JobsOK /\ HandlersOK /\ by \in Seq(Slots) /\ Len(by) = Len(messages)
BY CoreTypes DEF TypeOK, HandlersOK

LEMMA ContentTypes ==
  ASSUME HandlersOK, NEW u \in Updates
  PROVE  content[u] \in Update /\ From(u) \in Users
BY BotAssumption DEF HandlersOK, Update, From

-------------------------------------------------------------------------------
(* A step of the backend *)

(* What request h does to the log of messages: nothing that a sender is told
   about, or it stores its text. *)
Logs(h) ==
  \/ /\ by' = by
     /\ DOMAIN messages' = DOMAIN messages /\ Len(messages') = Len(messages)
     /\ \A i \in DOMAIN messages : messages'[i].recipient = messages[i].recipient
  \/ ~Stored(h) /\ by' = Append(by, h) /\ \E m : messages' = Append(messages, m)

LEMMA LogGrows ==
  ASSUME IInv, TablesOK', NEW h \in Slots, Logs(h)
  PROVE  /\ by' \in Seq(Slots) /\ Len(by') = Len(messages')
         /\ \A i \in DOMAIN by : /\ i \in DOMAIN by' /\ by'[i] = by[i]
                                 /\ messages'[i].recipient = messages[i].recipient
         /\ \A i \in DOMAIN by' : i \in DOMAIN by \/ (i = Len(by) + 1 /\ by'[i] = h /\ ~Stored(h))
<1>1. by \in Seq(Slots) /\ Len(by) = Len(messages) /\ messages \in Seq(Core!Message)
  BY Types DEF IInv, TablesOK
<1>2. DOMAIN by = 1..Len(by) /\ DOMAIN messages = 1..Len(by) /\ Len(by) \in Nat
  BY <1>1
<1>3. CASE by' = by /\ Len(messages') = Len(messages)
           /\ \A i \in DOMAIN messages : messages'[i].recipient = messages[i].recipient
  BY <1>1, <1>2, <1>3
<1>4. CASE ~Stored(h) /\ by' = Append(by, h) /\ \E m : messages' = Append(messages, m)
  <2>1. PICK m : messages' = Append(messages, m) BY <1>4
  <2>2. /\ by' \in Seq(Slots) /\ Len(by') = Len(by) + 1 /\ DOMAIN by' = 1..(Len(by) + 1)
        /\ by'[Len(by) + 1] = h /\ \A i \in 1..Len(by) : by'[i] = by[i]
    BY <1>1, <1>4
  <2>3. messages' \in Seq(Core!Message) BY DEF TablesOK
  <2>4. Len(messages') = Len(by) + 1 /\ \A i \in 1..Len(by) : messages'[i] = messages[i]
    BY <1>1, <1>2, <2>1
  <2> QED BY <1>2, <1>4, <2>2, <2>4
<1> QED BY <1>3, <1>4 DEF Logs

(* The request takes one statement further; it stays what it is. *)
LEMMA GoesOn ==
  ASSUME IInv, NEW h \in Slots, pc[h] # "idle",
         NEW step \in Core!Steps \ {"idle"}, pc' = [pc EXCEPT ![h] = step],
         NEW j \in Core!Job, job' = [job EXCEPT ![h] = j],
         j.op = job[h].op, j.who = job[h].who, j.session = job[h].session,
         TablesOK', Logs(h), Working(h, j, step)', Answering(h, j, step)',
         active' = active \/ (j.op \in Moves /\ \E s : active' = [active EXCEPT ![j.who] = s]),
         j.op \in Moves /\ Moved(h)' => \/ Moved(h) /\ active' = active
                                        \/ active'[j.who] = j.session,
         UNCHANGED <<poolVars, content, operator, handlerVars, alone, told, entitled>>
  PROVE  IInv'
<1> USE DEF poolVars, handlerVars
<1>1. /\ TablesOK /\ JobsOK /\ HandlersOK
      /\ pc \in [Slots -> Core!Steps] /\ job \in [Slots -> Core!Job]
      /\ active \in [Users -> Sessions \cup {None}] /\ alone \subseteq Slots
  BY Types DEF IInv, TablesOK, JobsOK, HandlersOK
<1>2. /\ pc' \in [Slots -> Core!Steps] /\ job' \in [Slots -> Core!Job]
      /\ pc'[h] = step /\ job'[h] = j
      /\ \A q \in Slots \ {h} : pc'[q] = pc[q] /\ job'[q] = job[q]
  BY <1>1
<1>3. /\ by' \in Seq(Slots) /\ Len(by') = Len(messages')
      /\ \A i \in DOMAIN by : /\ i \in DOMAIN by' /\ by'[i] = by[i]
                              /\ messages'[i].recipient = messages[i].recipient
      /\ \A i \in DOMAIN by' : i \in DOMAIN by \/ (i = Len(by) + 1 /\ by'[i] = h /\ ~Stored(h))
  BY LogGrows
<1>4. TypeOK'
  <2>1. HandlersOK' BY <1>1 DEF HandlersOK
  <2>2. JobsOK' BY <1>2 DEF JobsOK
  <2>3. Core!TypeOK' BY <2>2 DEF TablesOK, JobsOK, Core!TypeOK
  <2> QED BY <1>3, <2>1, <2>3 DEF TypeOK, HandlersOK
<1>5. \A q \in Slots : JobInv(q)'
  <2>1. JobInv(h)'
    <3>1. BelongsTo(job[h], content[h[1]]) BY DEF IInv, JobInv
    <3>2. j.op = Op(content[h[1]]) /\ j.op # "none" /\ j.who = content[h[1]].from
      BY <3>1 DEF BelongsTo
    <3>3. content'[h[1]] = content[h[1]] OBVIOUS
    <3>4. BelongsTo(job[h], content[h[1]])' BY <1>2, <3>2, <3>3 DEF BelongsTo
    <3>5. pc[h]' # "idle" /\ Working(h, job[h], pc[h])' /\ Answering(h, job[h], pc[h])'
      BY <1>2
    <3> QED BY <3>4, <3>5 DEF JobInv
  <2>2. ASSUME NEW q \in Slots \ {h} PROVE JobInv(q)'
    <3>1. JobInv(q) /\ pc'[q] = pc[q] /\ job'[q] = job[q] /\ content' = content
      BY <1>2 DEF IInv
    <3>2. Stored(q)' => Stored(q) BY <1>3 DEF Stored
    <3>3. Working(q, job[q], pc[q]) => Working(q, job[q], pc[q])' BY <3>2 DEF Working
    <3>4. Answering(q, job[q], pc[q]) => Answering(q, job[q], pc[q])'
      BY <1>3 DEF Answering
    <3>5. BelongsTo(job[q], content[q[1]])' <=> BelongsTo(job[q], content[q[1]])
      BY <3>1 DEF BelongsTo
    <3> QED BY <3>1, <3>3, <3>4, <3>5 DEF JobInv
  <2> QED BY <2>1, <2>2
<1>6. MadeInv'
  <2>1. ASSUME NEW q \in Slots PROVE Made(q)' <=> Made(q) BY DEF Made, At
  <2>2. ASSUME NEW q \in Slots \ {h} PROVE Stored(q)' => Stored(q) BY <1>3 DEF Stored
  <2> QED BY <1>2, <2>1, <2>2 DEF IInv, MadeInv
<1>7. \A w : Moving(w)' = Moving(w)
  BY <1>2 DEF Moving
<1>8. ASSUME NEW w, active'[w] # active[w] PROVE h \in Moving(w)
  <2>1. PICK s : j.op \in Moves /\ active' = [active EXCEPT ![j.who] = s] BY <1>8
  <2>2. DOMAIN active' = DOMAIN active BY <2>1
  <2>3. w = j.who BY <1>8, <2>1
  <2> QED BY <2>1, <2>3 DEF Moving
<1>9. AloneInv'
  <2> SUFFICES ASSUME NEW q \in alone, job'[q].op \in Moves
               PROVE  /\ Moving(job'[q].who) = {q}
                      /\ Moved(q)' => active'[job'[q].who] = job'[q].session
    BY <1>7 DEF AloneInv
  <2>1. q \in Slots /\ job'[q].op = job[q].op /\ job'[q].who = job[q].who
        /\ job'[q].session = job[q].session
    BY <1>1, <1>2
  <2>2. Moving(job[q].who) = {q} /\ (Moved(q) => active[job[q].who] = job[q].session)
    BY <2>1 DEF IInv, AloneInv
  <2>3. CASE q = h BY <1>2, <2>1, <2>2, <2>3
  <2>4. CASE q # h
    <3>1. Moved(q)' <=> Moved(q) BY <1>2, <2>1, <2>4 DEF Moved
    <3>2. active'[job[q].who] = active[job[q].who] BY <1>8, <2>2, <2>4
    <3> QED BY <2>1, <2>2, <3>1, <3>2
  <2> QED BY <2>3, <2>4
<1>10. ToldInv'
  BY <1>7, <1>8 DEF IInv, ToldInv
<1>11. MenuInv' BY DEF IInv, MenuInv
<1>12. StoredOncePerProcess'
  BY <1>3 DEF IInv, StoredOncePerProcess, Stored
<1>13. SilenceMeansStored'
  BY <1>3 DEF IInv, SilenceMeansStored, What, Slot
<1>14. PoolInv' BY DEF IInv, PoolInv
<1> QED BY <1>4, <1>5, <1>6, <1>9, <1>10, <1>11, <1>12, <1>13, <1>14 DEF IInv

LEMMA OpIs ==
  ASSUME NEW c
  PROVE  Op(c) \in {"relay", "stop", "bind", "switch", "lang", "none"}
BY DEF Op

(* What a request that is not answered yet may rely on. *)
LEMMA AtWork ==
  ASSUME IInv, NEW h \in Slots, pc[h] \notin {"idle", "reply"}
  PROVE  /\ job[h] \in Core!Job /\ pc[h] \in Core!Steps
         /\ job[h].op \in {"relay", "stop", "bind", "switch", "lang"}
         /\ job[h].who \in Users
         /\ pc[h] \in StepsOf(job[h].op)
         /\ ~Stored(h)
         /\ pc[h] # "lang_write" => job[h].session \in Sessions
         /\ job[h].session \in Sessions \cup {None}
         /\ pc[h] \in {"relay_check", "relay_pause", "relay_alert", "relay_store"} =>
              job[h].role \in Core!Roles
<1>1. JobsOK /\ HandlersOK BY Types DEF IInv
<1>2. BelongsTo(job[h], content[h[1]]) /\ Working(h, job[h], pc[h])
  BY DEF IInv, JobInv
<1>3. h[1] \in Updates BY DEF Slots
<1>4. job[h].who \in Users BY <1>1, <1>2, <1>3, ContentTypes DEF BelongsTo, From
<1>5. job[h] \in Core!Job /\ pc[h] \in Core!Steps BY <1>1 DEF JobsOK
<1>6. job[h].session \in Sessions \cup {None} BY <1>5 DEF Core!Job
<1>7. job[h].op \in {"relay", "stop", "bind", "switch", "lang"}
  BY <1>2, OpIs DEF BelongsTo
<1> QED BY <1>2, <1>4, <1>5, <1>6, <1>7 DEF Working

(* A step belongs to one operation. *)
LEMMA StepsApart ==
  ASSUME NEW op \in {"relay", "stop", "bind", "switch", "lang"}, NEW step \in StepsOf(op)
  PROVE  /\ step \in StepsOf("bind") => op = "bind"
         /\ step \in StepsOf("relay") => op = "relay"
         /\ step \in StepsOf("switch") => op = "switch"
         /\ step \in StepsOf("lang") => op = "lang"
         /\ step \in StepsOf("stop") => op = "stop"
         /\ step \in Core!Steps \ {"idle", "reply", "patch_write", "send_check", "send_store",
                                   "send_bot"}
<1>1. CASE op = "bind" BY <1>1 DEF StepsOf, Core!Steps
<1>2. CASE op = "relay" BY <1>2 DEF StepsOf, Core!Steps
<1>3. CASE op = "switch" BY <1>3 DEF StepsOf, Core!Steps
<1>4. CASE op = "lang" BY <1>4 DEF StepsOf, Core!Steps
<1>5. CASE op = "stop" BY <1>5 DEF StepsOf, Core!Steps
<1> QED BY <1>1, <1>2, <1>3, <1>4, <1>5

(* What a step of the backend leaves to the bot. *)
Aside == UNCHANGED <<poolVars, content, operator, handlerVars, alone, told, entitled>>

(* The request goes on to another statement. *)
LEMMA NextStatement ==
  ASSUME IInv, NEW h \in Slots, pc[h] \notin {"idle", "reply"},
         NEW step \in StepsOf(job[h].op), pc' = [pc EXCEPT ![h] = step],
         NEW j \in Core!Job, job' = [job EXCEPT ![h] = j],
         j.op = job[h].op, j.who = job[h].who, j.session = job[h].session,
         step \in {"relay_check", "relay_pause", "relay_alert", "relay_store"} =>
           j.role \in Core!Roles,
         TablesOK', UNCHANGED <<messages, by>>, Aside,
         active' = active \/ (j.op \in Moves /\ active' = [active EXCEPT ![j.who] = j.session]),
         step \in {"bind_role", "bind_collect"} =>
           \/ pc[h] = "bind_role" /\ active' = active
           \/ active' = [active EXCEPT ![j.who] = j.session]
  PROVE  IInv'
<1>1. /\ job[h].op \in {"relay", "stop", "bind", "switch", "lang"} /\ j.who \in Users
      /\ ~Stored(h) /\ (pc[h] # "lang_write" => job[h].session \in Sessions)
      /\ pc[h] \in StepsOf(job[h].op)
  BY AtWork
<1>2. step \in Core!Steps \ {"idle", "reply"} BY <1>1, StepsApart
<1>3. Logs(h) BY DEF Logs
<1>4. pc[h] = "lang_write" => step = "lang_write"
  BY <1>1, StepsApart DEF StepsOf
<1>5. Working(h, j, step)'
  BY <1>1, <1>4 DEF Working, Stored
<1>6. Answering(h, j, step)' BY <1>2 DEF Answering
<1>7. pc'[h] = step /\ active \in [Users -> Sessions \cup {None}]
  BY Types DEF IInv, JobsOK, TablesOK
<1>8. Moved(h)' => (Moved(h) /\ active' = active) \/ active'[j.who] = j.session
  BY <1>1, <1>2, <1>7 DEF Moved
<1>9. active' = active \/ (j.op \in Moves /\ \E s : active' = [active EXCEPT ![j.who] = s])
  OBVIOUS
<1> QED BY <1>2, <1>3, <1>5, <1>6, <1>8, <1>9, GoesOn DEF Aside

(* The request is answered. *)
LEMMA Answers ==
  ASSUME IInv, NEW h \in Slots, pc[h] \notin {"idle", "reply"},
         pc' = [pc EXCEPT ![h] = "reply"],
         NEW j \in Core!Job, job' = [job EXCEPT ![h] = j],
         j.op = job[h].op, j.who = job[h].who, j.session = job[h].session,
         j.op = "relay" => j.result \in RelayResults,
         TablesOK', Logs(h), Aside,
         j.op = "relay" /\ j.result = "relayed" =>
            j.to # None /\ \E i \in DOMAIN by' : by'[i] = h /\ messages'[i].recipient = j.to,
         active' = active \/ (j.op \in Moves /\ active' = [active EXCEPT ![j.who] = j.session]),
         j.op \in Moves /\ j.result \in {"bound", "ok"} =>
           \/ pc[h] = "bind_collect" /\ active' = active
           \/ active' = [active EXCEPT ![j.who] = j.session]
  PROVE  IInv'
<1>1. /\ job[h].op \in {"relay", "stop", "bind", "switch", "lang"} /\ j.who \in Users
      /\ (pc[h] # "lang_write" => job[h].session \in Sessions)
      /\ pc[h] \in StepsOf(job[h].op)
  BY AtWork
<1>2. "reply" \in Core!Steps \ {"idle"} BY DEF Core!Steps
<1>3. pc[h] = "lang_write" => j.op = "lang"
  BY <1>1, StepsApart DEF StepsOf
<1>4. Working(h, j, "reply")' BY DEF Working
<1>5. Answering(h, j, "reply")' BY <1>1, <1>3 DEF Answering
<1>6. pc'[h] = "reply" /\ job'[h] = j /\ active \in [Users -> Sessions \cup {None}]
  BY Types DEF IInv, JobsOK, TablesOK
<1>7. j.op \in Moves /\ Moved(h)' => (Moved(h) /\ active' = active) \/ active'[j.who] = j.session
  BY <1>1, <1>6 DEF Moved
<1>8. active' = active \/ (j.op \in Moves /\ \E s : active' = [active EXCEPT ![j.who] = s])
  OBVIOUS
<1> QED BY <1>2, <1>4, <1>5, <1>7, <1>8, GoesOn DEF Aside

-------------------------------------------------------------------------------
(* The statements of the backend, one lemma for each group of them *)

Rows == <<registered, active, rowLock, client, executor, status, closedAt, closeRequestedBy,
          violations, audit, started, linked, paired, inbox, open>>

(* How BackendStep extends a statement of the core. *)
Records(h) == by' = IF Len(messages') > Len(messages) THEN Append(by, h) ELSE by

LEMMA NothingRecorded ==
  ASSUME IInv, NEW h, Records(h), Len(messages') = Len(messages)
  PROVE  by' = by
<1>1. Len(messages) \in Nat BY Types DEF IInv, TablesOK
<1> QED BY <1>1 DEF Records

LEMMA SameTables ==
  ASSUME TablesOK, UNCHANGED Rows, UNCHANGED messages
  PROVE  TablesOK'
BY DEF TablesOK, Rows

LEMMA WithResult ==
  ASSUME NEW j \in Core!Job, NEW r \in Core!Results
  PROVE  /\ [j EXCEPT !.result = r] \in Core!Job
         /\ [j EXCEPT !.result = r].op = j.op /\ [j EXCEPT !.result = r].who = j.who
         /\ [j EXCEPT !.result = r].session = j.session
         /\ [j EXCEPT !.result = r].result = r
BY DEF Core!Job

(* An answer that needs no more than its result. *)
LEMMA PlainAnswer ==
  ASSUME IInv, NEW h \in Slots, pc[h] \notin {"idle", "reply"},
         NEW r \in Core!Results \ {"none", "relayed", "bound", "ok"}, Core!Answer(h, r),
         r = "refused" => job[h].op # "relay",
         TablesOK', UNCHANGED <<messages, by, active>>, Aside
  PROVE  IInv'
<1>1. PICK j : j = [job[h] EXCEPT !.result = r] OBVIOUS
<1>2. job[h] \in Core!Job BY AtWork
<1>3. j \in Core!Job /\ j.op = job[h].op /\ j.who = job[h].who /\ j.session = job[h].session
      /\ j.result = r
  BY <1>1, <1>2, WithResult
<1>4. job \in [Slots -> Core!Job] BY Types DEF IInv, JobsOK
<1>5. pc' = [pc EXCEPT ![h] = "reply"] /\ job' = [job EXCEPT ![h] = j]
  BY <1>1, <1>4 DEF Core!Answer, Core!Goto
<1>6. Logs(h) BY DEF Logs
<1>7. j.op = "relay" => j.result \in RelayResults BY <1>3 DEF RelayResults
<1> QED BY <1>3, <1>5, <1>6, <1>7, Answers

(* A statement after which the request goes on with the same job. *)
LEMMA SameJob ==
  ASSUME IInv, NEW h \in Slots, pc[h] \notin {"idle", "reply"},
         NEW step \in StepsOf(job[h].op), Core!Goto(h, step),
         step \notin {"relay_check", "bind_role", "bind_collect"},
         step \in {"relay_pause", "relay_alert", "relay_store"} =>
           pc[h] \in {"relay_check", "relay_pause"},
         TablesOK', UNCHANGED <<messages, by, active, job>>, Aside
  PROVE  IInv'
<1>1. job \in [Slots -> Core!Job] BY Types DEF IInv, JobsOK
<1>2. PICK j : j = job[h] OBVIOUS
<1>3. j \in Core!Job /\ job' = [job EXCEPT ![h] = j] BY <1>1, <1>2
<1>4. step \in {"relay_check", "relay_pause", "relay_alert", "relay_store"} =>
        j.role \in Core!Roles
  BY <1>2, AtWork
<1>5. pc' = [pc EXCEPT ![h] = step] BY DEF Core!Goto
<1> QED BY <1>2, <1>3, <1>4, <1>5, NextStatement

LEMMA BindReadingStep ==
  ASSUME IInv, NEW h \in Slots, Core!BindUser(h) \/ Core!BindCreate(h), Records(h), Aside
  PROVE  IInv'
<1>1. UNCHANGED <<messages, active>> /\ by' = by
  BY NothingRecorded DEF Core!BindUser, Core!BindCreate, Core!userRows
<1>2. pc[h] \in {"bind_user", "bind_create"}
  BY DEF Core!BindUser, Core!BindCreate, Core!At
<1>3. job[h].op = "bind" /\ job[h].who \in Users
  BY <1>2, AtWork, StepsApart DEF StepsOf
<1>4. {"bind_active", "bind_create"} \subseteq StepsOf(job[h].op) BY <1>3 DEF StepsOf
<1>5. TablesOK BY Types DEF IInv
<1>6. TablesOK'
  <2>1. registered' \subseteq Users
    BY <1>3, <1>5 DEF TablesOK, Core!BindUser, Core!BindCreate, Core!userRows
  <2>2. UNCHANGED <<active, rowLock, client, executor, status, closedAt, closeRequestedBy,
                    messages, violations, audit, started, linked, paired, inbox, open>>
    BY DEF Core!BindUser, Core!BindCreate, Core!userRows, Core!sessionRows, Core!history
  <2> QED BY <1>5, <2>1, <2>2 DEF TablesOK
<1>7. CASE Core!BindUser(h)
  <2>1. PICK step \in {"bind_active", "bind_create"} : Core!Goto(h, step) /\ job' = job
    BY <1>7 DEF Core!BindUser
  <2> QED BY <1>1, <1>2, <1>4, <1>6, <2>1, SameJob
<1>8. CASE Core!BindCreate(h) /\ job[h].who \in registered
  <2>1. Core!Answer(h, "error") BY <1>8 DEF Core!BindCreate
  <2> QED BY <1>1, <1>2, <1>6, <2>1, PlainAnswer DEF Core!Results
<1>9. CASE Core!BindCreate(h) /\ job[h].who \notin registered
  <2>1. Core!Goto(h, "bind_active") /\ job' = job BY <1>9 DEF Core!BindCreate
  <2> QED BY <1>1, <1>2, <1>4, <1>6, <2>1, SameJob
<1> QED BY <1>7, <1>8, <1>9

LEMMA BindSetActiveStep ==
  ASSUME IInv, NEW h \in Slots, Core!BindSetActive(h), Records(h), Aside
  PROVE  IInv'
<1>1. messages' = messages /\ job' = job /\ by' = by /\ pc[h] = "bind_active"
      /\ pc' = [pc EXCEPT ![h] = "bind_role"]
  BY NothingRecorded DEF Core!BindSetActive, Core!Goto, Core!At
<1>2. job[h].op = "bind" /\ job[h].who \in Users /\ job[h].session \in Sessions
  BY <1>1, AtWork, StepsApart DEF StepsOf
<1>3. "bind_role" \in StepsOf(job[h].op) BY <1>2 DEF StepsOf
<1>4. TablesOK BY Types DEF IInv
<1>5. active' = [active EXCEPT ![job[h].who] = job[h].session] BY DEF Core!BindSetActive
<1>6. TablesOK'
  <2>1. active' \in [Users -> Sessions \cup {None}] BY <1>2, <1>4, <1>5 DEF TablesOK
  <2>2. linked' \subseteq Users \X Sessions
    BY <1>2, <1>4 DEF TablesOK, Core!BindSetActive
  <2>3. UNCHANGED <<registered, rowLock, client, executor, status, closedAt, closeRequestedBy,
                    messages, violations, audit, started, paired, inbox, open>>
    BY DEF Core!BindSetActive, Core!sessionRows
  <2> QED BY <1>4, <2>1, <2>2, <2>3 DEF TablesOK
<1>7. PICK j : j = job[h] OBVIOUS
<1>8. j \in Core!Job /\ job' = [job EXCEPT ![h] = j] BY <1>1, <1>7, Types DEF IInv, JobsOK
<1>9. j.op \in Moves /\ active' = [active EXCEPT ![j.who] = j.session]
  BY <1>2, <1>5, <1>7 DEF Moves
<1>10. j.op = job[h].op /\ j.who = job[h].who /\ j.session = job[h].session BY <1>7
<1>11. PICK step : step = "bind_role" OBVIOUS
<1>12. /\ step \in StepsOf(job[h].op) /\ pc' = [pc EXCEPT ![h] = step]
       /\ step \notin {"relay_check", "relay_pause", "relay_alert", "relay_store"}
       /\ pc[h] \notin {"idle", "reply"}
  BY <1>1, <1>3, <1>11
<1> QED BY <1>1, <1>6, <1>8, <1>9, <1>10, <1>12, NextStatement

LEMMA BindTakeRoleStep ==
  ASSUME IInv, NEW h \in Slots, Core!BindTakeRole(h), Records(h), Aside
  PROVE  IInv'
<1>1. /\ messages' = messages /\ job' = job /\ active' = active /\ pc[h] = "bind_role"
      /\ by' = by /\ pc' = [pc EXCEPT ![h] = "bind_collect"]
  BY NothingRecorded DEF Core!BindTakeRole, Core!Goto, Core!At, Core!userRows
<1>2. job[h].op = "bind" /\ job[h].who \in Users /\ job[h].session \in Sessions
  BY <1>1, AtWork, StepsApart DEF StepsOf
<1>3. "bind_collect" \in StepsOf(job[h].op) BY <1>2 DEF StepsOf
<1>4. TablesOK BY Types DEF IInv
<1>5. TablesOK'
  <2>1. client' \in [Sessions -> Users \cup {None}] /\ executor' \in [Sessions -> Users \cup {None}]
    BY <1>2, <1>4 DEF TablesOK, Core!BindTakeRole
  <2>2. PICK s \in Sessions : /\ s = job[h].session
    BY <1>2
  <2>3. paired' \subseteq Sessions \X Users \X Users
    <3>1. paired \subseteq Sessions \X Users \X Users BY <1>4 DEF TablesOK
    <3>2. client'[s] \in Users \cup {None} /\ executor'[s] \in Users \cup {None} BY <2>1
    <3>3. paired' = IF client'[s] # None /\ executor'[s] # None
                    THEN paired \cup {<<s, client'[s], executor'[s]>>} ELSE paired
      BY <2>2 DEF Core!BindTakeRole
    <3> QED BY <3>1, <3>2, <3>3
  <2>4. UNCHANGED <<registered, active, rowLock, status, closedAt, closeRequestedBy,
                    messages, violations, audit, started, linked, inbox, open>>
    BY DEF Core!BindTakeRole, Core!userRows
  <2> QED BY <1>4, <2>1, <2>3, <2>4 DEF TablesOK
<1>6. PICK j : j = job[h] OBVIOUS
<1>7. j \in Core!Job /\ job' = [job EXCEPT ![h] = j] BY <1>1, <1>6, Types DEF IInv, JobsOK
<1>8. j.op = job[h].op /\ j.who = job[h].who /\ j.session = job[h].session BY <1>6
<1>9. PICK step : step = "bind_collect" OBVIOUS
<1>10. /\ step \in StepsOf(job[h].op) /\ pc' = [pc EXCEPT ![h] = step]
       /\ step \notin {"relay_check", "relay_pause", "relay_alert", "relay_store"}
       /\ pc[h] \notin {"idle", "reply"}
  BY <1>1, <1>3, <1>9
<1> QED BY <1>1, <1>5, <1>7, <1>8, <1>10, NextStatement

(* What was stored for the empty seat is marked as delivered; who it was for
   stays. *)
LEMMA BindCollectStep ==
  ASSUME IInv, NEW h \in Slots, Core!BindCollect(h), Records(h), Aside
  PROVE  IInv'
<1>1. PICK todo : todo = Core!Undelivered(job[h].session, job[h].who) OBVIOUS
<1>2. TablesOK /\ JobsOK /\ pc[h] = "bind_collect"
  BY Types DEF IInv, Core!BindCollect, Core!At
<1>3. job[h] \in Core!Job /\ job[h].op = "bind" /\ job[h].session \in Sessions
  BY <1>2, AtWork, StepsApart DEF StepsOf
<1>4. messages \in Seq(Core!Message) /\ Len(messages) \in Nat
      /\ DOMAIN messages = 1..Len(messages)
  BY <1>2 DEF TablesOK
<1>5. messages' = [i \in 1..Len(messages) |->
                     [messages[i] EXCEPT !.delivered = @ \/ i \in todo]]
  BY <1>1, <1>4 DEF Core!BindCollect
<1>6. /\ \A i \in 1..Len(messages) : /\ messages'[i] \in Core!Message
                                     /\ messages'[i].recipient = messages[i].recipient
  <2> SUFFICES ASSUME NEW i \in 1..Len(messages)
               PROVE  /\ messages'[i] \in Core!Message
                      /\ messages'[i].recipient = messages[i].recipient
    OBVIOUS
  <2>1. messages[i] \in Core!Message BY <1>4
  <2>2. messages'[i] = [messages[i] EXCEPT !.delivered = @ \/ i \in todo] BY <1>5
  <2>3. PICK d \in BOOLEAN : d = (messages[i].delivered \/ i \in todo) OBVIOUS
  <2>4. messages'[i] = [messages[i] EXCEPT !.delivered = d]
    BY <2>2, <2>3
  <2> QED BY <2>1, <2>4 DEF Core!Message
<1>7. messages' \in [1..Len(messages) -> Core!Message] BY <1>5, <1>6
<1>8. messages' \in Seq(Core!Message) BY <1>4, <1>7, SeqDef
<1>9. DOMAIN messages' = DOMAIN messages /\ Len(messages') = Len(messages)
  BY <1>4, <1>7, <1>8
<1>10. by' = by BY <1>9, NothingRecorded
<1>11. Logs(h) BY <1>4, <1>6, <1>9, <1>10 DEF Logs
<1>12. UNCHANGED Rows
  BY DEF Core!BindCollect, Rows, Core!userRows, Core!sessionRows, Core!history
<1>13. TablesOK' BY <1>2, <1>8, <1>12 DEF TablesOK, Rows
<1>14. PICK j : j = [job[h] EXCEPT !.handed = todo, !.result = "bound"] OBVIOUS
<1>15. todo \subseteq Nat BY <1>1, <1>4 DEF Core!Undelivered
<1>16. j \in Core!Job /\ j.op = job[h].op /\ j.who = job[h].who /\ j.session = job[h].session
  BY <1>3, <1>14, <1>15 DEF Core!Job, Core!Results
<1>17. job' = [job EXCEPT ![h] = j] /\ pc' = [pc EXCEPT ![h] = "reply"]
  BY <1>1, <1>2, <1>14 DEF Core!BindCollect, Core!Goto, JobsOK
<1>18. active' = active BY <1>12 DEF Rows
<1> QED BY <1>2, <1>3, <1>11, <1>13, <1>16, <1>17, <1>18, Answers

LEMMA RelayReadSessionStep ==
  ASSUME IInv, NEW h \in Slots, Core!RelayReadSession(h), Records(h), Aside
  PROVE  IInv'
<1>1. PICK s : s = job[h].session OBVIOUS
<1>2. PICK r : r = Core!RoleOf(job[h].who, client[s], executor[s]) OBVIOUS
<1>3. PICK refusal : refusal = Core!Refusal(s, r) OBVIOUS
<1>4. PICK to : to = Core!Counterpart(r, client[s], executor[s]) OBVIOUS
<1>5. PICK j : j = [job[h] EXCEPT !.role = r, !.result = refusal, !.client = client[s],
                                  !.executor = executor[s], !.to = to]
  OBVIOUS
<1>6. TablesOK /\ JobsOK /\ pc[h] = "relay_session"
  BY Types DEF IInv, Core!RelayReadSession, Core!At
<1>7. job[h] \in Core!Job /\ job[h].op = "relay" /\ s \in Sessions
  BY <1>1, <1>6, AtWork, StepsApart DEF StepsOf
<1>8. client[s] \in Users \cup {None} /\ executor[s] \in Users \cup {None}
  BY <1>6, <1>7 DEF TablesOK
<1>9. r \in Core!Roles \cup {None} BY <1>2 DEF Core!RoleOf, Core!Roles
<1>10. to \in Users \cup {None} BY <1>4, <1>8 DEF Core!Counterpart
<1>11. /\ refusal \in {"none", "session_not_active", "sender_not_in_session"}
       /\ refusal = "none" => r # None
  BY <1>3 DEF Core!Refusal
<1>12. refusal \in Core!Results BY <1>11 DEF Core!Results
<1>13. j \in Core!Job /\ j.op = job[h].op /\ j.who = job[h].who /\ j.session = job[h].session
       /\ j.role = r /\ j.result = refusal
  BY <1>5, <1>7, <1>8, <1>9, <1>10, <1>12 DEF Core!Job
<1>14. job' = [job EXCEPT ![h] = j]
  BY <1>1, <1>2, <1>3, <1>4, <1>5, <1>6 DEF Core!RelayReadSession, JobsOK
<1>15. PICK step : step = IF refusal = "none" THEN "relay_check" ELSE "reply" OBVIOUS
<1>16. pc' = [pc EXCEPT ![h] = step]
  BY <1>1, <1>2, <1>3, <1>15 DEF Core!RelayReadSession, Core!Goto
<1>17. UNCHANGED Rows /\ messages' = messages
  BY DEF Core!RelayReadSession, Rows, Core!userRows, Core!sessionRows, Core!history
<1>18. TablesOK' /\ by' = by /\ active' = active
  BY <1>6, <1>17, SameTables, NothingRecorded DEF Rows
<1>19. CASE refusal = "none"
  <2>1. step \in StepsOf(job[h].op) /\ step = "relay_check" BY <1>7, <1>15, <1>19 DEF StepsOf
  <2>2. j.role \in Core!Roles BY <1>9, <1>11, <1>13, <1>19
  <2> QED BY <1>6, <1>13, <1>14, <1>16, <1>17, <1>18, <2>1, <2>2, NextStatement
<1>20. CASE refusal # "none"
  <2>1. step = "reply" /\ j.result \in RelayResults \ {"relayed"}
    BY <1>11, <1>12, <1>13, <1>15, <1>20 DEF RelayResults
  <2>2. Logs(h) BY <1>17, <1>18 DEF Logs
  <2>3. j.op \notin Moves BY <1>7, <1>13 DEF Moves
  <2> QED BY <1>6, <1>13, <1>14, <1>16, <1>18, <2>1, <2>2, <2>3, Answers
<1> QED BY <1>19, <1>20

LEMMA RelayCheckStep ==
  ASSUME IInv, NEW h \in Slots, Core!RelayCheck(h), Records(h), Aside
  PROVE  IInv'
<1>1. TablesOK /\ pc[h] = "relay_check" BY Types DEF IInv, Core!RelayCheck, Core!At
<1>2. job[h].op = "relay" /\ job[h].who \in Users
  BY <1>1, AtWork, StepsApart DEF StepsOf
<1>3. PICK step \in {"relay_store", "relay_pause", "relay_alert"} : Core!Goto(h, step)
  BY DEF Core!RelayCheck
<1>4. step \in StepsOf(job[h].op) BY <1>2 DEF StepsOf
<1>5. PICK k \in Users : k = [u \in Users |-> u][job[h].who] BY <1>2
<1>6. Core!Incremented(k) \in [Users -> 0..PauseThreshold]
  BY <1>1, BotAssumption DEF TablesOK, Core!Incremented
<1>7. violations' \in {violations, Core!Incremented(k)}
  BY <1>5 DEF Core!RelayCheck, Core!CheckError
<1>8. UNCHANGED <<registered, active, rowLock, client, executor, status, closedAt,
                  closeRequestedBy, messages, audit, started, linked, paired, inbox, open, job>>
  BY DEF Core!RelayCheck, Core!userRows, Core!sessionRows, Core!history
<1>9. TablesOK' BY <1>1, <1>6, <1>7, <1>8 DEF TablesOK
<1>10. by' = by BY <1>8, NothingRecorded
<1> QED BY <1>1, <1>3, <1>4, <1>8, <1>9, <1>10, SameJob

(* The status of a session changes. *)
LEMMA StatusTypes ==
  ASSUME TablesOK, NEW s \in Sessions, NEW st \in Core!Statuses, Core!UpdateStatus(s, st),
         UNCHANGED <<registered, active, rowLock, client, executor, closeRequestedBy, messages,
                     violations, audit, started, linked, paired, inbox>>
  PROVE  TablesOK'
<1>1. status' \in [Sessions -> Core!Statuses] /\ closedAt' \in [Sessions -> BOOLEAN]
  BY DEF TablesOK, Core!UpdateStatus
<1>2. open' \in [Slots -> SUBSET Sessions] BY DEF TablesOK, Core!UpdateStatus
<1> QED BY <1>1, <1>2 DEF TablesOK

LEMMA RelayPauseStep ==
  ASSUME IInv, NEW h \in Slots, Core!RelayPause(h), Records(h), Aside
  PROVE  IInv'
<1>1. TablesOK /\ pc[h] = "relay_pause" /\ Core!Goto(h, "relay_alert")
  BY Types DEF IInv, Core!RelayPause, Core!At
<1>2. job[h].op = "relay" /\ job[h].session \in Sessions
  BY <1>1, AtWork, StepsApart DEF StepsOf
<1>3. "relay_alert" \in StepsOf(job[h].op) BY <1>2 DEF StepsOf
<1>4. UNCHANGED <<registered, active, rowLock, client, executor, closeRequestedBy, messages,
                  violations, audit, started, linked, paired, inbox, job>>
  BY DEF Core!RelayPause, Core!userRows
<1>5. TablesOK'
  <2>1. CASE Core!UpdateStatus(job[h].session, "paused")
    BY <1>1, <1>2, <1>4, <2>1, StatusTypes DEF Core!Statuses
  <2>2. CASE UNCHANGED <<status, closedAt, open>>
    BY <1>1, <1>4, <2>2 DEF TablesOK
  <2> QED BY <2>1, <2>2 DEF Core!RelayPause, Core!Logged
<1>6. by' = by BY <1>4, NothingRecorded
<1> QED BY <1>1, <1>3, <1>4, <1>5, <1>6, SameJob

LEMMA RelayAlertStep ==
  ASSUME IInv, NEW h \in Slots, Core!RelayAlert(h), Records(h), Aside
  PROVE  IInv'
<1>1. UNCHANGED Rows /\ messages' = messages
  BY DEF Core!RelayAlert, Rows, Core!userRows, Core!sessionRows, Core!history
<1>2. TablesOK' /\ by' = by /\ active' = active
  BY <1>1, SameTables, NothingRecorded, Types DEF Rows, IInv
<1>3. pc[h] \notin {"idle", "reply"} BY DEF Core!RelayAlert, Core!At
<1>4. PICK r \in {"moderation_violation", "error"} : Core!Answer(h, r)
  BY DEF Core!RelayAlert
<1>5. r \in Core!Results \ {"none", "relayed", "bound", "ok"} BY DEF Core!Results
<1> QED BY <1>1, <1>2, <1>3, <1>4, <1>5, PlainAnswer

(* The text is stored; "relayed" is said only of a text for somebody. *)
LEMMA RelayStoreStep ==
  ASSUME IInv, NEW h \in Slots, Core!RelayStore(h), Records(h), Aside
  PROVE  IInv'
<1>1. TablesOK /\ JobsOK /\ by \in Seq(Slots) /\ Len(by) = Len(messages) /\ pc[h] = "relay_store"
  BY Types DEF IInv, Core!RelayStore, Core!At
<1>2. /\ job[h] \in Core!Job /\ job[h].op = "relay" /\ job[h].who \in Users
      /\ job[h].session \in Sessions /\ job[h].role \in Core!Roles /\ ~Stored(h)
  BY <1>1, AtWork, StepsApart DEF StepsOf
<1>3. PICK to : to = job[h].to OBVIOUS
<1>4. to \in Users \cup {None} BY <1>2, <1>3 DEF Core!Job
<1>5. PICK m : m = [session |-> job[h].session, sender |-> job[h].who, role |-> job[h].role,
                    recipient |-> to, delivered |-> TRUE]
  OBVIOUS
<1>6. m \in Core!Message /\ m.recipient = to BY <1>2, <1>4, <1>5 DEF Core!Message
<1>7. messages' = Append(messages, m)
  BY <1>3, <1>5 DEF Core!RelayStore, Core!InsertMessage, Core!StoredDelivered
<1>8. messages \in Seq(Core!Message) /\ Len(messages) \in Nat BY <1>1 DEF TablesOK
<1>9. PICK n : n = Len(messages) + 1 OBVIOUS
<1>10. messages' \in Seq(Core!Message) /\ Len(messages') = n /\ messages'[n] = m
       /\ n \in Nat /\ n > Len(messages)
  BY <1>6, <1>7, <1>8, <1>9
<1>11. by' = Append(by, h) BY <1>8, <1>10 DEF Records
<1>12. n \in DOMAIN by' /\ by'[n] = h BY <1>1, <1>8, <1>9, <1>11
<1>13. Logs(h) BY <1>2, <1>7, <1>11 DEF Logs
<1>14. PICK r : r = IF to = None THEN "counterparty_not_bound_yet" ELSE "relayed" OBVIOUS
<1>15. r \in RelayResults BY <1>14 DEF Core!Results, RelayResults
<1>16. PICK j : j = [job[h] EXCEPT !.message = n, !.result = r] OBVIOUS
<1>17. /\ j \in Core!Job /\ j.op = job[h].op /\ j.who = job[h].who
       /\ j.session = job[h].session /\ j.result = r /\ j.to = to
  BY <1>2, <1>3, <1>10, <1>15, <1>16 DEF Core!Job, RelayResults
<1>18. job' = [job EXCEPT ![h] = j] /\ pc' = [pc EXCEPT ![h] = "reply"]
  BY <1>1, <1>3, <1>9, <1>14, <1>16
  DEF Core!RelayStore, Core!InsertMessage, Core!Goto, JobsOK
<1>19. UNCHANGED Rows
  BY DEF Core!RelayStore, Rows, Core!userRows, Core!sessionRows, Core!history
<1>20. TablesOK' BY <1>1, <1>10, <1>19 DEF TablesOK, Rows
<1>21. j.result = "relayed" =>
         j.to # None /\ \E i \in DOMAIN by' : by'[i] = h /\ messages'[i].recipient = j.to
  BY <1>6, <1>10, <1>12, <1>14, <1>17
<1>22. active' = active BY <1>19 DEF Rows
<1>23. j.op \notin Moves BY <1>2, <1>17 DEF Moves
<1> QED BY <1>1, <1>13, <1>15, <1>17, <1>18, <1>20, <1>21, <1>22, <1>23, Answers

LEMMA SwitchCheckStep ==
  ASSUME IInv, NEW h \in Slots, Core!SwitchCheck(h), Records(h), Aside
  PROVE  IInv'
<1>1. TablesOK /\ pc[h] = "switch_check" BY Types DEF IInv, Core!SwitchCheck, Core!At
<1>2. job[h].op = "switch" /\ job[h].who \in Users
  BY <1>1, AtWork, StepsApart DEF StepsOf
<1>3. UNCHANGED <<registered, active, client, executor, status, closedAt, closeRequestedBy,
                  messages, violations, audit, started, linked, paired, inbox, open>>
  BY DEF Core!SwitchCheck, Core!sessionRows, Core!history
<1>4. by' = by BY <1>3, NothingRecorded
<1>5. rowLock' \in [Users -> Slots \cup {None}]
  BY <1>1 DEF TablesOK, Core!SwitchCheck, Core!RolledBack
<1>6. TablesOK' BY <1>1, <1>3, <1>5 DEF TablesOK
<1>7. CASE Core!IsParticipant(job[h].who, job[h].session)
  <2>1. Core!Goto(h, "switch_write") /\ job' = job BY <1>7 DEF Core!SwitchCheck
  <2>2. "switch_write" \in StepsOf(job[h].op) BY <1>2 DEF StepsOf
  <2> QED BY <1>1, <1>3, <1>4, <1>6, <2>1, <2>2, SameJob
<1>8. CASE ~Core!IsParticipant(job[h].who, job[h].session)
  <2>1. Core!Answer(h, "refused") BY <1>8 DEF Core!SwitchCheck
  <2>2. "refused" \in Core!Results \ {"none", "relayed", "bound", "ok"} BY DEF Core!Results
  <2> QED BY <1>1, <1>2, <1>3, <1>4, <1>6, <2>1, <2>2, PlainAnswer
<1> QED BY <1>7, <1>8

LEMMA ActiveWriteStep ==
  ASSUME IInv, NEW h \in Slots, Core!SwitchWrite(h) \/ Core!LangWrite(h), Records(h), Aside
  PROVE  IInv'
<1>1. TablesOK /\ JobsOK /\ pc[h] \in {"switch_write", "lang_write"}
  BY Types DEF IInv, Core!SwitchWrite, Core!LangWrite, Core!At
<1>2. /\ job[h] \in Core!Job /\ job[h].op \in {"switch", "lang"} /\ job[h].who \in Users
      /\ job[h].session \in Sessions \cup {None}
  BY <1>1, AtWork, StepsApart DEF StepsOf
<1>3. active' = [active EXCEPT ![job[h].who] = job[h].session] /\ Core!Answer(h, "ok")
  BY DEF Core!SwitchWrite, Core!LangWrite
<1>4. UNCHANGED <<registered, client, executor, status, closedAt, closeRequestedBy,
                  messages, violations, audit, started, linked, paired, inbox, open>>
  BY DEF Core!SwitchWrite, Core!LangWrite, Core!sessionRows, Core!history
<1>5. rowLock' \in [Users -> Slots \cup {None}]
  BY <1>1 DEF TablesOK, Core!SwitchWrite, Core!LangWrite
<1>6. active' \in [Users -> Sessions \cup {None}] BY <1>1, <1>2, <1>3 DEF TablesOK
<1>7. TablesOK' BY <1>1, <1>4, <1>5, <1>6 DEF TablesOK
<1>8. by' = by BY <1>4, NothingRecorded
<1>9. PICK r \in Core!Results : r = "ok" BY DEF Core!Results
<1>10. PICK j : j = [job[h] EXCEPT !.result = r] OBVIOUS
<1>11. j \in Core!Job /\ j.op = job[h].op /\ j.who = job[h].who /\ j.session = job[h].session
  BY <1>2, <1>9, <1>10, WithResult
<1>12. job' = [job EXCEPT ![h] = j] /\ pc' = [pc EXCEPT ![h] = "reply"]
  BY <1>1, <1>3, <1>9, <1>10 DEF Core!Answer, Core!Goto, JobsOK
<1>13. j.op \in Moves /\ j.op # "relay" /\ active' = [active EXCEPT ![j.who] = j.session]
  BY <1>2, <1>3, <1>11 DEF Moves
<1>14. Logs(h) BY <1>4, <1>8 DEF Logs
<1> QED BY <1>1, <1>7, <1>11, <1>12, <1>13, <1>14, Answers

LEMMA AuditTypes ==
  ASSUME TablesOK, NEW a \in {"session_stop_requested"}, NEW u \in Users, NEW s \in Sessions,
         Core!AuditLog(a, u, s)
  PROVE  audit' \subseteq Core!AuditEntry
BY DEF TablesOK, Core!AuditLog, Core!Logged, Core!AuditEntry

LEMMA StopStep ==
  ASSUME IInv, NEW h \in Slots, Records(h), Aside,
         Core!StopReadSession(h) \/ Core!StopUpdate(h) \/ Core!StopRecord(h) \/ Core!StopAlert(h)
  PROVE  IInv'
<1>1. /\ TablesOK /\ JobsOK
      /\ pc[h] \in {"stop_session", "stop_update", "stop_record", "stop_alert"}
  BY Types DEF IInv, Core!StopReadSession, Core!StopUpdate, Core!StopRecord, Core!StopAlert,
               Core!At
<1>2. /\ job[h] \in Core!Job /\ job[h].op = "stop" /\ job[h].who \in Users
      /\ job[h].session \in Sessions
  BY <1>1, AtWork, StepsApart DEF StepsOf
<1>3. StepsOf(job[h].op) = {"stop_session", "stop_update", "stop_record", "stop_alert"}
  BY <1>2 DEF StepsOf
<1>4. /\ UNCHANGED <<registered, active, rowLock, client, executor, messages, violations,
                     started, linked, paired, inbox>>
      /\ by' = by
  BY NothingRecorded
  DEF Core!StopReadSession, Core!StopUpdate, Core!StopRecord, Core!StopAlert,
      Core!userRows, Core!sessionRows, Core!history
<1>5. CASE Core!StopReadSession(h)
  <2>1. PICK to : job' = [job EXCEPT ![h].to = to] /\ to \in Users \cup {None}
    <3>1. client[job[h].session] \in Users \cup {None} /\ executor[job[h].session] \in Users \cup {None}
      BY <1>1, <1>2 DEF TablesOK
    <3> QED BY <1>5, <3>1 DEF Core!StopReadSession, Core!Counterpart
  <2>2. PICK j : j = [job[h] EXCEPT !.to = to] OBVIOUS
  <2>3. j \in Core!Job /\ j.op = job[h].op /\ j.who = job[h].who /\ j.session = job[h].session
    BY <1>2, <2>1, <2>2 DEF Core!Job
  <2>4. job' = [job EXCEPT ![h] = j] BY <1>1, <2>1, <2>2 DEF JobsOK
  <2>5. UNCHANGED Rows
    BY <1>5 DEF Core!StopReadSession, Rows, Core!userRows, Core!sessionRows, Core!history
  <2>6. TablesOK' BY <1>1, <1>4, <2>5, SameTables
  <2>7. PICK step : step = "stop_update" OBVIOUS
  <2>8. /\ step \in StepsOf(job[h].op) /\ pc' = [pc EXCEPT ![h] = step]
        /\ step \notin {"relay_check", "relay_pause", "relay_alert", "relay_store"}
        /\ step \notin {"bind_role", "bind_collect"}
    BY <1>3, <1>5, <2>7 DEF Core!StopReadSession, Core!Goto
  <2> QED BY <1>1, <1>4, <2>3, <2>4, <2>6, <2>8, NextStatement
<1>6. CASE Core!StopUpdate(h)
  <2>1. job' = job /\ Core!Goto(h, "stop_record") BY <1>6 DEF Core!StopUpdate
  <2>2. TablesOK'
    BY <1>1, <1>2, <1>4, <1>6, StatusTypes DEF Core!StopUpdate, Core!Statuses
  <2> QED BY <1>1, <1>3, <1>4, <2>1, <2>2, SameJob
<1>7. CASE Core!StopRecord(h)
  <2>1. job' = job /\ Core!Goto(h, "stop_alert") BY <1>7 DEF Core!StopRecord
  <2>2. closeRequestedBy' \in [Sessions -> Users \cup {None}]
    BY <1>1, <1>2, <1>7 DEF Core!StopRecord, Core!Logged, TablesOK
  <2>3. UNCHANGED <<status, closedAt, audit, open>> BY <1>7 DEF Core!StopRecord, Core!history
  <2>4. TablesOK' BY <1>1, <1>4, <2>2, <2>3 DEF TablesOK
  <2> QED BY <1>1, <1>3, <1>4, <2>1, <2>4, SameJob
<1>8. CASE Core!StopAlert(h)
  <2>1. Core!Answer(h, "error") BY <1>8 DEF Core!StopAlert, Core!BotClientSet
  <2>2. audit' \subseteq Core!AuditEntry
    BY <1>1, <1>2, <1>8, AuditTypes DEF Core!StopAlert
  <2>3. UNCHANGED <<status, closedAt, closeRequestedBy, open>>
    BY <1>8 DEF Core!StopAlert, Core!sessionRows, Core!history
  <2>4. TablesOK' BY <1>1, <1>4, <2>2, <2>3 DEF TablesOK
  <2>5. "error" \in Core!Results \ {"none", "relayed", "bound", "ok"} BY DEF Core!Results
  <2> QED BY <1>1, <1>4, <2>1, <2>4, <2>5, PlainAnswer
<1> QED BY <1>5, <1>6, <1>7, <1>8

(* The operators' requests are never made here. *)
LEMMA NoOperators ==
  ASSUME IInv, NEW h \in Slots
  PROVE  /\ ~Core!PatchWrite(h) /\ ~Core!SendAsCheck(h) /\ ~Core!SendAsStore(h)
         /\ ~Core!SendAsBot(h)
<1>1. pc[h] \notin {"patch_write", "send_check", "send_store", "send_bot"}
  BY AtWork, StepsApart
<1> QED BY <1>1 DEF Core!PatchWrite, Core!SendAsCheck, Core!SendAsStore, Core!SendAsBot, Core!At

LEMMA BackendKeeps ==
  ASSUME IInv, NEW h \in Slots, BackendStep(h)
  PROVE  IInv'
<1>1. Core!Progress(h) /\ Records(h) /\ Aside /\ ~Core!Reply(h)
  BY DEF BackendStep, Records, Aside, Core!Reply, Core!At
<1> QED
  BY <1>1, BindReadingStep, BindSetActiveStep, BindTakeRoleStep, BindCollectStep,
     RelayReadSessionStep, RelayCheckStep, RelayPauseStep, RelayAlertStep, RelayStoreStep,
     SwitchCheckStep, ActiveWriteStep, StopStep, NoOperators
  DEF Core!Progress

-------------------------------------------------------------------------------
(* Requests begin *)

LEMMA NoJobType ==
  /\ Core!NoJob \in Core!Job /\ Core!NoJob.op = "none"
BY DEF Core!NoJob, Core!Job, Core!Operations, Core!PatchStatuses, Core!Results

LEMMA OpMeans ==
  ASSUME NEW c
  PROVE  /\ Op(c) = "bind" => Valid(c.arg)
         /\ Op(c) = "switch" => c.arg \in Sessions
         /\ c.what = "text" => Op(c) = "relay"
         /\ Op(c) = "relay" => c.what = "text"
BY DEF Op

(* A new request: its job, the step it is at, and what it leaves alone. *)
Begins(h, c, j, step) ==
  /\ pc[h] = "idle"
  /\ pc' = [pc EXCEPT ![h] = step] /\ job' = [job EXCEPT ![h] = j]
  /\ j.op = Op(c) /\ j.op # "none" /\ j.who = c.from
  /\ step \in StepsOf(j.op) \cup {"reply"}
  /\ step \notin {"relay_check", "relay_pause", "relay_alert", "relay_store", "bind_role",
                  "bind_collect"}
  /\ step \notin {"reply", "lang_write"} => j.session \in Sessions
  /\ step = "reply" => /\ j.result \in {"not_found", "no_active_session", "refused"}
                       /\ j.op = "relay" => j.result # "refused"
  /\ UNCHANGED <<active, messages>>

LEMMA BeginTypes ==
  ASSUME TablesOK, NEW h \in Slots, NEW o, Core!Begin(h, o),
         UNCHANGED <<registered, active, rowLock, client, executor, status, closedAt,
                     closeRequestedBy, messages, violations, audit, linked, paired, inbox>>
  PROVE  TablesOK'
<1>1. PICK max : max = MaxUpdates * (MaxCrashes + 1) OBVIOUS
<1>2. max \in Nat BY <1>1, BotAssumption
<1>3. started \in 0..max /\ started < max /\ started' = started + 1
  BY <1>1 DEF TablesOK, Core!Begin
<1>4. started' \in 0..max BY <1>2, <1>3
<1>5. open' \in [Slots -> SUBSET Sessions] BY DEF TablesOK, Core!Begin
<1> QED BY <1>1, <1>4, <1>5 DEF TablesOK

LEMMA RequestBegins ==
  ASSUME IInv, NEW u \in Updates, NEW h \in Slots, Request(u, h)
  PROVE  /\ TablesOK'
         /\ \E j \in Core!Job, step \in Core!Steps \ {"idle"} : Begins(h, content[u], j, step)
<1> USE DEF Core!userRows, Core!sessionRows
<1>1. PICK c, w : c = content[u] /\ w = c.from OBVIOUS
<1>2. TablesOK /\ JobsOK /\ HandlersOK BY Types DEF IInv
<1>3. w \in Users BY <1>1, <1>2, ContentTypes DEF From
<1>4. /\ active[w] \in Sessions \cup {None} /\ Len(messages) \in Nat
      /\ \A s \in Sessions : client[s] \in Users \cup {None} /\ executor[s] \in Users \cup {None}
  BY <1>2, <1>3 DEF TablesOK
<1>5. CASE Op(c) = "bind" /\ Core!BindRead(h, w, c.arg[1], RoleIn(c.arg))
  <2>1. PICK s \in Sessions, r \in Core!Roles : s = c.arg[1] /\ r = RoleIn(c.arg)
    BY <1>5, OpMeans DEF Valid, RoleIn, Core!Roles
  <2>2. PICK j : j = [Core!NoJob EXCEPT !.op = "bind", !.who = w, !.session = s, !.role = r,
                        !.client = client[s], !.executor = executor[s], !.base = Len(messages)]
    OBVIOUS
  <2>3. j \in Core!Job /\ j.op = "bind" /\ j.who = w /\ j.session = s
    BY <1>3, <1>4, <2>2, NoJobType DEF Core!Job, Core!Operations
  <2>4. PICK step \in Core!Steps \ {"idle"} : step = "bind_user" BY DEF Core!Steps
  <2>5. /\ pc[h] = "idle" /\ pc' = [pc EXCEPT ![h] = step] /\ job' = [job EXCEPT ![h] = j]
        /\ UNCHANGED <<active, messages>>
    BY <1>5, <2>1, <2>2, <2>4 DEF Core!BindRead, Core!Begin, Core!Goto
  <2>6. step \in StepsOf(j.op) BY <2>3, <2>4 DEF StepsOf
  <2>7. Begins(h, c, j, step) BY <1>1, <1>5, <2>3, <2>4, <2>5, <2>6 DEF Begins
  <2>8. TablesOK' BY <1>2, <1>5, BeginTypes DEF Core!BindRead
  <2> QED BY <1>1, <2>3, <2>7, <2>8
<1>6. CASE Op(c) = "relay" /\ Core!RelayReadSender(h, w)
  <2>1. PICK r : r = IF w \notin registered THEN "not_found"
                     ELSE IF active[w] = None THEN "no_active_session" ELSE "none"
    OBVIOUS
  <2>2. PICK j : j = [Core!NoJob EXCEPT !.op = "relay", !.who = w, !.session = active[w],
                                        !.result = r]
    OBVIOUS
  <2>3. /\ r \in Core!Results /\ r # "refused"
        /\ active[w] = None => r \in {"not_found", "no_active_session"}
    BY <2>1 DEF Core!Results
  <2>4. j \in Core!Job /\ j.op = "relay" /\ j.who = w /\ j.session = active[w] /\ j.result = r
    BY <1>3, <1>4, <2>2, <2>3, NoJobType DEF Core!Job, Core!Operations
  <2>5. PICK step \in Core!Steps \ {"idle"} :
          step = IF active[w] = None THEN "reply" ELSE "relay_session"
    BY DEF Core!Steps
  <2>6. /\ pc[h] = "idle" /\ pc' = [pc EXCEPT ![h] = step] /\ job' = [job EXCEPT ![h] = j]
        /\ UNCHANGED <<active, messages>>
    BY <1>6, <2>1, <2>2, <2>5 DEF Core!RelayReadSender, Core!Begin, Core!Goto
  <2>7. step \in StepsOf(j.op) \cup {"reply"} BY <2>4, <2>5 DEF StepsOf
  <2>8. Begins(h, c, j, step) BY <1>1, <1>4, <1>6, <2>3, <2>4, <2>5, <2>6, <2>7 DEF Begins
  <2>9. TablesOK' BY <1>2, <1>6, BeginTypes DEF Core!RelayReadSender
  <2> QED BY <1>1, <2>4, <2>8, <2>9
<1>7. CASE Op(c) = "switch" /\ Core!SwitchRead(h, w, c.arg)
  <2>1. PICK s \in Sessions : s = c.arg BY <1>7, OpMeans
  <2>2. PICK r : r = IF w \in registered THEN "none" ELSE "not_found" OBVIOUS
  <2>3. PICK j : j = [Core!NoJob EXCEPT !.op = "switch", !.who = w, !.session = s, !.result = r]
    OBVIOUS
  <2>4. r \in Core!Results BY <2>2 DEF Core!Results
  <2>5. j \in Core!Job /\ j.op = "switch" /\ j.who = w /\ j.session = s /\ j.result = r
    BY <1>3, <2>3, <2>4, NoJobType DEF Core!Job, Core!Operations
  <2>6. PICK step \in Core!Steps \ {"idle"} :
          step = IF w \in registered THEN "switch_check" ELSE "reply"
    BY DEF Core!Steps
  <2>7. /\ pc[h] = "idle" /\ pc' = [pc EXCEPT ![h] = step] /\ job' = [job EXCEPT ![h] = j]
        /\ UNCHANGED <<active, messages>>
    BY <1>7, <2>1, <2>2, <2>3, <2>6 DEF Core!SwitchRead, Core!Begin, Core!Goto
  <2>8. step \in StepsOf(j.op) \cup {"reply"} BY <2>5, <2>6 DEF StepsOf
  <2>9. Begins(h, c, j, step) BY <1>1, <1>7, <2>2, <2>5, <2>6, <2>7, <2>8 DEF Begins
  <2>10. TablesOK' BY <1>2, <1>7, BeginTypes DEF Core!SwitchRead
  <2> QED BY <1>1, <2>5, <2>9, <2>10
<1>8. CASE Op(c) = "lang" /\ Core!LangRead(h, w)
  <2>1. PICK r : r = IF w \in registered THEN "none" ELSE "not_found" OBVIOUS
  <2>2. PICK j : j = [Core!NoJob EXCEPT !.op = "lang", !.who = w, !.session = active[w],
                                        !.result = r]
    OBVIOUS
  <2>3. r \in Core!Results BY <2>1 DEF Core!Results
  <2>4. j \in Core!Job /\ j.op = "lang" /\ j.who = w /\ j.result = r
    BY <1>3, <1>4, <2>2, <2>3, NoJobType DEF Core!Job, Core!Operations
  <2>5. PICK step \in Core!Steps \ {"idle"} :
          step = IF w \in registered THEN "lang_write" ELSE "reply"
    BY DEF Core!Steps
  <2>6. /\ pc[h] = "idle" /\ pc' = [pc EXCEPT ![h] = step] /\ job' = [job EXCEPT ![h] = j]
        /\ UNCHANGED <<active, messages>>
    BY <1>8, <2>1, <2>2, <2>5 DEF Core!LangRead, Core!Begin, Core!Goto
  <2>7. step \in StepsOf(j.op) \cup {"reply"} BY <2>4, <2>5 DEF StepsOf
  <2>8. Begins(h, c, j, step) BY <1>1, <1>8, <2>1, <2>4, <2>5, <2>6, <2>7 DEF Begins
  <2>9. TablesOK' BY <1>2, <1>8, BeginTypes DEF Core!LangRead
  <2> QED BY <1>1, <2>4, <2>8, <2>9
<1>9. CASE Op(c) = "stop" /\ Core!StopRead(h, w)
  <2>1. PICK r : r = IF w \notin registered THEN "not_found"
                     ELSE IF active[w] = None THEN "refused" ELSE "none"
    OBVIOUS
  <2>2. PICK j : j = [Core!NoJob EXCEPT !.op = "stop", !.who = w, !.session = active[w],
                                        !.result = r]
    OBVIOUS
  <2>3. r \in Core!Results /\ (active[w] = None => r \in {"not_found", "refused"})
    BY <2>1 DEF Core!Results
  <2>4. j \in Core!Job /\ j.op = "stop" /\ j.who = w /\ j.session = active[w] /\ j.result = r
    BY <1>3, <1>4, <2>2, <2>3, NoJobType DEF Core!Job, Core!Operations
  <2>5. PICK step \in Core!Steps \ {"idle"} :
          step = IF active[w] = None THEN "reply" ELSE "stop_session"
    BY DEF Core!Steps
  <2>6. /\ pc[h] = "idle" /\ pc' = [pc EXCEPT ![h] = step] /\ job' = [job EXCEPT ![h] = j]
        /\ UNCHANGED <<active, messages>>
    BY <1>9, <2>1, <2>2, <2>5 DEF Core!StopRead, Core!Begin, Core!Goto
  <2>7. step \in StepsOf(j.op) \cup {"reply"} BY <2>4, <2>5 DEF StepsOf
  <2>8. Begins(h, c, j, step) BY <1>1, <1>4, <1>9, <2>3, <2>4, <2>5, <2>6, <2>7 DEF Begins
  <2>9. TablesOK' BY <1>2, <1>9, BeginTypes DEF Core!StopRead
  <2> QED BY <1>1, <2>4, <2>8, <2>9
<1> QED BY <1>1, <1>5, <1>6, <1>7, <1>8, <1>9 DEF Request

(* A handler that has not asked yet has no request, not even of an earlier
   process: its slot is new. *)
LEMMA SlotIsNew ==
  ASSUME IInv, NEW u \in Updates, At(u, "entered")
  PROVE  /\ Slot(u) \in Slots /\ pc[Slot(u)] = "idle" /\ job[Slot(u)].op = "none"
         /\ Slot(u) \notin alone /\ ~Stored(Slot(u))
<1>1. PICK h : h = Slot(u) OBVIOUS
<1>2. h \in Slots /\ h[1] = u /\ h[2] = crashes
  BY <1>1 DEF IInv, PoolInv, Slot, Slots
<1>3. ~Made(h) BY <1>2, BotAssumption DEF IInv, PoolInv, Made, At
<1>4. pc[h] = "idle" /\ h \notin alone /\ ~Stored(h) BY <1>2, <1>3 DEF IInv, MadeInv
<1>5. job[h] = Core!NoJob BY <1>2, <1>4 DEF IInv, JobInv
<1> QED BY <1>1, <1>2, <1>4, <1>5, NoJobType

LEMMA AskKeeps ==
  ASSUME IInv, NEW u \in Updates, Ask(u)
  PROVE  IInv'
<1>1. PICK h, w, c : h = Slot(u) /\ w = From(u) /\ c = content[u] OBVIOUS
<1>2. At(u, "entered") /\ Request(u, h) BY <1>1 DEF Ask
<1>3. h \in Slots /\ h[1] = u /\ h[2] = crashes BY <1>1, <1>2, SlotIsNew DEF Slot
<1>4. pc[h] = "idle" /\ job[h].op = "none" /\ h \notin alone /\ ~Stored(h)
  BY <1>1, <1>2, SlotIsNew
<1>5. TablesOK' BY <1>2, <1>3, RequestBegins
<1>6. PICK j \in Core!Job, step \in Core!Steps \ {"idle"} : Begins(h, c, j, step)
  BY <1>1, <1>2, <1>3, RequestBegins
<1>7. /\ TablesOK /\ JobsOK /\ HandlersOK /\ by \in Seq(Slots) /\ Len(by) = Len(messages)
      /\ pc \in [Slots -> Core!Steps] /\ job \in [Slots -> Core!Job]
  BY Types DEF IInv, JobsOK
<1>8. /\ UNCHANGED <<poolVars, content, operator, listed, said, by, entitled, active, messages>>
      /\ at' = [at EXCEPT ![u] = "asked"]
  BY <1>6 DEF Ask, Begins
<1>9. /\ pc'[h] = step /\ job'[h] = j /\ step # "idle"
      /\ \A q \in Slots \ {h} : pc'[q] = pc[q] /\ job'[q] = job[q]
  BY <1>3, <1>6, <1>7 DEF Begins
<1>10. j.op = Op(c) /\ j.op # "none" /\ j.who = w BY <1>1, <1>6 DEF Begins, From
<1>11. /\ alone' = IF Op(c) \notin Moves THEN alone
                   ELSE IF Moving(w) = {} THEN alone \cup {h} ELSE alone \ Moving(w)
       /\ told' = IF Op(c) \in Moves THEN [told EXCEPT ![w] = None] ELSE told
  BY <1>1 DEF Ask
<1>12. w \in Users BY <1>1, <1>7, ContentTypes
<1>13. TypeOK'
  <2>1. pc' \in [Slots -> Core!Steps] /\ job' \in [Slots -> Core!Job]
    BY <1>3, <1>6, <1>7 DEF Begins
  <2>2. Core!TypeOK' BY <1>5, <2>1 DEF TablesOK, Core!TypeOK
  <2>3. HandlersOK'
    <3>1. at' \in [Updates -> {"off", "entered", "asked", "listing", "menu", "over"}]
      BY <1>7, <1>8 DEF HandlersOK
    <3>2. alone' \subseteq Slots /\ told' \in [Users -> Sessions \cup {None}]
      BY <1>3, <1>7, <1>11, <1>12 DEF HandlersOK
    <3> QED BY <1>7, <1>8, <3>1, <3>2 DEF HandlersOK, poolVars
  <2> QED BY <1>7, <1>8, <2>2, <2>3 DEF TypeOK, HandlersOK
<1>14. PoolInv'
  <2>1. \A v \in Updates \ {u} : at'[v] = at[v] BY <1>7, <1>8 DEF HandlersOK
  <2>2. Op(c) # "none" BY <1>10
  <2> QED BY <1>1, <1>8, <2>1, <2>2 DEF IInv, PoolInv, poolVars
<1>15. ASSUME NEW q \in Slots PROVE JobInv(q)'
  <2>1. UNCHANGED <<content, by, messages>> BY <1>8
  <2>2. CASE q # h
    <3>1. JobInv(q) /\ pc'[q] = pc[q] /\ job'[q] = job[q] BY <1>9, <1>15, <2>2 DEF IInv
    <3> QED BY <2>1, <3>1 DEF JobInv, BelongsTo, Working, Answering, Stored
  <2>3. CASE q = h
    <3>1. BelongsTo(job[h], content[h[1]])' BY <1>1, <1>3, <1>6, <1>9, <2>1 DEF BelongsTo, Begins
    <3>2. Working(h, job[h], pc[h])' BY <1>4, <1>6, <1>9, <2>1 DEF Working, Stored, Begins
    <3>3. Answering(h, job[h], pc[h])' BY <1>6, <1>9 DEF Answering, Begins, Core!Results, RelayResults
    <3> QED BY <1>9, <2>3, <3>1, <3>2, <3>3 DEF JobInv
  <2> QED BY <2>2, <2>3
<1>16. MadeInv'
  <2> SUFFICES ASSUME NEW q \in Slots, pc'[q] # "idle" \/ q \in alone' \/ Stored(q)'
               PROVE  Made(q)'
    BY DEF MadeInv
  <2>1. at \in [Updates -> {"off", "entered", "asked", "listing", "menu", "over"}]
    BY <1>7 DEF HandlersOK
  <2>2. CASE q = h
    BY <1>2, <1>3, <1>8, <2>1, <2>2 DEF Made, At, poolVars
  <2>3. CASE q # h
    <3>1. pc[q] # "idle" \/ q \in alone \/ Stored(q)
      BY <1>8, <1>9, <1>11, <2>3 DEF Stored
    <3>2. Made(q) BY <3>1 DEF IInv, MadeInv
    <3>3. q[1] \in Updates BY DEF Slots
    <3> QED BY <1>8, <2>1, <3>2, <3>3 DEF Made, At, poolVars
  <2> QED BY <2>2, <2>3
<1>17. \A v : Moving(v)' = IF Op(c) \in Moves /\ v = w THEN Moving(v) \cup {h} ELSE Moving(v)
  <2>1. "none" \notin Moves BY DEF Moves
  <2> QED BY <1>3, <1>4, <1>9, <1>10, <2>1 DEF Moving
<1>18. AloneInv'
  <2> SUFFICES ASSUME NEW q \in alone', job'[q].op \in Moves, NEW v, v = job'[q].who
               PROVE  Moving(v)' = {q} /\ (Moved(q)' => active'[v] = job'[q].session)
    BY DEF AloneInv, Moving
  <2>1. CASE q = h
    <3>1. Op(c) \in Moves BY <1>9, <1>10, <2>1
    <3>2. Moving(w) = {} BY <1>4, <1>11, <2>1, <3>1
    <3>3. ~Moved(h)' BY <1>6, <1>9 DEF Moved, Begins
    <3> QED BY <1>9, <1>10, <1>17, <2>1, <3>1, <3>2, <3>3
  <2>2. CASE q # h
    <3>1. q \in alone /\ q \in Slots BY <1>7, <1>11, <2>2 DEF HandlersOK
    <3>2. pc'[q] = pc[q] /\ job'[q] = job[q] BY <1>9, <2>2, <3>1
    <3>3. Moving(v) = {q} /\ (Moved(q) => active[v] = job[q].session)
      BY <3>1, <3>2 DEF IInv, AloneInv
    <3>4. Op(c) \in Moves => v # w BY <1>11, <2>2, <3>3
    <3>5. Moved(q)' <=> Moved(q) BY <3>2 DEF Moved
    <3> QED BY <1>8, <1>17, <3>2, <3>3, <3>4, <3>5
  <2> QED BY <2>1, <2>2
<1>19. ToldInv'
  <2> SUFFICES ASSUME NEW v \in Users, told'[v] # None
               PROVE  Moving(v)' = {} /\ active'[v] = told'[v]
    BY DEF ToldInv, Moving
  <2>1. told'[v] = told[v] /\ (Op(c) \in Moves => v # w)
    BY <1>7, <1>11, <1>12 DEF HandlersOK
  <2> QED BY <1>8, <1>17, <2>1 DEF IInv, ToldInv
<1>20. MenuInv'
  BY <1>7, <1>8 DEF IInv, MenuInv, HandlersOK, poolVars
<1>21. StoredOncePerProcess' BY <1>8 DEF IInv, StoredOncePerProcess
<1>22. SilenceMeansStored'
  <2>1. at \in [Updates -> {"off", "entered", "asked", "listing", "menu", "over"}]
    BY <1>7 DEF HandlersOK
  <2>2. \A v \in Updates : at'[v] = "over" => at[v] = "over" BY <1>8, <2>1
  <2> QED BY <1>8, <2>2 DEF IInv, SilenceMeansStored, What, Slot, poolVars
<1> QED BY <1>13, <1>14, <1>15, <1>16, <1>18, <1>19, <1>20, <1>21, <1>22 DEF IInv

-------------------------------------------------------------------------------
(* Requests end *)

LEMMA RequestEnds ==
  ASSUME IInv, NEW h \in Slots, Core!Finish(h), UNCHANGED <<active, messages, by, content, alone>>
  PROVE  /\ JobsOK' /\ AloneInv' /\ StoredOncePerProcess'
         /\ \A q \in Slots : JobInv(q)' /\ (pc'[q] # "idle" => pc[q] # "idle")
         /\ \A w : Moving(w)' = Moving(w) \ {h}
<1>1. JobsOK /\ HandlersOK BY Types DEF IInv
<1>2. /\ pc' = [pc EXCEPT ![h] = "idle"] /\ job' = [job EXCEPT ![h] = Core!NoJob]
      /\ pc'[h] = "idle" /\ job'[h] = Core!NoJob
      /\ \A q \in Slots \ {h} : pc'[q] = pc[q] /\ job'[q] = job[q]
  BY <1>1 DEF Core!Finish, Core!Goto, JobsOK
<1>3. JobsOK'
  <2>1. "idle" \in Core!Steps BY DEF Core!Steps
  <2> QED BY <1>1, <1>2, <2>1, NoJobType DEF JobsOK
<1>4. ASSUME NEW q \in Slots PROVE JobInv(q)' /\ (pc'[q] # "idle" => pc[q] # "idle")
  <2>1. CASE q = h BY <1>2, <2>1 DEF JobInv
  <2>2. CASE q # h
    <3>1. JobInv(q) /\ pc'[q] = pc[q] /\ job'[q] = job[q] BY <1>2, <1>4, <2>2 DEF IInv
    <3> QED BY <3>1 DEF JobInv, BelongsTo, Working, Answering, Stored
  <2> QED BY <2>1, <2>2
<1>5. Core!NoJob.op \notin Moves BY NoJobType DEF Moves
<1>6. \A w : Moving(w)' = Moving(w) \ {h} BY <1>2, <1>5 DEF Moving
<1>7. AloneInv'
  <2> SUFFICES ASSUME NEW q \in alone, job'[q].op \in Moves, NEW v, v = job'[q].who
               PROVE  Moving(v)' = {q} /\ (Moved(q)' => active[v] = job'[q].session)
    BY DEF AloneInv, Moving
  <2>1. q # h /\ q \in Slots BY <1>1, <1>2, <1>5 DEF HandlersOK
  <2>2. pc'[q] = pc[q] /\ job'[q] = job[q] BY <1>2, <2>1
  <2>3. Moving(v) = {q} /\ (Moved(q) => active[v] = job[q].session)
    BY <2>2 DEF IInv, AloneInv
  <2> QED BY <1>6, <2>1, <2>2, <2>3 DEF Moved
<1>8. StoredOncePerProcess' BY DEF IInv, StoredOncePerProcess
<1> QED BY <1>3, <1>4, <1>6, <1>7, <1>8

LEMMA CancelKeeps ==
  ASSUME IInv, NEW h \in Slots, Cancel(h)
  PROVE  IInv'
<1>1. /\ Core!Finish(h)
      /\ UNCHANGED <<registered, active, client, executor, status, closedAt,
                     closeRequestedBy, messages, violations, audit, started,
                     linked, paired, inbox>>
      /\ UNCHANGED <<poolVars, content, operator, handlerVars, historyVars>>
  BY DEF Cancel
<1>2. TablesOK /\ HandlersOK /\ by \in Seq(Slots) /\ Len(by) = Len(messages)
  BY Types DEF IInv
<1>3. UNCHANGED <<active, messages, by, content, alone>> BY <1>1 DEF historyVars
<1>4. /\ JobsOK' /\ AloneInv' /\ StoredOncePerProcess'
      /\ \A q \in Slots : JobInv(q)' /\ (pc'[q] # "idle" => pc[q] # "idle")
      /\ \A w : Moving(w)' = Moving(w) \ {h}
  BY <1>1, <1>3, RequestEnds
<1>5. TypeOK'
  <2>1. rowLock' \in [Users -> Slots \cup {None}] BY <1>2 DEF TablesOK, Cancel
  <2>2. open' \in [Slots -> SUBSET Sessions] BY <1>1, <1>2 DEF TablesOK, Core!Finish
  <2>3. TablesOK' BY <1>1, <1>2, <2>1, <2>2 DEF TablesOK
  <2>4. Core!TypeOK' BY <1>4, <2>3 DEF TablesOK, JobsOK, Core!TypeOK
  <2> QED BY <1>1, <1>2, <2>4 DEF TypeOK, HandlersOK, poolVars, handlerVars, historyVars
<1>6. PoolInv' BY <1>1 DEF IInv, PoolInv, poolVars, handlerVars
<1>7. MadeInv'
  BY <1>1, <1>4 DEF IInv, MadeInv, Made, At, Stored, poolVars, handlerVars, historyVars
<1>8. ToldInv' BY <1>1, <1>4 DEF IInv, ToldInv, historyVars
<1>9. MenuInv' BY <1>1 DEF IInv, MenuInv, poolVars, handlerVars, historyVars
<1>10. SilenceMeansStored'
  BY <1>1 DEF IInv, SilenceMeansStored, What, Slot, poolVars, handlerVars, historyVars
<1> QED BY <1>4, <1>5, <1>6, <1>7, <1>8, <1>9, <1>10 DEF IInv

-------------------------------------------------------------------------------
(* The sender is told *)

(* A handler that returns after it has told the sender something true. *)
LEMMA TellStep ==
  ASSUME IInv, NEW u \in Updates, NEW notice \in Notices, Tell(u, notice),
         UNCHANGED <<content, operator, by, alone, entitled, messages>>,
         \A q \in Slots : pc'[q] # "idle" => pc[q] # "idle",
         notice \in {"menu", "operator_list"} => u \in entitled,
         What(u) = "text" /\ notice = "none" =>
           \E i \in DOMAIN by : by[i] = Slot(u) /\ messages[i].recipient # None
  PROVE  HandlersOK' /\ PoolInv' /\ MadeInv' /\ MenuInv' /\ SilenceMeansStored'
<1>1. HandlersOK /\ JobsOK BY Types DEF IInv
<1>2. /\ phase[u] = "handling" /\ phase' = [phase EXCEPT ![u] = "over"]
      /\ UNCHANGED <<sent, confirmed, handled, crashes>>
      /\ said' = [said EXCEPT ![u] = notice] /\ at' = [at EXCEPT ![u] = "over"]
      /\ listed' = [listed EXCEPT ![u] = None]
  BY DEF Tell, Pool!Return
<1>3. Slot(u) \in Slots BY DEF IInv, PoolInv, Slot, Slots
<1>4. From(u) \in Users BY <1>1, ContentTypes
<1>5. told' \in [Users -> Sessions \cup {None}]
  BY <1>1, <1>3, <1>4 DEF HandlersOK, JobsOK, Tell, Core!Job
<1>6. HandlersOK'
  <2>1. phase' \in [Updates -> Pool!Phases] BY <1>1, <1>2 DEF HandlersOK, Pool!Phases
  <2>2. at' \in [Updates -> {"off", "entered", "asked", "listing", "menu", "over"}]
        /\ listed' \in [Updates -> Sessions \cup {None}] /\ said' \in [Updates -> Notices]
    BY <1>1, <1>2 DEF HandlersOK
  <2> QED BY <1>1, <1>5, <2>1, <2>2 DEF HandlersOK
<1>7. /\ \A v \in Updates \ {u} : /\ phase'[v] = phase[v] /\ at'[v] = at[v]
                                  /\ said'[v] = said[v]
      /\ phase'[u] = "over" /\ at'[u] = "over" /\ said'[u] = notice
  BY <1>1, <1>2 DEF HandlersOK
<1>8. PoolInv' BY <1>2, <1>7 DEF IInv, PoolInv
<1>9. ASSUME NEW q \in Slots, Made(q) PROVE Made(q)'
  BY <1>2, <1>7, <1>9 DEF Made, At, Slots
<1>10. MadeInv' BY <1>9 DEF IInv, MadeInv, Stored
<1>11. MenuInv' BY <1>7 DEF IInv, MenuInv
<1>12. SilenceMeansStored'
  <2> SUFFICES ASSUME NEW v \in Updates, phase'[v] = "over", at'[v] = "over",
                      content[v].what = "text", said'[v] = "none"
               PROVE  \E i \in DOMAIN by : by[i] = <<v, crashes>> /\ messages[i].recipient # None
    BY <1>2 DEF SilenceMeansStored, What, Slot
  <2>1. CASE v = u BY <1>7, <2>1 DEF What, Slot
  <2>2. CASE v # u BY <1>7, <2>2 DEF IInv, SilenceMeansStored, What, Slot
  <2> QED BY <2>1, <2>2
<1> QED BY <1>6, <1>8, <1>10, <1>11, <1>12

(* Nothing of the core changes. *)
LEMMA CoreStays ==
  ASSUME IInv, UNCHANGED <<coreVars, content, by, alone>>
  PROVE  /\ TablesOK' /\ JobsOK' /\ AloneInv' /\ StoredOncePerProcess'
         /\ \A q \in Slots : JobInv(q)'
         /\ \A w : Moving(w)' = Moving(w)
         /\ by' \in Seq(Slots) /\ Len(by') = Len(messages')
<1> USE DEF coreVars
<1>1. TablesOK /\ JobsOK /\ by \in Seq(Slots) /\ Len(by) = Len(messages) BY Types DEF IInv
<1>2. TablesOK' BY <1>1 DEF TablesOK
<1>3. JobsOK' BY <1>1 DEF JobsOK
<1>4. AloneInv' BY DEF IInv, AloneInv, Moving, Moved
<1>5. StoredOncePerProcess' BY DEF IInv, StoredOncePerProcess
<1>6. \A q \in Slots : JobInv(q)'
  BY DEF IInv, JobInv, BelongsTo, Working, Answering, Stored
<1>7. \A w : Moving(w)' = Moving(w) BY DEF Moving
<1> QED BY <1>1, <1>2, <1>3, <1>4, <1>5, <1>6, <1>7

(* A step of the bot alone keeps the invariant if it keeps the bot's part. *)
LEMMA BotStep ==
  ASSUME IInv, UNCHANGED <<coreVars, content, by, alone>>,
         HandlersOK', PoolInv', MadeInv', MenuInv', SilenceMeansStored', ToldInv'
  PROVE  IInv'
<1>1. /\ TablesOK' /\ JobsOK' /\ AloneInv' /\ StoredOncePerProcess'
      /\ \A q \in Slots : JobInv(q)'
      /\ by' \in Seq(Slots) /\ Len(by') = Len(messages')
  BY CoreStays
<1>2. Core!TypeOK' BY <1>1 DEF TablesOK, JobsOK, Core!TypeOK
<1>3. TypeOK' BY <1>1, <1>2 DEF TypeOK, HandlersOK
<1> QED BY <1>1, <1>3 DEF IInv

(* He is told something that is not about his active session. *)
LEMMA TellsAside ==
  ASSUME IInv, NEW u \in Updates, NEW notice \in Notices \ {"connected", "switched"},
         Tell(u, notice), UNCHANGED <<coreVars, content, operator, by, alone, entitled>>,
         notice \in {"menu", "operator_list"} => u \in entitled,
         ~(What(u) = "text" /\ notice = "none")
  PROVE  IInv'
<1>1. HandlersOK' /\ PoolInv' /\ MadeInv' /\ MenuInv' /\ SilenceMeansStored'
  BY TellStep DEF coreVars
<1>2. told' = told BY DEF Tell
<1>3. ToldInv' BY <1>2, CoreStays DEF IInv, ToldInv, coreVars
<1> QED BY <1>1, <1>3, BotStep

LEMMA AnswerMeans ==
  ASSUME NEW op \in {"relay", "stop", "bind", "switch", "lang"}, NEW r \in Core!Results,
         op = "relay" => r \in RelayResults
  PROVE  /\ Notice(op, r) \in Notices \ {"menu", "operator_list"}
         /\ Notice(op, r) = "connected" => op = "bind" /\ r = "bound"
         /\ Notice(op, r) = "switched" => op = "switch" /\ r = "ok"
         /\ op = "relay" /\ Notice(op, r) = "none" => r = "relayed"
<1>1. CASE op = "relay"
  <2>1. r \in {"error", "not_found", "relayed", "no_active_session", "session_not_active",
               "sender_not_in_session", "moderation_violation", "counterparty_not_bound_yet"}
    BY <1>1 DEF RelayResults, Core!Results
  <2>2. Notice(op, r) = RelayNotice(r) BY <1>1 DEF Notice
  <2>3. RelayNotice(r) \in {"none", "error", "undeliverable", "no_active_session",
                             "session_not_active", "moderation_violation",
                             "counterparty_not_bound_yet"}
        /\ (RelayNotice(r) = "none" => r = "relayed")
    BY <2>1 DEF RelayNotice
  <2> QED BY <1>1, <2>2, <2>3 DEF Notices
<1>2. CASE op = "switch" BY <1>2 DEF Notice, SwitchNotice, Notices
<1>3. CASE op = "bind" BY <1>3 DEF Notice, BindNotice, Notices
<1>4. CASE op = "stop" BY <1>4 DEF Notice, StopNotice, Notices
<1>5. CASE op = "lang" BY <1>5 DEF Notice, Notices
<1> QED BY <1>1, <1>2, <1>3, <1>4, <1>5

LEMMA OutgoingTypes ==
  ASSUME NEW j \in Core!Job, j.who \in Users,
         j.op # "lang" /\ j.result \in {"bound", "relayed", "ok"} => j.session \in Sessions,
         j.op = "relay" /\ j.result = "relayed" => j.to # None
  PROVE  Core!Outgoing(j) \subseteq Core!Delivery
<1>1. j.to \in Users \cup {None} /\ j.message \in Nat /\ j.handed \subseteq Nat
  BY DEF Core!Job
<1>2. CASE j.op = "relay" /\ j.result = "relayed"
  BY <1>1, <1>2 DEF Core!Outgoing, Core!Delivery
<1>3. CASE j.op = "bind" /\ j.result = "bound"
  BY <1>1, <1>3 DEF Core!Outgoing, Core!Delivery
<1>4. CASE j.op = "stop" /\ j.result = "ok" /\ j.to # None
  BY <1>1, <1>4 DEF Core!Outgoing, Core!Delivery
<1>5. CASE /\ ~(j.op = "relay" /\ j.result = "relayed") /\ ~(j.op = "bind" /\ j.result = "bound")
           /\ ~(j.op = "stop" /\ j.result = "ok" /\ j.to # None)
  BY <1>5 DEF Core!Outgoing
<1> QED BY <1>2, <1>3, <1>4, <1>5

LEMMA AnsweredKeeps ==
  ASSUME IInv, NEW u \in Updates, Answered(u)
  PROVE  IInv'
<1>1. PICK h, j, notice : h = Slot(u) /\ j = job[h] /\ notice = Notice(j.op, j.result) OBVIOUS
<1>2. /\ Core!Reply(h) /\ Tell(u, notice)
      /\ UNCHANGED <<content, operator, by, alone, entitled>>
  BY <1>1 DEF Answered
<1>3. TablesOK /\ JobsOK /\ HandlersOK /\ by \in Seq(Slots) /\ Len(by) = Len(messages)
  BY Types DEF IInv
<1>4. h \in Slots /\ h[1] = u BY <1>1 DEF IInv, PoolInv, Slot, Slots
<1>5. pc[h] = "reply" /\ j \in Core!Job BY <1>1, <1>2, <1>3, <1>4 DEF Core!Reply, Core!At, JobsOK
<1>6. BelongsTo(j, content[u]) /\ Answering(h, j, "reply")
  BY <1>1, <1>4, <1>5 DEF IInv, JobInv
<1>7. /\ j.op \in {"relay", "stop", "bind", "switch", "lang"} /\ j.who = From(u)
      /\ From(u) \in Users
  BY <1>3, <1>6, OpIs, ContentTypes DEF BelongsTo, From
<1>8. /\ j.op # "lang" /\ j.result \in {"bound", "relayed", "ok"} => j.session \in Sessions
      /\ j.op = "relay" => j.result \in RelayResults
      /\ j.op = "relay" /\ j.result = "relayed" =>
           j.to # None /\ \E i \in DOMAIN by : by[i] = h /\ messages[i].recipient = j.to
  BY <1>6 DEF Answering
<1>9. j.result \in Core!Results BY <1>5 DEF Core!Job
<1>10. /\ notice \in Notices \ {"menu", "operator_list"}
       /\ notice = "connected" => j.op = "bind" /\ j.result = "bound"
       /\ notice = "switched" => j.op = "switch" /\ j.result = "ok"
       /\ j.op = "relay" /\ notice = "none" => j.result = "relayed"
  BY <1>1, <1>7, <1>8, <1>9, AnswerMeans
<1>11. /\ Core!Finish(h)
       /\ UNCHANGED <<registered, active, rowLock, client, executor, status, closedAt,
                      closeRequestedBy, messages, violations, audit, started, linked, paired>>
  BY <1>2 DEF Core!Reply, Core!userRows, Core!sessionRows
<1>12. /\ JobsOK' /\ AloneInv' /\ StoredOncePerProcess'
       /\ \A q \in Slots : JobInv(q)' /\ (pc'[q] # "idle" => pc[q] # "idle")
       /\ \A w : Moving(w)' = Moving(w) \ {h}
  BY <1>2, <1>4, <1>11, RequestEnds
<1>13. HandlersOK' /\ PoolInv' /\ MadeInv' /\ MenuInv' /\ SilenceMeansStored'
  <2>1. What(u) = "text" => j.op = "relay" BY <1>6, OpMeans DEF BelongsTo, What
  <2>2. What(u) = "text" /\ notice = "none" =>
          \E i \in DOMAIN by : by[i] = Slot(u) /\ messages[i].recipient # None
    BY <1>1, <1>8, <1>10, <2>1
  <2> QED BY <1>2, <1>10, <1>11, <1>12, <2>2, TellStep
<1>14. TypeOK'
  <2>1. inbox' \subseteq Core!Delivery
    <3>1. PICK delivered \in SUBSET Core!Outgoing(j) : inbox' = inbox \cup delivered
      BY <1>1, <1>2 DEF Core!Reply
    <3>2. Core!Outgoing(j) \subseteq Core!Delivery BY <1>5, <1>7, <1>8, OutgoingTypes
    <3> QED BY <1>3, <3>1, <3>2 DEF TablesOK
  <2>2. open' \in [Slots -> SUBSET Sessions] BY <1>3, <1>11 DEF TablesOK, Core!Finish
  <2>3. TablesOK' BY <1>3, <1>11, <2>1, <2>2 DEF TablesOK
  <2>4. Core!TypeOK' BY <1>12, <2>3 DEF TablesOK, JobsOK, Core!TypeOK
  <2> QED BY <1>2, <1>3, <1>11, <1>13, <2>4 DEF TypeOK, HandlersOK
<1>15. ToldInv'
  <2> SUFFICES ASSUME NEW w \in Users, told'[w] # None
               PROVE  Moving(w)' = {} /\ active'[w] = told'[w]
    BY DEF ToldInv, Moving
  <2>1. told \in [Users -> Sessions \cup {None}] BY <1>3 DEF HandlersOK
  <2>2. CASE notice \in {"connected", "switched"} /\ h \in alone /\ w = From(u)
    <3>1. told'[w] = j.session BY <1>1, <1>2, <1>7, <2>1, <2>2 DEF Tell
    <3>2. j.op \in Moves /\ j.result \in {"bound", "ok"} BY <1>10, <2>2 DEF Moves
    <3>3. Moving(w) = {h} /\ active[w] = j.session
      BY <1>1, <1>5, <1>7, <2>2, <3>2 DEF IInv, AloneInv, Moved
    <3> QED BY <1>11, <1>12, <3>1, <3>3
  <2>3. CASE ~(notice \in {"connected", "switched"} /\ h \in alone /\ w = From(u))
    <3>1. told'[w] = told[w] BY <1>1, <1>2, <1>7, <2>1, <2>3 DEF Tell
    <3>2. Moving(w) = {} /\ active[w] = told[w] BY <3>1 DEF IInv, ToldInv
    <3> QED BY <1>11, <1>12, <3>1, <3>2
  <2> QED BY <2>2, <2>3
<1> QED BY <1>12, <1>13, <1>14, <1>15 DEF IInv

-------------------------------------------------------------------------------
(* What the bot does by itself *)

(* The call failed, which is never told as a success. *)
LEMMA GiveUpKeeps ==
  ASSUME IInv, NEW u \in Updates, GiveUp(u)
  PROVE  IInv'
<1>1. PICK op, notice : op = Op(content[u]) /\ notice = Notice(op, "error") OBVIOUS
<1>2. Tell(u, notice) /\ UNCHANGED <<coreVars, content, operator, by, alone, entitled>>
  BY <1>1 DEF GiveUp
<1>3. op \in {"relay", "stop", "bind", "switch", "lang"}
  BY <1>1, OpIs DEF IInv, PoolInv, GiveUp, At
<1>4. "error" \in Core!Results /\ "error" \in RelayResults
  BY DEF RelayResults, Core!Results
<1>5. /\ notice \in Notices \ {"menu", "operator_list", "connected", "switched"}
      /\ op = "relay" => notice # "none"
  BY <1>1, <1>3, <1>4, AnswerMeans
<1>6. What(u) = "text" => op = "relay" BY <1>1, OpMeans DEF What
<1> QED BY <1>2, <1>5, <1>6, TellsAside

LEMMA ReplyMeans ==
  ASSUME NEW c
  PROVE  Reply(c) \in Notices \ {"connected", "switched", "menu", "operator_list"}
BY DEF Reply, Notices

(* Updates that are answered, or looked up, without a request of the core. *)
LEMMA AloneAnswersKeep ==
  ASSUME IInv, NEW u \in Updates,
         Answer(u) \/ HandleWithoutPayload(u) \/ HandleTakeRequest(u) \/ HandleMedia(u)
  PROVE  IInv'
<1>1. /\ "greeting" \in Notices /\ "processed" \in Notices /\ "unprocessed" \in Notices
      /\ "error" \in Notices /\ "none" \in Notices
  BY DEF Notices
<1>2. CASE Answer(u)
  <2>1. PICK notice : notice = Reply(content[u]) OBVIOUS
  <2>2. notice \in Notices \ {"connected", "switched", "menu", "operator_list"}
    BY <2>1, ReplyMeans
  <2>3. What(u) # "text" BY <1>2, OpMeans DEF Answer, What
  <2> QED BY <1>2, <2>1, <2>2, <2>3, TellsAside DEF Answer
<1>3. CASE HandleWithoutPayload(u)
  <2>1. PICK notice \in Notices : notice = "greeting" BY <1>1
  <2> QED BY <1>3, <2>1, TellsAside DEF HandleWithoutPayload
<1>4. CASE HandleTakeRequest(u)
  <2>1. PICK notice \in {"processed", "unprocessed", "error"} : Tell(u, notice)
    BY <1>4 DEF HandleTakeRequest
  <2> QED BY <1>1, <1>4, <2>1, TellsAside DEF HandleTakeRequest
<1>5. CASE HandleMedia(u)
  <2>1. PICK notice \in {"none", "error"} : Tell(u, notice) BY <1>5 DEF HandleMedia
  <2>2. What(u) # "text" BY <1>5 DEF HandleMedia
  <2> QED BY <1>1, <1>5, <2>1, <2>2, TellsAside DEF HandleMedia
<1> QED BY <1>2, <1>3, <1>4, <1>5

(* A handler that has read something and goes on to show it. *)
LEMMA LooksUp ==
  ASSUME IInv, NEW u \in Updates, At(u, "entered"), NEW step \in {"listing", "menu"},
         at' = [at EXCEPT ![u] = step], listed' \in [Updates -> Sessions \cup {None}],
         UNCHANGED <<poolVars, said, told, coreVars, content, operator, by, alone, entitled>>,
         step = "menu" => u \in entitled
  PROVE  IInv'
<1> USE DEF poolVars
<1>1. HandlersOK BY Types DEF IInv
<1>2. at'[u] = step /\ \A v \in Updates \ {u} : at'[v] = at[v] BY <1>1 DEF HandlersOK
<1>3. HandlersOK'
  <2>1. at' \in [Updates -> {"off", "entered", "asked", "listing", "menu", "over"}]
    BY <1>1 DEF HandlersOK
  <2> QED BY <1>1, <2>1 DEF HandlersOK
<1>4. PoolInv' BY <1>2 DEF IInv, PoolInv
<1>5. MadeInv'
  <2>1. ASSUME NEW q \in Slots, Made(q) PROVE Made(q)' BY <1>2, <2>1 DEF Made, At, Slots
  <2> QED BY <2>1 DEF IInv, MadeInv, Stored, coreVars
<1>6. MenuInv' BY <1>2 DEF IInv, MenuInv
<1>7. SilenceMeansStored'
  BY <1>2 DEF IInv, SilenceMeansStored, What, Slot, At, coreVars
<1>8. ToldInv' BY CoreStays DEF IInv, ToldInv, coreVars
<1> QED BY <1>3, <1>4, <1>5, <1>6, <1>7, <1>8, BotStep

LEMMA ListsKeep ==
  ASSUME IInv, NEW u \in Updates, ListRead(u) \/ ListShow(u)
  PROVE  IInv'
<1>1. HandlersOK /\ TablesOK BY Types DEF IInv
<1>2. {"no_list", "sessions", "no_sessions", "current", "no_current"} \subseteq
        Notices \ {"connected", "switched", "menu", "operator_list", "none"}
  BY DEF Notices
<1>3. CASE ListRead(u)
  <2>1. CASE Tell(u, "no_list")
    <3>1. PICK notice : notice = "no_list" OBVIOUS
    <3> QED BY <1>2, <1>3, <2>1, <3>1, TellsAside DEF ListRead
  <2>2. CASE /\ at' = [at EXCEPT ![u] = "listing"]
             /\ listed' = [listed EXCEPT ![u] = active[From(u)]]
             /\ UNCHANGED <<poolVars, said, told>>
    <3>1. From(u) \in Users BY <1>1, ContentTypes
    <3>2. listed' \in [Updates -> Sessions \cup {None}]
      BY <1>1, <2>2, <3>1 DEF HandlersOK, TablesOK
    <3>3. PICK step \in {"listing", "menu"} : step = "listing" OBVIOUS
    <3> QED BY <1>3, <2>2, <3>2, <3>3, LooksUp DEF ListRead
  <2> QED BY <1>3, <2>1, <2>2 DEF ListRead
<1>4. CASE ListShow(u)
  <2>1. PICK notice \in {"no_list", "sessions", "no_sessions", "current", "no_current"} :
          Tell(u, notice)
    BY <1>4 DEF ListShow, CurrentNotice, SessionsNotice
  <2> QED BY <1>2, <1>4, <2>1, TellsAside DEF ListShow
<1> QED BY <1>3, <1>4

(* The menu is shown only after the operator was found active. *)
LEMMA MenusKeep ==
  ASSUME IInv, NEW u \in Updates, MenuCheck(u) \/ MenuShow(u)
  PROVE  IInv'
<1>1. HandlersOK BY Types DEF IInv
<1>2. {"restricted", "menu", "operator_list", "no_operator_list", "none"} \subseteq
        Notices \ {"connected", "switched"}
  BY DEF Notices
<1>3. CASE MenuCheck(u)
  <2>1. /\ phase[u] = "handling" /\ What(u) # "text" /\ At(u, "entered")
        /\ UNCHANGED <<coreVars, content, operator, by, alone, entitled>>
    BY <1>3 DEF MenuCheck, At
  <2>2. CASE Tell(u, "restricted")
    <3>1. PICK notice : notice = "restricted" OBVIOUS
    <3> QED BY <1>2, <2>1, <2>2, <3>1, TellsAside
  <2>3. CASE IsActiveOperator(operator) /\ Menu(u)
    <3>1. u \in entitled BY <2>1, <2>3 DEF IsActiveOperator, IInv, MenuInv
    <3>2. CASE Tell(u, "menu") \/ Tell(u, "none")
      <4>1. PICK notice \in {"menu", "none"} : Tell(u, notice) BY <3>2
      <4> QED BY <1>2, <2>1, <3>1, <4>1, TellsAside
    <3>3. CASE at' = [at EXCEPT ![u] = "menu"] /\ UNCHANGED <<poolVars, listed, said, told>>
      <4>1. PICK step \in {"listing", "menu"} : step = "menu" OBVIOUS
      <4>2. listed' \in [Updates -> Sessions \cup {None}] BY <1>1, <3>3 DEF HandlersOK
      <4> QED BY <2>1, <3>1, <3>3, <4>1, <4>2, LooksUp
    <3> QED BY <2>3, <3>2, <3>3 DEF Menu
  <2> QED BY <1>3, <2>2, <2>3 DEF MenuCheck
<1>4. CASE MenuShow(u)
  <2>1. PICK notice \in {"operator_list", "no_operator_list"} : Tell(u, notice)
    BY <1>4 DEF MenuShow
  <2>2. u \in entitled BY <1>4 DEF MenuShow, At, IInv, MenuInv
  <2>3. notice # "none" BY <2>1
  <2> QED BY <1>2, <1>4, <2>1, <2>2, <2>3, TellsAside DEF MenuShow
<1> QED BY <1>3, <1>4

-------------------------------------------------------------------------------
(* Updates arrive, are handed over, and arrive again after a crash *)

LEMMA EnterKeeps ==
  ASSUME IInv, NEW u \in Updates, Enter(u)
  PROVE  IInv'
<1>1. HandlersOK BY Types DEF IInv
<1>2. /\ phase[u] = "waiting" /\ phase' = [phase EXCEPT ![u] = "handling"]
      /\ at' = [at EXCEPT ![u] = "entered"] /\ said' = [said EXCEPT ![u] = "none"]
      /\ UNCHANGED <<sent, crashes, coreVars, content, operator, listed, by, alone, told>>
      /\ entitled' = IF operator = "active" THEN entitled \cup {u} ELSE entitled \ {u}
  BY DEF Enter, Pool!Start
<1>3. /\ phase'[u] = "handling" /\ at'[u] = "entered" /\ said'[u] = "none"
      /\ \A v \in Updates \ {u} : phase'[v] = phase[v] /\ at'[v] = at[v] /\ said'[v] = said[v]
  BY <1>1, <1>2 DEF HandlersOK
<1>4. HandlersOK'
  <2>1. phase' \in [Updates -> Pool!Phases] BY <1>1, <1>2 DEF HandlersOK, Pool!Phases
  <2>2. /\ at' \in [Updates -> {"off", "entered", "asked", "listing", "menu", "over"}]
        /\ said' \in [Updates -> Notices]
    BY <1>1, <1>2 DEF HandlersOK, Notices
  <2> QED BY <1>1, <1>2, <2>1, <2>2 DEF HandlersOK
<1>5. PoolInv' BY <1>2, <1>3 DEF IInv, PoolInv
<1>6. MadeInv'
  <2>1. ASSUME NEW q \in Slots, Made(q) PROVE Made(q)'
    BY <1>2, <1>3, <2>1 DEF Made, At, Slots
  <2> QED BY <1>2, <2>1 DEF IInv, MadeInv, Stored, coreVars
<1>7. MenuInv' BY <1>2, <1>3 DEF IInv, MenuInv
<1>8. SilenceMeansStored'
  BY <1>2, <1>3 DEF IInv, SilenceMeansStored, What, Slot, coreVars
<1>9. ToldInv' BY <1>2, CoreStays DEF IInv, ToldInv, coreVars
<1> QED BY <1>2, <1>4, <1>5, <1>6, <1>7, <1>8, <1>9, BotStep

LEMMA ArriveKeeps ==
  ASSUME IInv, Arrive
  PROVE  IInv'
<1>1. HandlersOK BY Types DEF IInv
<1>2. UNCHANGED <<coreVars, content, operator, at, listed, said, by, alone, told, entitled,
                  crashes>>
  BY DEF Arrive, handlerVars, historyVars, Pool!Send, Pool!Confirm
<1>3. CASE Pool!Send
  <2>1. PICK v : v = sent + 1 OBVIOUS
  <2>2. v \in Updates /\ sent' = v BY <1>3, <2>1, BotAssumption DEF Pool!Send, Updates, IInv, PoolInv
  <2>3. phase[v] = "unsent" BY <2>1, <2>2 DEF IInv, PoolInv, Updates
  <2>4. phase' = [phase EXCEPT ![v] = "waiting"] BY <1>3, <2>1 DEF Pool!Send
  <2>5. phase'[v] = "waiting" /\ \A w \in Updates \ {v} : phase'[w] = phase[w]
    BY <1>1, <2>2, <2>4 DEF HandlersOK
  <2>6. phase' \in [Updates -> Pool!Phases] BY <1>1, <2>4 DEF HandlersOK, Pool!Phases
  <2>7. HandlersOK' BY <1>1, <1>2, <2>6 DEF HandlersOK
  <2>8. PoolInv'
    <3>1. sent' \in Nat BY <2>1, <2>2 DEF IInv, PoolInv
    <3>2. \A w \in Updates : w > sent' => w # v /\ w > sent
      BY <2>1, <2>2 DEF Updates, IInv, PoolInv
    <3> QED BY <1>2, <2>5, <3>1, <3>2 DEF IInv, PoolInv
  <2>9. MadeInv'
    <3>1. ASSUME NEW q \in Slots, Made(q) PROVE Made(q)'
      BY <1>2, <2>3, <2>5, <3>1 DEF Made, At, Slots
    <3> QED BY <1>2, <3>1 DEF IInv, MadeInv, Stored, coreVars
  <2>10. MenuInv' BY <1>2, <2>5 DEF IInv, MenuInv
  <2>11. SilenceMeansStored'
    BY <1>2, <2>5 DEF IInv, SilenceMeansStored, What, Slot, coreVars
  <2>12. ToldInv' BY <1>2, CoreStays DEF IInv, ToldInv, coreVars
  <2> QED BY <1>2, <2>7, <2>8, <2>9, <2>10, <2>11, <2>12, BotStep
<1>4. CASE Pool!Confirm
  <2>1. UNCHANGED <<sent, phase>> BY <1>4 DEF Pool!Confirm
  <2>2. HandlersOK' BY <1>1, <1>2, <2>1 DEF HandlersOK
  <2>3. PoolInv' BY <1>2, <2>1 DEF IInv, PoolInv
  <2>4. MadeInv' BY <1>2, <2>1 DEF IInv, MadeInv, Made, At, Stored, coreVars
  <2>5. MenuInv' BY <1>2, <2>1 DEF IInv, MenuInv
  <2>6. SilenceMeansStored' BY <1>2, <2>1 DEF IInv, SilenceMeansStored, What, Slot, coreVars
  <2>7. ToldInv' BY <1>2, CoreStays DEF IInv, ToldInv, coreVars
  <2> QED BY <1>2, <2>2, <2>3, <2>4, <2>5, <2>6, <2>7, BotStep
<1> QED BY <1>3, <1>4 DEF Arrive

(* The requests of the process that died count as made, so that what is
   handled again makes new ones. *)
LEMMA CrashKeeps ==
  ASSUME IInv, Crash
  PROVE  IInv'
<1>1. HandlersOK BY Types DEF IInv
<1>2. /\ crashes < MaxCrashes /\ crashes' = crashes + 1 /\ sent' = sent
      /\ at' = [v \in Updates |-> "off"] /\ listed' = [v \in Updates |-> None]
      /\ said' = [v \in Updates |-> "none"]
      /\ phase' = [v \in Updates |-> IF v > sent THEN "unsent"
                                     ELSE IF v > confirmed THEN "waiting"
                                     ELSE IF v \in handled THEN "over" ELSE "lost"]
      /\ UNCHANGED <<coreVars, content, operator, by, alone, told, entitled>>
  BY DEF Crash, Pool!Die, historyVars, Updates, Pool!Updates
<1>3. HandlersOK'
  <2>1. phase' \in [Updates -> Pool!Phases] BY <1>2 DEF Pool!Phases
  <2>2. "none" \in Notices BY DEF Notices
  <2> QED BY <1>1, <1>2, <2>1, <2>2 DEF HandlersOK
<1>4. crashes \in Nat /\ crashes' \in 0..MaxCrashes
  BY <1>2, BotAssumption DEF IInv, PoolInv
<1>5. PoolInv' BY <1>2, <1>4 DEF IInv, PoolInv
<1>6. MadeInv'
  <2>1. ASSUME NEW q \in Slots, Made(q) PROVE Made(q)'
    <3>1. q[2] \in Nat BY BotAssumption DEF Slots
    <3>2. q[2] <= crashes BY <1>4, <2>1, <3>1 DEF Made
    <3> QED BY <1>2, <1>4, <3>1, <3>2 DEF Made
  <2> QED BY <1>2, <2>1 DEF IInv, MadeInv, Stored, coreVars
<1>7. MenuInv' BY <1>2 DEF MenuInv
<1>8. SilenceMeansStored' BY <1>2 DEF SilenceMeansStored
<1>9. ToldInv' BY <1>2, CoreStays DEF IInv, ToldInv, coreVars
<1> QED BY <1>2, <1>3, <1>5, <1>6, <1>7, <1>8, <1>9, BotStep

LEMMA OperatorChangesKeeps ==
  ASSUME IInv, OperatorChanges
  PROVE  IInv'
<1> USE DEF poolVars, handlerVars
<1>1. HandlersOK BY Types DEF IInv
<1>2. /\ UNCHANGED <<poolVars, coreVars, content, handlerVars, by, alone, told>>
      /\ operator' \in {"active", "suspended", "disabled"}
      /\ entitled' = IF operator' = "active" THEN entitled \cup Pool!In("handling") ELSE entitled
  BY DEF OperatorChanges
<1>3. Pool!In("handling") = {u \in Updates : phase[u] = "handling"}
  BY DEF Pool!In, Pool!Updates, Updates
<1>4. HandlersOK' BY <1>1, <1>2, <1>3 DEF HandlersOK
<1>5. PoolInv' BY <1>2 DEF IInv, PoolInv
<1>6. MadeInv' BY <1>2 DEF IInv, MadeInv, Made, At, Stored, coreVars
<1>7. MenuInv' BY <1>2, <1>3 DEF IInv, MenuInv
<1>8. SilenceMeansStored' BY <1>2 DEF IInv, SilenceMeansStored, What, Slot, coreVars
<1>9. ToldInv' BY <1>2, CoreStays DEF IInv, ToldInv, coreVars
<1> QED BY <1>2, <1>4, <1>5, <1>6, <1>7, <1>8, <1>9, BotStep

LEMMA StutterKeeps ==
  ASSUME IInv, UNCHANGED vars
  PROVE  IInv'
<1> USE DEF vars, poolVars, handlerVars, historyVars
<1>1. HandlersOK BY Types DEF IInv
<1>2. HandlersOK' BY <1>1 DEF HandlersOK
<1>3. PoolInv' BY DEF IInv, PoolInv
<1>4. MadeInv' BY DEF IInv, MadeInv, Made, At, Stored, coreVars
<1>5. MenuInv' BY DEF IInv, MenuInv
<1>6. SilenceMeansStored' BY DEF IInv, SilenceMeansStored, What, Slot, coreVars
<1>7. ToldInv' BY CoreStays DEF IInv, ToldInv, coreVars
<1> QED BY <1>2, <1>3, <1>4, <1>5, <1>6, <1>7, BotStep

-------------------------------------------------------------------------------
(* The theorems *)

LEMMA InitIInv == Init => IInv
<1> SUFFICES ASSUME Init PROVE IInv
  OBVIOUS
<1>1. /\ crashes = 0 /\ sent = 0 /\ phase = [u \in Updates |-> "unsent"]
  BY DEF Init, Pool!Init, Pool!Updates, Updates
<1>2. /\ Clients \in [Sessions -> Users \cup {None}] /\ Executors \in [Sessions -> Users \cup {None}]
      /\ Current \in [Users -> Sessions \cup {None}]
      /\ MaxUpdates \in Nat /\ MaxCrashes \in Nat /\ PauseThreshold \in Nat \ {0}
  BY BotAssumption
<1>3. \A s \in Sessions : Sides(s) \subseteq Users BY <1>2 DEF Sides
<1>4. TablesOK
  <2>1. registered \subseteq Users /\ linked \subseteq Users \X Sessions
    BY <1>3 DEF Init
  <2>2. /\ active \in [Users -> Sessions \cup {None}]
        /\ rowLock \in [Users -> Slots \cup {None}]
        /\ client \in [Sessions -> Users \cup {None}]
        /\ executor \in [Sessions -> Users \cup {None}]
        /\ closedAt \in [Sessions -> BOOLEAN]
        /\ closeRequestedBy \in [Sessions -> Users \cup {None}]
    BY <1>2 DEF Init
  <2>3. status \in [Sessions -> Core!Statuses] BY DEF Init, Core!Statuses
  <2>4. messages \in Seq(Core!Message) BY DEF Init
  <2>5. violations \in [Users -> 0..PauseThreshold] BY <1>2 DEF Init
  <2>6. started \in 0..(MaxUpdates * (MaxCrashes + 1))
    <3>1. PICK max : max = MaxUpdates * (MaxCrashes + 1) OBVIOUS
    <3>2. max \in Nat BY <1>2, <3>1
    <3>3. started \in 0..max BY <3>2 DEF Init
    <3> QED BY <3>1, <3>3
  <2>7. paired \subseteq Sessions \X Users \X Users
    <3>1. \A s \in Sessions : None \notin {Clients[s], Executors[s]} =>
            <<s, Clients[s], Executors[s]>> \in Sessions \X Users \X Users
      BY <1>2
    <3> QED BY <3>1 DEF Init
  <2>8. /\ audit \subseteq Core!AuditEntry /\ inbox \subseteq Core!Delivery
        /\ open \in [Slots -> SUBSET Sessions]
    BY DEF Init
  <2> QED BY <2>1, <2>2, <2>3, <2>4, <2>5, <2>6, <2>7, <2>8 DEF TablesOK
<1>5. JobsOK
  <2>1. "idle" \in Core!Steps BY DEF Core!Steps
  <2> QED BY <2>1, NoJobType DEF Init, JobsOK
<1>6. HandlersOK
  <2>1. "none" \in Notices /\ "unsent" \in Pool!Phases BY DEF Notices, Pool!Phases
  <2> QED BY <1>1, <2>1 DEF Init, HandlersOK
<1>7. by = <<>> /\ messages = <<>> /\ by \in Seq(Slots) /\ Len(by) = Len(messages)
  BY DEF Init
<1>8. TypeOK BY <1>4, <1>5, <1>6, <1>7, Types
<1>9. PoolInv BY <1>1, <1>2 DEF Init, PoolInv
<1>10. \A h \in Slots : JobInv(h) BY DEF Init, JobInv
<1>11. \A h : ~Stored(h)
  <2>1. DOMAIN by = {} BY <1>7
  <2> QED BY <2>1 DEF Stored
<1>12. MadeInv BY <1>11 DEF Init, MadeInv
<1>13. AloneInv BY DEF Init, AloneInv
<1>14. ToldInv BY DEF Init, ToldInv
<1>15. MenuInv BY <1>1 DEF Init, MenuInv
<1>16. StoredOncePerProcess
  <2>1. DOMAIN by = {} BY <1>7
  <2> QED BY <2>1 DEF StoredOncePerProcess
<1>17. SilenceMeansStored BY <1>1 DEF SilenceMeansStored
<1> QED BY <1>8, <1>9, <1>10, <1>12, <1>13, <1>14, <1>15, <1>16, <1>17 DEF IInv

LEMMA HandlerKeeps ==
  ASSUME IInv, NEW u \in Updates, Handler(u)
  PROVE  IInv'
BY AloneAnswersKeep, AskKeeps, AnsweredKeeps, GiveUpKeeps, ListsKeep, MenusKeep DEF Handler

LEMMA NextIInv == IInv /\ [Next]_vars => IInv'
<1> SUFFICES ASSUME IInv, [Next]_vars PROVE IInv'
  OBVIOUS
<1>1. CASE Arrive BY <1>1, ArriveKeeps
<1>2. CASE Crash BY <1>2, CrashKeeps
<1>3. CASE OperatorChanges BY <1>3, OperatorChangesKeeps
<1>4. CASE Rest \/ UNCHANGED vars BY <1>4, StutterKeeps DEF Rest
<1>5. ASSUME NEW u \in Updates, Enter(u) \/ Handler(u) PROVE IInv'
  BY <1>5, EnterKeeps, HandlerKeeps
<1>6. ASSUME NEW h \in Slots, BackendStep(h) \/ Cancel(h) PROVE IInv'
  BY <1>6, BackendKeeps, CancelKeeps
<1> QED BY <1>1, <1>2, <1>3, <1>4, <1>5, <1>6 DEF Next

(* The inductive invariant: every request is what its update asked for, and
   its answer means what the sender will be told; it is made once by each
   process, and nobody else moves its user while it counts as alone. *)
THEOREM Inductive == Spec => []IInv
<1>1. Init => IInv BY InitIInv
<1>2. IInv /\ [Next]_vars => IInv' BY NextIInv
<1> QED BY <1>1, <1>2, PTL DEF Spec

(* Every variable of the bot and of the backend behind it keeps its type,
   whatever the updates ask for and wherever the process dies. *)
THEOREM BotTypeOK == Spec => []TypeOK
<1>1. IInv => TypeOK BY DEF IInv
<1> QED BY <1>1, Inductive, PTL

(* Where the changes of one person did not overlap, the notice of
   HandleSwitchCallback or handleWithPayload is true, and stays true until he
   asks for another change: texts, stops, other people's updates and deaths of
   the process do not move him, and no request of his that might is under way.
   Of changes that overlapped, with a late or repeated request among them or
   not, it says nothing (alone). *)
THEOREM BotToldIsActive ==
  Spec => [](ToldIsActive /\ \A w \in Users : told[w] # None => Moving(w) = {})
<1>1. IInv => ToldIsActive /\ \A w \in Users : told[w] # None => Moving(w) = {}
  BY DEF IInv, ToldInv, ToldIsActive
<1> QED BY <1>1, Inductive, PTL

(* No process of the bot stores a text twice: HandleText calls the backend
   once, and gives up without asking again. *)
THEOREM BotStoredOncePerProcess == Spec => []StoredOncePerProcess
<1>1. IInv => StoredOncePerProcess BY DEF IInv
<1> QED BY <1>1, Inductive, PTL

(* A sender whom HandleText told nothing has a text that is stored for the
   other side. *)
THEOREM BotSilenceMeansStored == Spec => []SilenceMeansStored
<1>1. IInv => SilenceMeansStored BY DEF IInv
<1> QED BY <1>1, Inductive, PTL

(* The operators' menu is shown only to somebody who was an active operator
   at some moment while HandleMenuCallback or the command was handled. *)
THEOREM BotMenuOnlyForActive == Spec => []MenuOnlyForActive
<1>1. IInv => MenuOnlyForActive BY DEF IInv, MenuInv, MenuOnlyForActive
<1> QED BY <1>1, Inductive, PTL
=================================================================================
