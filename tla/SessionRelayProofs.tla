--------------------------- MODULE SessionRelayProofs ---------------------------
(***************************************************************************)
(* Proofs about SessionRelay, for any number of users, operators, sessions *)
(* and concurrent requests.  IInv is inductive: InitIInv, one lemma per    *)
(* group of steps, and NextIInv that puts them together.                   *)
(***************************************************************************)
EXTENDS SessionRelayInv, TLAPS

USE ConstantsAssumption

-----------------------------------------------------------------------------
(* A step of request p leaves the other requests where they are, and what  *)
(* they rely on in the tables only grows.                                  *)

Frame(p) ==
  /\ \A q \in Handlers \ {p} : /\ pc'[q] = pc[q]
                               /\ job'[q] = job[q]
                               /\ open[q] \subseteq open'[q]
  /\ linked \subseteq linked'
  /\ paired \subseteq paired'
  /\ messages' = messages \/ \E m \in Message : messages' = Append(messages, m)

\* Appending to the log leaves its entries alone.
LEMMA LogGrows ==
  ASSUME messages \in Seq(Message),
         messages' = messages \/ \E m \in Message : messages' = Append(messages, m)
  PROVE  \A i \in DOMAIN messages : i \in DOMAIN messages'
                                    /\ messages'[i] = messages[i]
  <1>1. CASE messages' = messages
    BY <1>1
  <1>2. CASE \E m \in Message : messages' = Append(messages, m)
    <2>1. PICK m \in Message : messages' = Append(messages, m)
      BY <1>2
    <2>2. QED
      BY <2>1
  <1>3. QED
    BY <1>1, <1>2

\* What another request knows stays true.
LEMMA OthersKeep ==
  ASSUME TypeOK,
         NEW p \in Handlers, Frame(p),
         NEW q \in Handlers \ {p}, JobInv(q)
  PROVE  JobInv(q)'
  <1>1. \A i \in DOMAIN messages : i \in DOMAIN messages'
                                   /\ messages'[i] = messages[i]
    BY LogGrows DEF Frame, TypeOK
  <1>2. /\ pc'[q] = pc[q]
        /\ job'[q] = job[q]
        /\ open[q] \subseteq open'[q]
        /\ linked \subseteq linked'
        /\ paired \subseteq paired'
    BY DEF Frame
  <1>3. BindJob(job[q], pc[q])' /\ SwitchJob(job[q], pc[q])'
        /\ StopJob(job[q], pc[q])' /\ OperatorJob(job[q], pc[q])'
    BY <1>2 DEF JobInv, BindJob, SwitchJob, StopJob, OperatorJob
  <1>4. RelayJob(job[q], pc[q])'
    BY <1>2 DEF JobInv, RelayJob, Facing
  <1>5. ReplyJob(job[q], pc[q])'
    BY <1>1, <1>2 DEF JobInv, ReplyJob
  <1>6. ActiveJob(job[q], pc[q], open[q])'
    BY <1>2 DEF JobInv, ActiveJob
  <1>7. QED
    BY <1>2, <1>3, <1>4, <1>5, <1>6 DEF JobInv

\* A step that touches no row IInv speaks about only has to keep the types and
\* what its own request knows.
LEMMA LocalStep ==
  ASSUME IInv,
         NEW p \in Handlers, Frame(p),
         UNCHANGED <<active, client, executor, closeRequestedBy, messages,
                     linked, paired, inbox>>,
         TypeOK', OpenInv', JobInv(p)'
  PROVE  IInv'
  <1>1. LinkedInv' /\ PairedInv'
    BY DEF IInv, LinkedInv, PairedInv
  <1>2. MessagesInv'
    BY DEF IInv, MessagesInv, Facing
  <1>3. DeliveredToCounterpart'
    BY DEF IInv, DeliveredToCounterpart
  <1>4. \A q \in Handlers : JobInv(q)'
    BY OthersKeep DEF IInv
  <1>5. QED
    BY <1>1, <1>2, <1>3, <1>4 DEF IInv

-----------------------------------------------------------------------------
LEMMA InitIInv == Init => IInv
  <1> SUFFICES ASSUME Init PROVE IInv
    OBVIOUS
  <1>1. TypeOK
    BY DEF Init, TypeOK, NoJob, Job, Steps, Results, Statuses, PatchStatuses, Operations
  <1>2. LinkedInv /\ PairedInv /\ OpenInv /\ DeliveredToCounterpart
    BY DEF Init, LinkedInv, PairedInv, OpenInv, DeliveredToCounterpart
  <1>3. MessagesInv
    BY DEF Init, MessagesInv
  <1>4. ASSUME NEW p \in Handlers PROVE JobInv(p)
    BY DEF Init, JobInv, NoJob, BindJob, RelayJob, SwitchJob, StopJob,
           OperatorJob, ReplyJob, ActiveJob, BindSteps, RelayChecked,
           StopSteps, SendSteps
  <1>5. QED
    BY <1>1, <1>2, <1>3, <1>4 DEF IInv

-----------------------------------------------------------------------------
(* Requests arrive *)

LEMMA NoJobType == NoJob \in Job
  BY DEF NoJob, Job, Results, PatchStatuses, Operations

\* What the seven kinds of arrival have in common: one handler is given a job.
LEMMA ArrivalOf ==
  ASSUME IInv,
         NEW p \in Handlers, NEW o, Begin(p, o),
         NEW step \in Steps, Goto(p, step),
         NEW j \in Job, job' = [job EXCEPT ![p] = j],
         UNCHANGED <<userRows, sessionRows, messages, violations, audit,
                     linked, paired, inbox>>,
         JobInv(p)'
  PROVE  IInv'
  <1> USE DEF userRows, sessionRows
  <1>1. /\ pc' \in [Handlers -> Steps]
        /\ job' \in [Handlers -> Job]
        /\ open' \in [Handlers -> SUBSET Sessions]
    BY DEF IInv, TypeOK, Begin, Goto
  <1>2. started' \in 0 .. MaxRequests
    BY DEF IInv, TypeOK, Begin
  <1>3. TypeOK'
    BY <1>1, <1>2 DEF IInv, TypeOK
  <1>4. Frame(p)
    BY DEF IInv, TypeOK, Begin, Goto, Frame
  <1>5. OpenInv'
    BY DEF IInv, TypeOK, Begin, Goto, OpenInv
  <1>6. QED
    BY <1>3, <1>4, <1>5, LocalStep

LEMMA ArrivalStep ==
  ASSUME IInv, NEW p \in Handlers, Arrival(p)
  PROVE  IInv'
  <1>0. /\ active \in [Users -> Sessions \cup {None}]
        /\ client \in [Sessions -> Users \cup {None}]
        /\ executor \in [Sessions -> Users \cup {None}]
        /\ Len(messages) \in Nat
    BY DEF IInv, TypeOK
  <1>1. ASSUME NEW u \in Users, NEW s \in Sessions, NEW r \in Roles,
               BindRead(p, u, s, r)
        PROVE  IInv'
    <2> DEFINE j == [NoJob EXCEPT !.op = "bind", !.who = u, !.session = s,
                                 !.role = r, !.client = client[s],
                                 !.executor = executor[s],
                                 !.base = Len(messages)]
               step == "bind_user"
    <2>1. j \in Job
      BY <1>0, NoJobType DEF Job, Results, Operations
    <2>2. step \in Steps
      BY DEF Steps
    <2>3. JobInv(p)'
      BY <1>1 DEF IInv, TypeOK, Begin, Goto, BindRead, NoJob,
                  JobInv, BindJob, RelayJob, SwitchJob,
                  StopJob, OperatorJob, ReplyJob, ActiveJob, BindSteps,
                  RelayChecked, StopSteps, SendSteps
    <2>4. QED
      BY <1>1, <2>1, <2>2, <2>3, ArrivalOf DEF BindRead, Begin, Goto
  <1>2. ASSUME NEW u \in Users,
               RelayReadSender(p, u)
        PROVE  IInv'
    <2> DEFINE result == IF u \notin registered
                         THEN "not_found"
                         ELSE IF active[u] = None
                         THEN "no_active_session"
                         ELSE "none"
               j == [NoJob EXCEPT !.op = "relay", !.who = u,
                                 !.session = active[u],
                                 !.result = result]
               step == IF active[u] = None THEN "reply" ELSE "relay_session"
    <2>1. j \in Job
      <3>1. result \in Results
        BY DEF Results
      <3> HIDE DEF result
      <3>2. QED
        BY <1>0, <3>1, NoJobType DEF Job, Operations
    <2>2. step \in Steps
      BY DEF Steps
    <2>3. JobInv(p)'
      BY <1>2 DEF IInv, TypeOK, Begin, Goto, RelayReadSender, NoJob,
                  JobInv, BindJob, RelayJob, SwitchJob,
                  StopJob, OperatorJob, ReplyJob, ActiveJob, BindSteps,
                  RelayChecked, StopSteps, SendSteps
    <2>4. QED
      BY <1>2, <2>1, <2>2, <2>3, ArrivalOf DEF RelayReadSender, Begin, Goto
  <1>3. ASSUME NEW u \in Users, NEW s \in Sessions,
               SwitchRead(p, u, s)
        PROVE  IInv'
    <2> DEFINE result == IF u \in registered THEN "none"
                         ELSE "not_found"
               j == [NoJob EXCEPT !.op = "switch", !.who = u, !.session = s,
                                 !.result = result]
               step == IF u \in registered THEN "switch_check" ELSE "reply"
    <2>1. j \in Job
      <3>1. result \in Results
        BY DEF Results
      <3> HIDE DEF result
      <3>2. QED
        BY <1>0, <3>1, NoJobType DEF Job, Operations
    <2>2. step \in Steps
      BY DEF Steps
    <2>3. JobInv(p)'
      BY <1>3 DEF IInv, TypeOK, Begin, Goto, SwitchRead, NoJob,
                  JobInv, BindJob, RelayJob, SwitchJob,
                  StopJob, OperatorJob, ReplyJob, ActiveJob, BindSteps,
                  RelayChecked, StopSteps, SendSteps
    <2>4. QED
      BY <1>3, <2>1, <2>2, <2>3, ArrivalOf DEF SwitchRead, Begin, Goto
  <1>4. ASSUME NEW u \in Users,
               LangRead(p, u)
        PROVE  IInv'
    <2> DEFINE result == IF u \in registered THEN "none"
                         ELSE "not_found"
               j == [NoJob EXCEPT !.op = "lang", !.who = u,
                                 !.session = active[u],
                                 !.result = result]
               step == IF u \in registered THEN "lang_write" ELSE "reply"
    <2>1. j \in Job
      <3>1. result \in Results
        BY DEF Results
      <3> HIDE DEF result
      <3>2. QED
        BY <1>0, <3>1, NoJobType DEF Job, Operations
    <2>2. step \in Steps
      BY DEF Steps
    <2>3. JobInv(p)'
      BY <1>4 DEF IInv, TypeOK, Begin, Goto, LangRead, NoJob,
                  LinkedInv, JobInv, BindJob, RelayJob, SwitchJob,
                  StopJob, OperatorJob, ReplyJob, ActiveJob, BindSteps,
                  RelayChecked, StopSteps, SendSteps, userRows
    <2>4. QED
      BY <1>4, <2>1, <2>2, <2>3, ArrivalOf DEF LangRead, Begin, Goto
  <1>5. ASSUME NEW u \in Users,
               StopRead(p, u)
        PROVE  IInv'
    <2> DEFINE result == IF u \notin registered
                         THEN "not_found"
                         ELSE IF active[u] = None
                         THEN "refused"
                         ELSE "none"
               j == [NoJob EXCEPT !.op = "stop", !.who = u,
                                 !.session = active[u],
                                 !.result = result]
               step == IF active[u] = None THEN "reply" ELSE "stop_session"
    <2>1. j \in Job
      <3>1. result \in Results
        BY DEF Results
      <3> HIDE DEF result
      <3>2. QED
        BY <1>0, <3>1, NoJobType DEF Job, Operations
    <2>2. step \in Steps
      BY DEF Steps
    <2>3. JobInv(p)'
      BY <1>5 DEF IInv, TypeOK, Begin, Goto, StopRead, NoJob,
                  LinkedInv, JobInv, BindJob, RelayJob, SwitchJob,
                  StopJob, OperatorJob, ReplyJob, ActiveJob, BindSteps,
                  RelayChecked, StopSteps, SendSteps, userRows
    <2>4. QED
      BY <1>5, <2>1, <2>2, <2>3, ArrivalOf DEF StopRead, Begin, Goto
  <1>6. ASSUME NEW o \in Operators, NEW s \in Sessions,
               NEW st \in PatchStatuses,
               PatchRead(p, o, s, st)
        PROVE  IInv'
    <2> DEFINE result == IF <<o, s>> \in Access THEN "none"
                         ELSE "refused"
               j == [NoJob EXCEPT !.op = "patch", !.who = o, !.session = s,
                                 !.status = st,
                                 !.result = result]
               step == IF <<o, s>> \in Access THEN "patch_write" ELSE "reply"
    <2>1. j \in Job
      <3>1. result \in Results
        BY DEF Results
      <3> HIDE DEF result
      <3>2. QED
        BY <1>0, <3>1, NoJobType DEF Job, Operations
    <2>2. step \in Steps
      BY DEF Steps
    <2>3. JobInv(p)'
      BY <1>6 DEF IInv, TypeOK, Begin, Goto, PatchRead, NoJob,
                  JobInv, BindJob, RelayJob, SwitchJob,
                  StopJob, OperatorJob, ReplyJob, ActiveJob, BindSteps,
                  RelayChecked, StopSteps, SendSteps
    <2>4. QED
      BY <1>6, <2>1, <2>2, <2>3, ArrivalOf DEF PatchRead, Begin, Goto
  <1>7. ASSUME NEW o \in Operators, NEW s \in Sessions, NEW r \in Roles,
               SendAsRead(p, o, s, r)
        PROVE  IInv'
    <2> DEFINE result == IF /\ <<o, s>> \in Access
                         /\ status[s] = "active"
                         THEN "none" ELSE "refused"
               j == [NoJob EXCEPT !.op = "sendas", !.who = o, !.session = s,
                                 !.role = r,
                                 !.to = Counterpart(r, client[s], executor[s]),
                                 !.result = result]
               step == IF <<o, s>> \in Access /\ status[s] = "active"
                      THEN "send_check" ELSE "reply"
    <2>1. j \in Job
      <3>1. result \in Results
        BY DEF Results
      <3>2. Counterpart(r, client[s], executor[s]) \in Users \cup {None}
        BY <1>0 DEF Counterpart
      <3> HIDE DEF result
      <3>3. QED
        BY <3>1, <3>2, NoJobType DEF Job, Operations
    <2>2. step \in Steps
      BY DEF Steps
    <2>3. JobInv(p)'
      BY <1>7 DEF IInv, TypeOK, Begin, Goto, SendAsRead, NoJob,
                  JobInv, BindJob, RelayJob, SwitchJob,
                  StopJob, OperatorJob, ReplyJob, ActiveJob, BindSteps,
                  RelayChecked, StopSteps, SendSteps
    <2>4. QED
      BY <1>7, <2>1, <2>2, <2>3, ArrivalOf DEF SendAsRead, Begin, Goto
  <1>8. QED
    BY <1>1, <1>2, <1>3, <1>4, <1>5, <1>6, <1>7 DEF Arrival

-----------------------------------------------------------------------------
(* Requests progress *)

\* What the handlers know at a step, for the proofs of JobInv(p)'.
LEMMA TypesOf ==
  ASSUME IInv
  PROVE  /\ active \in [Users -> Sessions \cup {None}]
         /\ rowLock \in [Users -> Handlers \cup {None}]
         /\ client \in [Sessions -> Users \cup {None}]
         /\ executor \in [Sessions -> Users \cup {None}]
         /\ status \in [Sessions -> Statuses]
         /\ closedAt \in [Sessions -> BOOLEAN]
         /\ violations \in [Keys -> 0 .. PauseThreshold]
         /\ audit \subseteq AuditEntry
         /\ pc \in [Handlers -> Steps]
         /\ job \in [Handlers -> Job]
         /\ messages \in Seq(Message)
         /\ open \in [Handlers -> SUBSET Sessions]
  BY DEF IInv, TypeOK

LEMMA ResultType ==
  ASSUME NEW j \in Job, NEW r \in Results
  PROVE  [j EXCEPT !.result = r] \in Job
  BY DEF Job

\* UpdateStatus keeps the types and takes no session out of open.
LEMMA UpdateStatusStep ==
  ASSUME IInv, NEW s \in Sessions, NEW st \in Statuses, UpdateStatus(s, st),
         NEW p \in Handlers, pc[p] # "idle", NEW step, Goto(p, step)
  PROVE  /\ OpenInv'
         /\ status' \in [Sessions -> Statuses]
         /\ closedAt' \in [Sessions -> BOOLEAN]
         /\ open' \in [Handlers -> SUBSET Sessions]
         /\ \A q \in Handlers : open[q] \subseteq open'[q]
  <1>1. status' \in [Sessions -> Statuses] /\ closedAt' \in [Sessions -> BOOLEAN]
    BY TypesOf DEF UpdateStatus
  <1>2. open' \in [Handlers -> SUBSET Sessions]
        /\ \A q \in Handlers : open[q] \subseteq open'[q]
    BY TypesOf DEF UpdateStatus
  <1>3. OpenInv'
    BY TypesOf DEF IInv, OpenInv, UpdateStatus, Goto
  <1>4. QED
    BY <1>1, <1>2, <1>3

LEMMA SameOpen ==
  ASSUME IInv, NEW p \in Handlers, pc[p] # "idle", NEW step, Goto(p, step),
         UNCHANGED <<status, open>>
  PROVE  OpenInv'
  BY TypesOf DEF IInv, OpenInv, Goto

\* A step that goes on with request p without touching a row IInv speaks of.
LEMMA StepOf ==
  ASSUME IInv,
         NEW p \in Handlers,
         NEW step \in Steps, Goto(p, step),
         NEW j \in Job, job' = [job EXCEPT ![p] = j],
         UNCHANGED <<active, client, executor, closeRequestedBy, messages,
                     linked, paired, inbox, started>>,
         registered' \subseteq Users,
         rowLock' \in [Users -> Handlers \cup {None}],
         status' \in [Sessions -> Statuses],
         closedAt' \in [Sessions -> BOOLEAN],
         violations' \in [Keys -> 0 .. PauseThreshold],
         audit' \subseteq AuditEntry,
         open' \in [Handlers -> SUBSET Sessions],
         \A q \in Handlers \ {p} : open[q] \subseteq open'[q],
         OpenInv', JobInv(p)'
  PROVE  IInv'
  <1>1. pc' \in [Handlers -> Steps] /\ job' \in [Handlers -> Job]
    BY TypesOf DEF Goto
  <1>2. TypeOK'
    BY <1>1 DEF IInv, TypeOK
  <1>3. Frame(p)
    BY TypesOf DEF Goto, Frame
  <1>4. QED
    BY <1>2, <1>3, LocalStep

\* The same, for steps that only read.
LEMMA ReadingStep ==
  ASSUME IInv,
         NEW p \in Handlers, pc[p] # "idle",
         NEW step \in Steps, Goto(p, step),
         NEW j \in Job, job' = [job EXCEPT ![p] = j],
         UNCHANGED <<userRows, sessionRows, messages, violations, audit,
                     started, history>>,
         JobInv(p)'
  PROVE  IInv'
  <1>1. registered' \subseteq Users
    BY DEF IInv, TypeOK, userRows
  <1>2. OpenInv'
    BY SameOpen DEF sessionRows, history
  <1>3. QED
    BY <1>1, <1>2, TypesOf, StepOf DEF userRows, sessionRows, history

LEMMA SameJob ==
  ASSUME IInv, NEW p \in Handlers, UNCHANGED job
  PROVE  job[p] \in Job /\ job' = [job EXCEPT ![p] = job[p]]
  BY TypesOf

\* An answer that makes the bot send nothing commits to nothing.
LEMMA Answered ==
  ASSUME IInv, NEW p \in Handlers, NEW r \in Results, Answer(p, r),
         r # "relayed", r = "ok" => job[p].op # "stop",
         open[p] \subseteq open'[p]
  PROVE  /\ "reply" \in Steps /\ Goto(p, "reply")
         /\ [job[p] EXCEPT !.result = r] \in Job
         /\ job' = [job EXCEPT ![p] = [job[p] EXCEPT !.result = r]]
         /\ JobInv(p)'
  <1> DEFINE j == [job[p] EXCEPT !.result = r]
  <1>1. "reply" \in Steps /\ Goto(p, "reply")
    BY DEF Answer, Steps
  <1>2. j \in Job
    BY TypesOf, ResultType
  <1>3. job' = [job EXCEPT ![p] = j]
    BY TypesOf DEF Answer
  <1>4. /\ pc'[p] = "reply"
        /\ job'[p] = j
    BY <1>1, <1>3, TypesOf DEF Goto
  <1>5. /\ j.handed = job[p].handed
        /\ j.op = job[p].op
        /\ j.session = job[p].session
        /\ j.message = job[p].message
        /\ j.result = r
    BY TypesOf DEF Job
  <1>6. job[p].handed = {} /\ (job[p].message > 0 => job[p].session \in open[p])
    BY DEF IInv, JobInv, ActiveJob
  <1> HIDE DEF j
  <1>7. ActiveJob(j, "reply", open'[p])
    BY <1>5, <1>6 DEF ActiveJob, RelayChecked, SendSteps
  <1>8. /\ BindJob(j, "reply")' /\ RelayJob(j, "reply")'
        /\ SwitchJob(j, "reply")' /\ StopJob(j, "reply")'
        /\ OperatorJob(j, "reply")'
    BY DEF BindJob, RelayJob, SwitchJob, StopJob, OperatorJob, BindSteps,
           RelayChecked, StopSteps, SendSteps
  <1>9. JobInv(p)'
    BY <1>4, <1>5, <1>6, <1>7, <1>8
    DEF JobInv, ReplyJob, BindJob, RelayJob, SwitchJob, StopJob, OperatorJob,
        ActiveJob, BindSteps, RelayChecked, StopSteps, SendSteps
  <1>10. QED
    BY <1>1, <1>2, <1>3, <1>9 DEF j

LEMMA BindReadingStep ==
  ASSUME IInv, NEW p \in Handlers, BindUser(p) \/ BindCreate(p)
  PROVE  IInv'
  <1>1. ASSUME BindUser(p) PROVE IInv'
    <2> DEFINE step == IF job[p].who \in registered THEN "bind_active"
                       ELSE "bind_create"
    <2>1. step \in Steps /\ Goto(p, step)
      BY <1>1 DEF BindUser, Steps
    <2>2. JobInv(p)'
      BY <1>1, TypesOf DEF IInv, JobInv, BindUser, At, Goto, history, BindJob,
             RelayJob, SwitchJob, StopJob, OperatorJob, ReplyJob, ActiveJob,
             BindSteps, RelayChecked, StopSteps, SendSteps
    <2>3. QED
      BY <1>1, <2>1, <2>2, SameJob, ReadingStep DEF BindUser, At
  <1>2. ASSUME BindCreate(p) PROVE IInv'
    <2>1. CASE job[p].who \in registered
      <3>1. "error" \in Results /\ Answer(p, "error") /\ open' = open
        BY <1>2, <2>1 DEF BindCreate, Results, history
      <3>2. QED
        BY <1>2, <2>1, <3>1, Answered, ReadingStep DEF BindCreate, At, userRows
    <2>2. CASE job[p].who \notin registered
      <3>1. job[p].who \in Users
        BY <1>2 DEF IInv, JobInv, BindJob, BindCreate, At, BindSteps
      <3>2. "bind_active" \in Steps /\ Goto(p, "bind_active")
        BY <1>2, <2>2 DEF BindCreate, Steps
      <3>3. JobInv(p)'
        BY <1>2, <2>2, TypesOf DEF IInv, JobInv, BindCreate, At, Goto,
               history, BindJob, RelayJob, SwitchJob, StopJob, OperatorJob,
               ReplyJob, ActiveJob, BindSteps, RelayChecked, StopSteps,
               SendSteps
      <3>4. registered' \subseteq Users
        BY <1>2, <2>2, <3>1 DEF IInv, TypeOK, BindCreate
      <3>5. OpenInv'
        BY <1>2, <2>2, <3>2, SameOpen DEF BindCreate, At, sessionRows, history
      <3>6. QED
        BY <1>2, <2>2, <3>2, <3>3, <3>4, <3>5, SameJob, StepOf, TypesOf
        DEF BindCreate, sessionRows, history
    <2>3. QED
      BY <2>1, <2>2
  <1>3. QED
    BY <1>1, <1>2

LEMMA RelayReadSessionStep ==
  ASSUME IInv, NEW p \in Handlers, RelayReadSession(p)
  PROVE  IInv'
  <1> DEFINE s == job[p].session
             u == job[p].who
             r == RoleOf(u, client[s], executor[s])
             to == Counterpart(r, client[s], executor[s])
             refusal == Refusal(s, r)
             step == IF refusal = "none" THEN "relay_check" ELSE "reply"
             j == [job[p] EXCEPT !.role = r, !.result = refusal,
                                 !.client = client[s], !.executor = executor[s],
                                 !.to = to]
  <1>1. /\ pc[p] = "relay_session"
        /\ job[p] \in Job
        /\ job[p].op = "relay" /\ u \in Users /\ s \in Sessions
        /\ job[p].handed = {}
        /\ job[p].message > 0 => s \in open[p]
        /\ status[s] = "active" => s \in open[p]
    BY TypesOf DEF IInv, JobInv, RelayJob, ActiveJob, OpenInv,
                   RelayReadSession, At
  <1>2. /\ client[s] \in Users \cup {None}
        /\ executor[s] \in Users \cup {None}
        /\ r \in Roles \cup {None}
        /\ to \in Users \cup {None}
    BY <1>1, TypesOf DEF RoleOf, Roles, Counterpart
  <1>3. refusal \in Results /\ refusal # "relayed" /\ refusal # "ok"
    BY DEF Refusal, Results
  <1>4. step \in Steps /\ Goto(p, step)
    BY DEF RelayReadSession, Steps
  <1>5. refusal = "none" => /\ status[s] = "active"
                            /\ r \in Roles
                            /\ to # None => Facing(s, r, u, to)
    BY <1>1, <1>2, ConstantsAssumption
    DEF IInv, PairedInv, Refusal, RoleOf, Counterpart, Facing, Roles
  <1>6. job' = [job EXCEPT ![p] = j]
    BY TypesOf DEF RelayReadSession
  <1>7. /\ j.op = "relay" /\ j.who = u /\ j.session = s /\ j.role = r
        /\ j.to = to /\ j.result = refusal /\ j.handed = {}
        /\ j.message = job[p].message
    BY <1>1 DEF Job
  <1> HIDE DEF r, to, refusal
  <1>8. j \in Job
    BY <1>1, <1>2, <1>3 DEF Job
  <1>9. UNCHANGED <<open, paired, linked, messages>> /\ pc'[p] = step /\ job'[p] = j
    BY <1>4, <1>6, TypesOf DEF RelayReadSession, history, Goto
  <1> HIDE DEF j, s, u
  <1>10. JobInv(p)'
    BY <1>1, <1>3, <1>5, <1>7, <1>9
    DEF JobInv, BindJob, RelayJob, SwitchJob, StopJob, OperatorJob, ReplyJob,
        ActiveJob, BindSteps, RelayChecked, StopSteps, SendSteps, Facing
  <1>11. QED
    BY <1>1, <1>4, <1>6, <1>8, <1>10, ReadingStep DEF RelayReadSession

LEMMA IncrementedType ==
  ASSUME IInv, NEW k \in Keys
  PROVE  Incremented(k) \in [Keys -> 0 .. PauseThreshold]
  BY TypesOf, ConstantsAssumption DEF Incremented

\* A request that keeps its job and moves on inside the group of steps it is
\* in knows what it knew.
LEMMA Onwards ==
  ASSUME IInv, NEW p \in Handlers, UNCHANGED <<job, linked, paired>>,
         NEW step, Goto(p, step),
         NEW steps \in {RelayChecked, StopSteps, {"send_check", "send_store"}},
         pc[p] \in steps, step \in steps, open[p] \subseteq open'[p]
  PROVE  JobInv(p)' /\ pc[p] # "idle" /\ step \in Steps
  <1>1. pc'[p] = step
    BY TypesOf DEF Goto
  <1>2. JobInv(p)
    BY DEF IInv
  <1>3. CASE steps = RelayChecked
    BY <1>1, <1>2, <1>3
    DEF JobInv, BindJob, RelayJob, SwitchJob, StopJob, OperatorJob, ReplyJob,
        ActiveJob, BindSteps, RelayChecked, StopSteps, SendSteps, Facing, Steps
  <1>4. CASE steps = StopSteps
    BY <1>1, <1>2, <1>4
    DEF JobInv, BindJob, RelayJob, SwitchJob, StopJob, OperatorJob, ReplyJob,
        ActiveJob, BindSteps, RelayChecked, StopSteps, SendSteps, Facing, Steps
  <1>5. CASE steps = {"send_check", "send_store"}
    BY <1>1, <1>2, <1>5
    DEF JobInv, BindJob, RelayJob, SwitchJob, StopJob, OperatorJob, ReplyJob,
        ActiveJob, BindSteps, RelayChecked, StopSteps, SendSteps, Facing, Steps
  <1>6. QED
    BY <1>3, <1>4, <1>5

LEMMA RelayCheckStep ==
  ASSUME IInv, NEW p \in Handlers, RelayCheck(p)
  PROVE  IInv'
  <1> DEFINE k == ViolationKey[job[p].who]
  <1>1. pc[p] = "relay_check" /\ job[p].who \in Users
    BY DEF IInv, JobInv, RelayJob, RelayCheck, At, RelayChecked
  <1>2. k \in Keys
    BY <1>1, ConstantsAssumption
  <1>3. violations' \in [Keys -> 0 .. PauseThreshold]
    BY <1>2, TypesOf, IncrementedType DEF RelayCheck, CheckError
  <1>4. PICK step \in {"relay_store", "relay_pause", "relay_alert"} : Goto(p, step)
    BY DEF RelayCheck
  <1>5. UNCHANGED <<userRows, sessionRows, messages, audit, job, started, history>>
    BY DEF RelayCheck
  <1>6. JobInv(p)' /\ pc[p] # "idle" /\ step \in Steps
    BY <1>1, <1>4, <1>5, Onwards DEF RelayChecked, history
  <1>7. OpenInv'
    BY <1>4, <1>5, <1>6, SameOpen DEF sessionRows, history
  <1>8. registered' \subseteq Users
    BY <1>5 DEF IInv, TypeOK, userRows
  <1>9. QED
    BY <1>3, <1>4, <1>5, <1>6, <1>7, <1>8, SameJob, TypesOf, StepOf
    DEF userRows, sessionRows, history

LEMMA RelayPauseStep ==
  ASSUME IInv, NEW p \in Handlers, RelayPause(p)
  PROVE  IInv'
  <1> DEFINE s == job[p].session
  <1>1. pc[p] = "relay_pause" /\ s \in Sessions /\ Goto(p, "relay_alert")
    BY DEF IInv, JobInv, RelayJob, RelayPause, At, RelayChecked
  <1>2. UNCHANGED <<userRows, client, executor, closeRequestedBy, messages,
                    violations, audit, job, started, linked, paired, inbox>>
    BY DEF RelayPause
  <1>3. /\ OpenInv'
        /\ status' \in [Sessions -> Statuses]
        /\ closedAt' \in [Sessions -> BOOLEAN]
        /\ open' \in [Handlers -> SUBSET Sessions]
        /\ \A q \in Handlers : open[q] \subseteq open'[q]
    <2>1. CASE UpdateStatus(s, "paused")
      BY <1>1, <2>1, UpdateStatusStep DEF Statuses
    <2>2. CASE UNCHANGED <<status, closedAt, open>>
      BY <1>1, <2>2, TypesOf, SameOpen
    <2>3. QED
      BY <2>1, <2>2 DEF RelayPause, Logged
  <1>4. JobInv(p)' /\ pc[p] # "idle" /\ "relay_alert" \in Steps
    BY <1>1, <1>2, <1>3, Onwards DEF RelayChecked
  <1>5. registered' \subseteq Users
    BY <1>2 DEF IInv, TypeOK, userRows
  <1>6. QED
    BY <1>1, <1>2, <1>3, <1>4, <1>5, SameJob, TypesOf, StepOf DEF userRows

LEMMA RelayAlertStep ==
  ASSUME IInv, NEW p \in Handlers, RelayAlert(p)
  PROVE  IInv'
  <1>1. PICK r \in {"moderation_violation", "error"} : Answer(p, r)
    BY DEF RelayAlert
  <1>2. r \in Results /\ r # "relayed" /\ r # "ok"
    BY DEF Results
  <1>3. UNCHANGED <<userRows, sessionRows, messages, violations, audit, started,
                    history>>
    BY DEF RelayAlert
  <1>4. QED
    BY <1>1, <1>2, <1>3, Answered, ReadingStep DEF RelayAlert, At, history

-----------------------------------------------------------------------------
(* Steps that write rows IInv speaks about *)

LEMMA InsertStep ==
  ASSUME IInv,
         NEW p \in Handlers, pc[p] \in {"relay_store", "send_store"},
         NEW sender \in Users \cup {None},
         InsertMessage(p, job[p].session, sender, job[p].role, job[p].to),
         sender # None => sender = job[p].who /\ pc[p] = "relay_store",
         NEW step, Goto(p, step),
         step = IF pc[p] = "relay_store" THEN "reply" ELSE "send_bot",
         pc[p] = "send_store" => job[p].to # None,
         UNCHANGED <<userRows, sessionRows, violations, audit, started, history>>
  PROVE  IInv'
  <1> DEFINE s == job[p].session
             to == job[p].to
             m == [session |-> s, sender |-> sender, role |-> job[p].role,
                   recipient |-> to, delivered |-> TRUE]
             n == Len(messages) + 1
             result == IF to = None THEN "counterparty_not_bound_yet"
                       ELSE "relayed"
             j == [job[p] EXCEPT !.message = n, !.result = result]
  <1>1. /\ s \in Sessions /\ job[p].role \in Roles /\ s \in open[p]
        /\ job[p].handed = {}
        /\ pc[p] = "relay_store" =>
             /\ job[p].op = "relay" /\ job[p].who \in Users
             /\ to # None => Facing(s, job[p].role, job[p].who, to)
        /\ pc[p] = "send_store" => job[p].op = "sendas" /\ job[p].who \in Operators
    BY DEF IInv, JobInv, RelayJob, OperatorJob, ActiveJob, RelayChecked, SendSteps
  <1>2. job[p] \in Job /\ to \in Users \cup {None} /\ messages \in Seq(Message)
    BY TypesOf DEF Job
  <1>3. m \in Message
    BY <1>1, <1>2 DEF Message
  <1>4. messages' = Append(messages, m)
    BY DEF InsertMessage, StoredDelivered
  <1>5. /\ messages' \in Seq(Message)
        /\ DOMAIN messages' = DOMAIN messages \cup {n}
        /\ n \in Nat /\ n > 0
        /\ messages'[n] = m
        /\ \A i \in DOMAIN messages : messages'[i] = messages[i]
    BY <1>2, <1>3, <1>4
  <1>6. m.session = s /\ m.sender = sender /\ m.role = job[p].role
        /\ m.recipient = to /\ m.delivered
    OBVIOUS
  <1>7. result \in Results
    BY DEF Results
  <1>8. job' = [job EXCEPT ![p] = j]
    BY TypesOf DEF InsertMessage
  <1> HIDE DEF m, n, result
  <1>9. j \in Job
    BY <1>2, <1>5, <1>7 DEF Job
  <1>10. /\ j.op = job[p].op /\ j.who = job[p].who /\ j.session = s
         /\ j.role = job[p].role /\ j.to = to /\ j.handed = {}
         /\ j.message = n /\ j.result = result
    BY <1>1, <1>2 DEF Job
  <1>11. /\ pc' = [pc EXCEPT ![p] = step] /\ pc'[p] = step /\ job'[p] = j
         /\ step \in Steps
    BY <1>8, TypesOf DEF Goto, Steps
  <1>12. TypeOK'
    <2>1. pc' \in [Handlers -> Steps] /\ job' \in [Handlers -> Job]
      BY <1>8, <1>9, <1>11, TypesOf
    <2>2. QED
      BY <2>1, <1>5 DEF IInv, TypeOK, userRows, sessionRows, history
  <1>13. Frame(p)
    BY <1>3, <1>4, <1>8, <1>11, TypesOf DEF Frame, history
  <1>14. \A q \in Handlers \ {p} : JobInv(q)'
    BY <1>13, OthersKeep DEF IInv
  <1> HIDE DEF j
  <1>15. JobInv(p)'
    <2>1. /\ BindJob(job[p], pc[p])' /\ SwitchJob(job[p], pc[p])'
          /\ StopJob(job[p], pc[p])' /\ RelayJob(job[p], pc[p])'
      BY <1>11 DEF BindJob, RelayJob, SwitchJob, StopJob, BindSteps,
                   RelayChecked, StopSteps
    <2>2. OperatorJob(job[p], pc[p])' /\ ActiveJob(job[p], pc[p], open[p])'
      BY <1>1, <1>10, <1>11
      DEF OperatorJob, ActiveJob, RelayChecked, SendSteps, history
    <2>3. ReplyJob(job[p], pc[p])'
      BY <1>1, <1>2, <1>5, <1>6, <1>10, <1>11 DEF ReplyJob, result
    <2>4. QED
      BY <1>10, <1>11, <2>1, <2>2, <2>3 DEF JobInv
  <1>16. MessagesInv'
    BY <1>1, <1>5, <1>6 DEF IInv, MessagesInv, Facing, history
  <1>17. DeliveredToCounterpart'
    BY <1>5 DEF IInv, DeliveredToCounterpart, history
  <1>18. LinkedInv' /\ PairedInv'
    BY DEF IInv, LinkedInv, PairedInv, userRows, sessionRows, history
  <1>19. OpenInv'
    BY <1>11, SameOpen DEF sessionRows, history
  <1>20. QED
    BY <1>12, <1>14, <1>15, <1>16, <1>17, <1>18, <1>19 DEF IInv

LEMMA StoreStep ==
  ASSUME IInv, NEW p \in Handlers, RelayStore(p) \/ SendAsStore(p)
  PROVE  IInv'
  <1>1. CASE RelayStore(p)
    <2>1. pc[p] = "relay_store" /\ job[p].who \in Users
      BY <1>1 DEF IInv, JobInv, RelayJob, RelayStore, At, RelayChecked
    <2>2. job[p].who # None
      BY <2>1, ConstantsAssumption
    <2>3. QED
      BY <1>1, <2>1, <2>2, InsertStep DEF RelayStore
  <1>2. CASE SendAsStore(p)
    <2>1. CASE job[p].to = None
      <3>1. "refused" \in Results /\ Answer(p, "refused") /\ UNCHANGED open
        BY <1>2, <2>1 DEF SendAsStore, Results, history
      <3>2. QED
        BY <1>2, <2>1, <3>1, Answered, ReadingStep DEF SendAsStore, At
    <2>2. CASE job[p].to # None
      BY <1>2, <2>2, InsertStep DEF SendAsStore, At
    <2>3. QED
      BY <2>1, <2>2
  <1>3. QED
    BY <1>1, <1>2

LEMMA RowsStep ==
  ASSUME IInv, NEW p \in Handlers, Frame(p), UNCHANGED <<messages, inbox>>,
         TypeOK', LinkedInv', PairedInv', OpenInv', JobInv(p)'
  PROVE  IInv'
  <1>1. linked \subseteq linked' /\ paired \subseteq paired'
    BY DEF Frame
  <1>2. MessagesInv'
    BY <1>1 DEF IInv, MessagesInv, Facing
  <1>3. DeliveredToCounterpart'
    BY <1>1 DEF IInv, DeliveredToCounterpart
  <1>4. \A q \in Handlers : JobInv(q)'
    BY OthersKeep DEF IInv
  <1>5. QED
    BY <1>2, <1>3, <1>4 DEF IInv

LEMMA BindSetActiveStep ==
  ASSUME IInv, NEW p \in Handlers, BindSetActive(p)
  PROVE  IInv'
  <1>1. /\ pc[p] = "bind_active" /\ job[p].who \in Users
        /\ job[p].session \in Sessions
        /\ Goto(p, "bind_role") /\ pc'[p] = "bind_role"
        /\ active' = [active EXCEPT ![job[p].who] = job[p].session]
        /\ linked' = linked \cup {<<job[p].who, job[p].session>>}
    BY TypesOf DEF IInv, JobInv, BindJob, BindSetActive, At, BindSteps, Goto
  <1>2. UNCHANGED <<registered, rowLock, sessionRows, messages, violations,
                    audit, job, started, paired, inbox, open>>
    BY DEF BindSetActive
  <1>3. TypeOK'
    <2>1. /\ active' \in [Users -> Sessions \cup {None}]
          /\ linked' \subseteq Users \X Sessions
          /\ pc' \in [Handlers -> Steps]
      BY <1>1, TypesOf DEF IInv, TypeOK, Goto, Steps
    <2>2. QED
      BY <1>2, <2>1 DEF IInv, TypeOK, sessionRows
  <1>4. Frame(p)
    BY <1>1, <1>2, TypesOf DEF Frame, Goto
  <1>5. LinkedInv'
    BY <1>1, <1>2, TypesOf DEF IInv, LinkedInv, sessionRows
  <1>6. PairedInv'
    BY <1>2 DEF IInv, PairedInv, sessionRows
  <1>7. OpenInv'
    BY <1>1, <1>2, SameOpen DEF sessionRows
  <1>8. JobInv(p)'
    BY <1>1, <1>2
    DEF IInv, JobInv, BindJob, RelayJob, SwitchJob, StopJob, OperatorJob,
        ReplyJob, ActiveJob, BindSteps, RelayChecked, StopSteps, SendSteps
  <1>9. QED
    BY <1>2, <1>3, <1>4, <1>5, <1>6, <1>7, <1>8, RowsStep

LEMMA BindTakeRoleStep ==
  ASSUME IInv, NEW p \in Handlers, BindTakeRole(p)
  PROVE  IInv'
  <1> DEFINE s == job[p].session
             u == job[p].who
  <1>1. /\ pc[p] = "bind_role" /\ u \in Users /\ s \in Sessions
        /\ <<u, s>> \in linked
        /\ Goto(p, "bind_collect") /\ pc'[p] = "bind_collect"
    BY TypesOf DEF IInv, JobInv, BindJob, BindTakeRole, At, BindSteps, Goto
  <1>2. UNCHANGED <<userRows, status, closedAt, closeRequestedBy, messages,
                    violations, audit, job, started, linked, inbox, open>>
    BY DEF BindTakeRole
  <1>3. /\ client' = client \/ client' = [client EXCEPT ![s] = u]
        /\ executor' = executor \/ executor' = [executor EXCEPT ![s] = u]
    BY DEF BindTakeRole
  <1>4. paired' = IF client'[s] # None /\ executor'[s] # None
                  THEN paired \cup {<<s, client'[s], executor'[s]>>}
                  ELSE paired
    BY DEF BindTakeRole
  <1>5. /\ client' \in [Sessions -> Users \cup {None}]
        /\ executor' \in [Sessions -> Users \cup {None}]
        /\ \A t \in Sessions \ {s} : client'[t] = client[t]
                                     /\ executor'[t] = executor[t]
    BY <1>1, <1>3, TypesOf
  <1>6. paired' \subseteq Sessions \X Users \X Users
    BY <1>1, <1>4, <1>5 DEF IInv, TypeOK
  <1>7. pc' \in [Handlers -> Steps]
    BY <1>1, TypesOf DEF Goto, Steps
  <1>8. TypeOK'
    BY <1>2, <1>5, <1>6, <1>7 DEF IInv, TypeOK, userRows
  <1>9. Frame(p)
    BY <1>1, <1>2, <1>4, TypesOf DEF Frame, Goto
  <1>10. LinkedInv'
    BY <1>1, <1>2, <1>3, TypesOf DEF IInv, LinkedInv, userRows
  <1>11. PairedInv'
    BY <1>4, <1>5 DEF IInv, PairedInv
  <1>12. OpenInv'
    BY <1>1, <1>2, SameOpen
  <1>13. JobInv(p)'
    BY <1>1, <1>2
    DEF IInv, JobInv, BindJob, RelayJob, SwitchJob, StopJob, OperatorJob,
        ReplyJob, ActiveJob, BindSteps, RelayChecked, StopSteps, SendSteps
  <1>14. QED
    BY <1>2, <1>8, <1>9, <1>10, <1>11, <1>12, <1>13, RowsStep

\* Every row of messages says delivered: there is nothing to collect.
LEMMA CollectsNothing ==
  ASSUME IInv, NEW p \in Handlers, BindCollect(p)
  PROVE  messages' = messages
  <1>0. Undelivered(job[p].session, job[p].who) = {}
    BY DEF IInv, MessagesInv, Undelivered
  <1>1. messages \in Seq(Message)
    BY TypesOf
  <1>2. ASSUME NEW i \in DOMAIN messages
        PROVE  [messages[i] EXCEPT !.delivered = @ \/ i \in {}] = messages[i]
    <2> DEFINE m == messages[i]
    <2>1. m \in Message /\ m.delivered
      BY <1>1 DEF IInv, MessagesInv
    <2>2. (m.delivered \/ i \in {}) = TRUE
      BY <2>1, Zenon
    <2>3. m.delivered = TRUE
      BY <2>1 DEF Message
    <2>4. m = [m EXCEPT !.delivered = m.delivered]
      BY <2>1 DEF Message
    <2> HIDE DEF m
    <2>5. [m EXCEPT !.delivered = @ \/ i \in {}] = m
      BY <2>2, <2>3, <2>4, Zenon
    <2>6. QED
      BY <2>5 DEF m
  <1>3. messages' = [i \in DOMAIN messages |->
                      [messages[i] EXCEPT !.delivered = @ \/ i \in {}]]
    BY <1>0 DEF BindCollect
  <1>4. messages = [i \in DOMAIN messages |-> messages[i]]
    BY <1>1
  <1>5. QED
    BY <1>2, <1>3, <1>4

LEMMA BindCollectStep ==
  ASSUME IInv, NEW p \in Handlers, BindCollect(p)
  PROVE  IInv'
  <1>1. pc[p] = "bind_collect" /\ job[p] \in Job /\ job[p].handed = {}
    BY TypesOf DEF IInv, JobInv, BindCollect, At
  <1>2. Undelivered(job[p].session, job[p].who) = {}
    BY DEF IInv, MessagesInv, Undelivered
  <1>3. messages' = messages
    BY CollectsNothing
  <1>4. [job[p] EXCEPT !.handed = {}, !.result = "bound"]
          = [job[p] EXCEPT !.result = "bound"]
    BY <1>1 DEF Job
  <1>5. Answer(p, "bound") /\ "bound" \in Results
    BY <1>2, <1>4, TypesOf DEF BindCollect, Answer, Results
  <1>6. UNCHANGED <<userRows, sessionRows, violations, audit, started, history>>
    BY DEF BindCollect
  <1>7. QED
    BY <1>1, <1>3, <1>5, <1>6, Answered, ReadingStep DEF history

\* SwitchWrite and LangWrite: the session of the job becomes the active one.
LEMMA ActiveStep ==
  ASSUME IInv, NEW p \in Handlers, pc[p] # "idle", job[p].op # "stop",
         NEW u \in Users,
         job[p].session # None => <<u, job[p].session>> \in linked,
         active' = [active EXCEPT ![u] = job[p].session],
         rowLock' \in [Users -> Handlers \cup {None}],
         Answer(p, "ok"),
         UNCHANGED <<registered, sessionRows, messages, violations, audit,
                     started, history>>
  PROVE  IInv'
  <1>1. "ok" \in Results
    BY DEF Results
  <1>2. /\ Goto(p, "reply") /\ "reply" \in Steps
        /\ [job[p] EXCEPT !.result = "ok"] \in Job
        /\ job' = [job EXCEPT ![p] = [job[p] EXCEPT !.result = "ok"]]
        /\ JobInv(p)'
    BY <1>1, Answered DEF history
  <1>3. /\ job' \in [Handlers -> Job]
        /\ pc' \in [Handlers -> Steps]
        /\ active' \in [Users -> Sessions \cup {None}]
    BY <1>2, TypesOf DEF Goto, Job
  <1>4. TypeOK'
    BY <1>3 DEF IInv, TypeOK, sessionRows, history
  <1>5. Frame(p)
    BY <1>2, TypesOf DEF Frame, Goto, history
  <1>6. LinkedInv'
    BY TypesOf DEF IInv, LinkedInv, sessionRows, history
  <1>7. PairedInv'
    BY DEF IInv, PairedInv, sessionRows, history
  <1>8. OpenInv'
    BY <1>2, SameOpen DEF sessionRows, history
  <1>9. QED
    BY <1>2, <1>4, <1>5, <1>6, <1>7, <1>8, RowsStep DEF history

LEMMA SwitchStep ==
  ASSUME IInv, NEW p \in Handlers, SwitchCheck(p) \/ SwitchWrite(p) \/ LangWrite(p)
  PROVE  IInv'
  <1> DEFINE s == job[p].session
             u == job[p].who
  <1>1. CASE SwitchCheck(p)
    <2>1. pc[p] = "switch_check" /\ u \in Users /\ s \in Sessions
          /\ job[p].op = "switch"
      BY <1>1 DEF IInv, JobInv, SwitchJob, SwitchCheck, At
    <2>2. UNCHANGED <<registered, active, sessionRows, messages, violations,
                      audit, started, history>>
      BY <1>1 DEF SwitchCheck
    <2>3. CASE IsParticipant(u, s)
      <3>1. <<u, s>> \in linked
        BY <2>1, <2>3, ConstantsAssumption DEF IInv, LinkedInv, IsParticipant
      <3>2. /\ Goto(p, "switch_write") /\ "switch_write" \in Steps
            /\ UNCHANGED job
            /\ rowLock' = [rowLock EXCEPT ![u] = p]
        BY <1>1, <2>3 DEF SwitchCheck, Steps
      <3>3. rowLock' \in [Users -> Handlers \cup {None}]
        BY <2>1, <3>2, TypesOf
      <3>4. pc'[p] = "switch_write"
        BY <3>2, TypesOf DEF Goto
      <3>5. JobInv(p)'
        BY <2>1, <2>2, <3>1, <3>2, <3>4
        DEF IInv, JobInv, BindJob, RelayJob, SwitchJob, StopJob, OperatorJob,
            ReplyJob, ActiveJob, BindSteps, RelayChecked, StopSteps, SendSteps,
            history
      <3>6. OpenInv'
        BY <2>1, <2>2, <3>2, SameOpen DEF sessionRows, history
      <3>7. registered' \subseteq Users
        BY <2>2 DEF IInv, TypeOK
      <3>8. QED
        BY <2>2, <3>2, <3>3, <3>5, <3>6, <3>7, SameJob, TypesOf, StepOf
        DEF sessionRows, history
    <2>4. CASE ~IsParticipant(u, s)
      <3>1. "refused" \in Results /\ Answer(p, "refused") /\ UNCHANGED rowLock
        BY <1>1, <2>4 DEF SwitchCheck, Results, RolledBack
      <3>2. QED
        BY <2>1, <2>2, <3>1, Answered, ReadingStep DEF userRows, history
    <2>5. QED
      BY <2>3, <2>4
  <1>2. CASE SwitchWrite(p)
    <2>1. pc[p] = "switch_write" /\ u \in Users /\ s \in Sessions
          /\ job[p].op = "switch" /\ <<u, s>> \in linked
      BY <1>2 DEF IInv, JobInv, SwitchJob, SwitchWrite, At
    <2>2. rowLock' \in [Users -> Handlers \cup {None}]
      BY <1>2, TypesOf DEF SwitchWrite
    <2>3. QED
      BY <1>2, <2>1, <2>2, ActiveStep DEF SwitchWrite
  <1>3. CASE LangWrite(p)
    <2>1. pc[p] = "lang_write" /\ u \in Users
          /\ job[p].op = "lang" /\ (s # None => <<u, s>> \in linked)
      BY <1>3 DEF IInv, JobInv, SwitchJob, LangWrite, At
    <2>2. rowLock' \in [Users -> Handlers \cup {None}]
      BY <1>3, TypesOf DEF LangWrite
    <2>3. QED
      BY <1>3, <2>1, <2>2, ActiveStep DEF LangWrite
  <1>4. QED
    BY <1>1, <1>2, <1>3

LEMMA StopReadSessionStep ==
  ASSUME IInv, NEW p \in Handlers, StopReadSession(p)
  PROVE  IInv'
  <1> DEFINE s == job[p].session
             r == IF client[s] = job[p].who THEN "client" ELSE "executor"
             to == Counterpart(r, client[s], executor[s])
             j == [job[p] EXCEPT !.to = to]
  <1>1. /\ pc[p] = "stop_session" /\ job[p] \in Job /\ s \in Sessions
    BY TypesOf DEF IInv, JobInv, StopJob, StopReadSession, At, StopSteps
  <1>2. to \in Users \cup {None}
    BY <1>1, TypesOf DEF Counterpart
  <1>3. job' = [job EXCEPT ![p] = j] /\ job'[p] = j
    BY TypesOf DEF StopReadSession
  <1>4. UNCHANGED <<userRows, sessionRows, messages, violations, audit, started,
                    history>>
        /\ Goto(p, "stop_update") /\ "stop_update" \in Steps
    BY DEF StopReadSession, Steps
  <1>5. pc'[p] = "stop_update"
    BY <1>4, TypesOf DEF Goto
  <1> HIDE DEF to
  <1>6. /\ j \in Job /\ j.op = job[p].op /\ j.who = job[p].who
        /\ j.session = s /\ j.handed = job[p].handed
        /\ j.message = job[p].message
    BY <1>1, <1>2 DEF Job
  <1> HIDE DEF j
  <1>7. JobInv(p)'
    BY <1>1, <1>3, <1>4, <1>5, <1>6
    DEF IInv, JobInv, BindJob, RelayJob, SwitchJob, StopJob, OperatorJob,
        ReplyJob, ActiveJob, BindSteps, RelayChecked, StopSteps, SendSteps,
        history
  <1>8. QED
    BY <1>1, <1>3, <1>4, <1>6, <1>7, ReadingStep

LEMMA StopUpdateStep ==
  ASSUME IInv, NEW p \in Handlers, StopUpdate(p)
  PROVE  IInv'
  <1>1. /\ pc[p] = "stop_update" /\ job[p].session \in Sessions
        /\ Goto(p, "stop_record")
    BY DEF IInv, JobInv, StopJob, StopUpdate, At, StopSteps
  <1>2. /\ UpdateStatus(job[p].session, "pending_close")
        /\ UNCHANGED <<userRows, client, executor, closeRequestedBy, messages,
                       violations, audit, job, started, linked, paired, inbox>>
    BY DEF StopUpdate
  <1>3. /\ OpenInv'
        /\ status' \in [Sessions -> Statuses]
        /\ closedAt' \in [Sessions -> BOOLEAN]
        /\ open' \in [Handlers -> SUBSET Sessions]
        /\ \A q \in Handlers : open[q] \subseteq open'[q]
    BY <1>1, <1>2, UpdateStatusStep DEF Statuses
  <1>4. JobInv(p)' /\ "stop_record" \in Steps
    BY <1>1, <1>2, <1>3, Onwards DEF StopSteps
  <1>5. registered' \subseteq Users
    BY <1>2 DEF IInv, TypeOK, userRows
  <1>6. QED
    BY <1>1, <1>2, <1>3, <1>4, <1>5, SameJob, TypesOf, StepOf DEF userRows

LEMMA StopRecordStep ==
  ASSUME IInv, NEW p \in Handlers, StopRecord(p)
  PROVE  IInv'
  <1>1. /\ pc[p] = "stop_record" /\ Goto(p, "stop_alert")
        /\ job[p].session \in Sessions /\ job[p].who \in Users
        /\ <<job[p].who, job[p].session>> \in linked
    BY DEF IInv, JobInv, StopJob, StopRecord, At, StopSteps
  <1>2. UNCHANGED <<userRows, client, executor, status, closedAt, messages,
                    violations, audit, job, started, history>>
    BY DEF StopRecord
  <1>3. \/ closeRequestedBy' = closeRequestedBy
        \/ closeRequestedBy' = [closeRequestedBy EXCEPT ![job[p].session] = job[p].who]
    BY DEF StopRecord, Logged
  <1>4. closeRequestedBy \in [Sessions -> Users \cup {None}]
    BY DEF IInv, TypeOK
  <1>5. closeRequestedBy' \in [Sessions -> Users \cup {None}]
    BY <1>1, <1>3, <1>4
  <1>6. JobInv(p)' /\ "stop_alert" \in Steps
    BY <1>1, <1>2, Onwards DEF StopSteps, history
  <1>7. pc' \in [Handlers -> Steps]
    BY <1>1, <1>6, TypesOf DEF Goto
  <1>8. TypeOK'
    BY <1>2, <1>5, <1>7 DEF IInv, TypeOK, userRows, history
  <1>9. Frame(p)
    BY <1>1, <1>2, TypesOf DEF Frame, Goto, history
  <1>10. LinkedInv'
    BY <1>1, <1>2, <1>3, <1>4 DEF IInv, LinkedInv, userRows, history
  <1>11. PairedInv'
    BY <1>2 DEF IInv, PairedInv, history
  <1>12. OpenInv'
    BY <1>1, <1>2, SameOpen DEF history
  <1>13. QED
    BY <1>2, <1>6, <1>8, <1>9, <1>10, <1>11, <1>12, RowsStep DEF history

LEMMA AuditType ==
  ASSUME IInv, NEW a \in {"session_stop_requested", "session_status_updated",
                          "operator_sent_message_as"},
         NEW x \in Users \cup Operators, NEW s \in Sessions, AuditLog(a, x, s)
  PROVE  audit' \subseteq AuditEntry
  BY TypesOf DEF AuditLog, Logged, AuditEntry

LEMMA StopAlertStep ==
  ASSUME IInv, NEW p \in Handlers, StopAlert(p)
  PROVE  IInv'
  <1>1. /\ pc[p] = "stop_alert" /\ job[p].session \in Sessions
        /\ job[p].who \in Users
    BY DEF IInv, JobInv, StopJob, StopAlert, At, StopSteps
  <1>2. Answer(p, "error") /\ "error" \in Results
    BY DEF StopAlert, BotClientSet, Results
  <1>3. audit' \subseteq AuditEntry
    BY <1>1, AuditType DEF StopAlert
  <1>4. UNCHANGED <<userRows, sessionRows, messages, violations, started, history>>
    BY DEF StopAlert
  <1>5. /\ Goto(p, "reply") /\ "reply" \in Steps
        /\ [job[p] EXCEPT !.result = "error"] \in Job
        /\ job' = [job EXCEPT ![p] = [job[p] EXCEPT !.result = "error"]]
        /\ JobInv(p)'
    BY <1>2, <1>4, Answered DEF history
  <1>6. OpenInv'
    BY <1>1, <1>4, <1>5, SameOpen DEF sessionRows, history
  <1>7. registered' \subseteq Users
    BY <1>4 DEF IInv, TypeOK, userRows
  <1>8. QED
    BY <1>3, <1>4, <1>5, <1>6, <1>7, TypesOf, StepOf
    DEF userRows, sessionRows, history

LEMMA PatchWriteStep ==
  ASSUME IInv, NEW p \in Handlers, PatchWrite(p)
  PROVE  IInv'
  <1>1. /\ pc[p] = "patch_write" /\ job[p].session \in Sessions
        /\ job[p].who \in Operators /\ job[p].op = "patch"
        /\ job[p].status \in Statuses
    BY TypesOf DEF IInv, JobInv, OperatorJob, PatchWrite, At, Job, Statuses,
                   PatchStatuses
  <1>2. /\ Answer(p, "ok") /\ "ok" \in Results
        /\ UpdateStatus(job[p].session, job[p].status)
    BY DEF PatchWrite, Results
  <1>3. /\ OpenInv'
        /\ status' \in [Sessions -> Statuses]
        /\ closedAt' \in [Sessions -> BOOLEAN]
        /\ open' \in [Handlers -> SUBSET Sessions]
        /\ \A q \in Handlers : open[q] \subseteq open'[q]
    BY <1>1, <1>2, UpdateStatusStep DEF Answer
  <1>4. /\ Goto(p, "reply") /\ "reply" \in Steps
        /\ [job[p] EXCEPT !.result = "ok"] \in Job
        /\ job' = [job EXCEPT ![p] = [job[p] EXCEPT !.result = "ok"]]
        /\ JobInv(p)'
    BY <1>1, <1>2, <1>3, Answered
  <1>5. audit' \subseteq AuditEntry
    BY <1>1, AuditType DEF PatchWrite
  <1>6. UNCHANGED <<userRows, client, executor, closeRequestedBy, messages,
                    violations, started, linked, paired, inbox>>
    BY DEF PatchWrite
  <1>7. registered' \subseteq Users
    BY <1>6 DEF IInv, TypeOK, userRows
  <1>8. QED
    BY <1>3, <1>4, <1>5, <1>6, <1>7, TypesOf, StepOf DEF userRows

LEMMA SendAsCheckStep ==
  ASSUME IInv, NEW p \in Handlers, SendAsCheck(p)
  PROVE  IInv'
  <1> DEFINE k == ViolationKey[job[p].who]
  <1>1. pc[p] = "send_check" /\ job[p].who \in Operators /\ job[p].op = "sendas"
    BY DEF IInv, JobInv, OperatorJob, SendAsCheck, At, SendSteps
  <1>2. k \in Keys
    BY <1>1, ConstantsAssumption
  <1>3. violations' \in [Keys -> 0 .. PauseThreshold]
    BY <1>2, TypesOf, IncrementedType DEF SendAsCheck, CheckError
  <1>4. UNCHANGED <<userRows, sessionRows, messages, audit, started, history>>
    BY DEF SendAsCheck
  <1>5. registered' \subseteq Users
    BY <1>4 DEF IInv, TypeOK, userRows
  <1>6. CASE Goto(p, "send_store") /\ UNCHANGED job
    <2>1. JobInv(p)' /\ "send_store" \in Steps
      BY <1>1, <1>4, <1>6, Onwards DEF history
    <2>2. OpenInv'
      BY <1>1, <1>4, <1>6, SameOpen DEF sessionRows, history
    <2>3. QED
      BY <1>3, <1>4, <1>5, <1>6, <2>1, <2>2, SameJob, TypesOf, StepOf
      DEF userRows, sessionRows, history
  <1>7. CASE Answer(p, "moderation_violation")
    <2>1. "moderation_violation" \in Results
      BY DEF Results
    <2>2. /\ Goto(p, "reply") /\ "reply" \in Steps
          /\ [job[p] EXCEPT !.result = "moderation_violation"] \in Job
          /\ job' = [job EXCEPT ![p] =
                      [job[p] EXCEPT !.result = "moderation_violation"]]
          /\ JobInv(p)'
      BY <1>4, <1>7, <2>1, Answered DEF history
    <2>3. OpenInv'
      BY <1>1, <1>4, <2>2, SameOpen DEF sessionRows, history
    <2>4. QED
      BY <1>3, <1>4, <1>5, <2>2, <2>3, TypesOf, StepOf
      DEF userRows, sessionRows, history
  <1>8. QED
    BY <1>6, <1>7 DEF SendAsCheck

LEMMA SendAsBotStep ==
  ASSUME IInv, NEW p \in Handlers, SendAsBot(p)
  PROVE  IInv'
  <1>1. pc[p] = "send_bot" /\ Answer(p, "error") /\ "error" \in Results
    BY DEF SendAsBot, At, BotClientSet, Results
  <1>2. UNCHANGED <<userRows, sessionRows, messages, violations, audit, started,
                    history>>
    BY DEF SendAsBot, BotClientSet, history
  <1>3. QED
    BY <1>1, <1>2, Answered, ReadingStep DEF history

-----------------------------------------------------------------------------
(* Requests end *)

\* What a request sends on its answer is what the abstract mailbox permits.
LEMMA OutgoingPermitted ==
  ASSUME IInv, NEW p \in Handlers, pc[p] = "reply",
         NEW d \in Outgoing(job[p])
  PROVE  /\ d \in Delivery
         /\ d.ref > 0 =>
              LET m == messages[d.ref] IN
              /\ d.ref \in DOMAIN messages
              /\ m.session = d.session
              /\ m.sender # None =>
                   IF m.role = "client"
                   THEN <<d.session, m.sender, d.to>> \in paired
                   ELSE <<d.session, d.to, m.sender>> \in paired
  <1> DEFINE j == job[p]
  <1>1. /\ j \in Job /\ j.handed = {} /\ messages \in Seq(Message)
        /\ ReplyJob(j, "reply")
    BY TypesOf DEF IInv, JobInv
  <1> HIDE DEF j
  <1>2. CASE j.op = "relay" /\ j.result = "relayed"
    <2>1. d = [session |-> j.session, ref |-> j.message, to |-> j.to]
      BY <1>2 DEF Outgoing, j
    <2>2. /\ j.session \in Sessions /\ j.to \in Users
          /\ j.message \in DOMAIN messages
          /\ messages[j.message].session = j.session
          /\ messages[j.message].recipient = j.to
      BY <1>1, <1>2 DEF ReplyJob
    <2>3. j.message \in Nat
      BY <1>1, <2>2
    <2>4. d \in Delivery
      BY <2>1, <2>2, <2>3 DEF Delivery
    <2>5. messages[j.message].sender # None =>
            Facing(j.session, messages[j.message].role,
                   messages[j.message].sender, j.to)
      BY <2>2, ConstantsAssumption DEF IInv, MessagesInv
    <2>6. d.ref = j.message /\ d.session = j.session /\ d.to = j.to
      BY <2>1
    <2>7. QED
      BY <2>2, <2>4, <2>5, <2>6 DEF Facing
  <1>3. CASE j.op = "stop" /\ j.result = "ok" /\ j.to # None
    <2>1. d = [session |-> j.session, ref |-> 0, to |-> j.to]
      BY <1>3 DEF Outgoing, j
    <2>2. j.session \in Sessions /\ j.to \in Users
      BY <1>1, <1>3 DEF ReplyJob, Job
    <2>3. QED
      BY <2>1, <2>2 DEF Delivery
  <1>4. CASE j.op = "bind" /\ j.result = "bound"
    BY <1>1, <1>4 DEF Outgoing, j
  <1>5. QED
    BY <1>2, <1>3, <1>4 DEF Outgoing, j

\* Finish leaves the tables and the other requests alone.
LEMMA FinishStep ==
  ASSUME IInv, NEW p \in Handlers, Finish(p), UNCHANGED <<status, linked, paired, messages>>
  PROVE  /\ pc' \in [Handlers -> Steps]
         /\ job' \in [Handlers -> Job]
         /\ open' \in [Handlers -> SUBSET Sessions]
         /\ OpenInv'
         /\ \A q \in Handlers : JobInv(q)'
  <1>1. /\ pc' = [pc EXCEPT ![p] = "idle"]
        /\ job' = [job EXCEPT ![p] = NoJob]
        /\ open' = [open EXCEPT ![p] = {}]
    BY DEF Finish, Goto
  <1>2. pc' \in [Handlers -> Steps] /\ open' \in [Handlers -> SUBSET Sessions]
    BY <1>1, TypesOf DEF Steps
  <1>3. job' \in [Handlers -> Job]
    BY <1>1, TypesOf, NoJobType
  <1>4. OpenInv'
    BY <1>1, TypesOf DEF IInv, OpenInv
  <1>5. Frame(p)
    BY <1>1, TypesOf DEF Frame
  <1>6. \A q \in Handlers \ {p} : JobInv(q)'
    BY <1>5, OthersKeep DEF IInv
  <1>7. pc'[p] = "idle" /\ job'[p] = NoJob
    BY <1>1, TypesOf
  <1>8. JobInv(p)'
    BY <1>7
    DEF JobInv, BindJob, RelayJob, SwitchJob, StopJob, OperatorJob,
        ReplyJob, ActiveJob, BindSteps, RelayChecked, StopSteps, SendSteps, NoJob
  <1>9. QED
    BY <1>2, <1>3, <1>4, <1>6, <1>8

LEMMA ReplyStep ==
  ASSUME IInv, NEW p \in Handlers, Reply(p)
  PROVE  IInv'
  <1>1. pc[p] = "reply" /\ Finish(p)
    BY DEF Reply, At
  <1>2. PICK sent \in SUBSET Outgoing(job[p]) : inbox' = inbox \cup sent
    BY DEF Reply
  <1>3. UNCHANGED <<userRows, sessionRows, messages, violations, audit, started,
                    linked, paired>>
    BY DEF Reply
  <1>4. /\ pc' \in [Handlers -> Steps]
        /\ job' \in [Handlers -> Job]
        /\ open' \in [Handlers -> SUBSET Sessions]
        /\ OpenInv'
        /\ \A q \in Handlers : JobInv(q)'
    BY <1>1, <1>3, FinishStep DEF sessionRows
  <1>5. inbox' \subseteq Delivery
    BY <1>1, <1>2, OutgoingPermitted DEF IInv, TypeOK
  <1>6. TypeOK'
    BY <1>3, <1>4, <1>5 DEF IInv, TypeOK, userRows, sessionRows
  <1>7. DeliveredToCounterpart'
    <2> SUFFICES ASSUME NEW d \in inbox', d.ref > 0
                 PROVE  LET m == messages[d.ref] IN
                        /\ d.ref \in DOMAIN messages
                        /\ m.session = d.session
                        /\ m.sender # None =>
                             IF m.role = "client"
                             THEN <<d.session, m.sender, d.to>> \in paired
                             ELSE <<d.session, d.to, m.sender>> \in paired
      BY <1>3 DEF DeliveredToCounterpart
    <2>1. CASE d \in inbox
      BY <2>1 DEF IInv, DeliveredToCounterpart
    <2>2. CASE d \in Outgoing(job[p])
      BY <1>1, <2>2, OutgoingPermitted
    <2>3. QED
      BY <1>2, <2>1, <2>2
  <1>8. LinkedInv' /\ PairedInv' /\ MessagesInv'
    BY <1>3 DEF IInv, LinkedInv, PairedInv, MessagesInv, Facing, userRows, sessionRows
  <1>9. QED
    BY <1>4, <1>6, <1>7, <1>8 DEF IInv

LEMMA AbortStep ==
  ASSUME IInv, NEW p \in Handlers, Abort(p)
  PROVE  IInv'
  <1>1. /\ Finish(p)
        /\ UNCHANGED <<registered, active, sessionRows, messages, violations,
                       audit, started, linked, paired, inbox>>
    BY DEF Abort
  <1>2. rowLock' \in [Users -> Handlers \cup {None}]
    BY TypesOf DEF Abort
  <1>3. /\ pc' \in [Handlers -> Steps]
        /\ job' \in [Handlers -> Job]
        /\ open' \in [Handlers -> SUBSET Sessions]
        /\ OpenInv'
        /\ \A q \in Handlers : JobInv(q)'
    BY <1>1, FinishStep DEF sessionRows
  <1>4. TypeOK'
    BY <1>1, <1>2, <1>3 DEF IInv, TypeOK, sessionRows
  <1>5. LinkedInv' /\ PairedInv' /\ MessagesInv' /\ DeliveredToCounterpart'
    BY <1>1 DEF IInv, LinkedInv, PairedInv, MessagesInv, DeliveredToCounterpart,
                Facing, sessionRows
  <1>6. QED
    BY <1>3, <1>4, <1>5 DEF IInv

LEMMA ExpireStep ==
  ASSUME IInv, NEW k \in Keys, ViolationsExpire(k)
  PROVE  IInv'
  <1>1. UNCHANGED <<userRows, sessionRows, messages, audit, pc, job, started,
                    history>>
    BY DEF ViolationsExpire
  <1>2. violations' \in [Keys -> 0 .. PauseThreshold]
    BY TypesOf, ConstantsAssumption DEF ViolationsExpire
  <1>3. TypeOK'
    BY <1>1, <1>2 DEF IInv, TypeOK, userRows, sessionRows, history
  <1>4. LinkedInv' /\ PairedInv' /\ MessagesInv' /\ OpenInv'
        /\ DeliveredToCounterpart'
    BY <1>1 DEF IInv, LinkedInv, PairedInv, MessagesInv, OpenInv,
                DeliveredToCounterpart, Facing, userRows, sessionRows, history
  <1>5. \A p \in Handlers : JobInv(p)'
    BY <1>1 DEF IInv, JobInv, BindJob, RelayJob, SwitchJob, StopJob, OperatorJob,
                ReplyJob, ActiveJob, Facing, history
  <1>6. QED
    BY <1>3, <1>4, <1>5 DEF IInv

LEMMA StutterStep ==
  ASSUME IInv, UNCHANGED vars
  PROVE  IInv'
  <1>1. TypeOK'
    BY DEF IInv, TypeOK, vars, userRows, sessionRows, history
  <1>2. LinkedInv' /\ PairedInv' /\ MessagesInv' /\ OpenInv'
        /\ DeliveredToCounterpart'
    BY DEF IInv, LinkedInv, PairedInv, MessagesInv, OpenInv,
           DeliveredToCounterpart, Facing, vars, userRows, sessionRows, history
  <1>3. \A p \in Handlers : JobInv(p)'
    BY DEF IInv, JobInv, BindJob, RelayJob, SwitchJob, StopJob, OperatorJob,
           ReplyJob, ActiveJob, Facing, vars, userRows, sessionRows, history
  <1>4. QED
    BY <1>1, <1>2, <1>3 DEF IInv

-----------------------------------------------------------------------------
LEMMA NextIInv ==
  ASSUME IInv, [Next]_vars
  PROVE  IInv'
  <1>1. ASSUME NEW p \in Handlers, Arrival(p) PROVE IInv'
    BY <1>1, ArrivalStep
  <1>2. ASSUME NEW p \in Handlers, Progress(p) PROVE IInv'
    BY <1>2, BindReadingStep, BindSetActiveStep, BindTakeRoleStep,
       BindCollectStep, RelayReadSessionStep, RelayCheckStep, RelayPauseStep,
       RelayAlertStep, StoreStep, SwitchStep, StopReadSessionStep,
       StopUpdateStep, StopRecordStep, StopAlertStep, PatchWriteStep,
       SendAsCheckStep, SendAsBotStep, ReplyStep DEF Progress
  <1>3. ASSUME NEW p \in Handlers, Abort(p) PROVE IInv'
    BY <1>3, AbortStep
  <1>4. ASSUME NEW k \in Keys, ViolationsExpire(k) PROVE IInv'
    BY <1>4, ExpireStep
  <1>5. CASE Exhausted \/ UNCHANGED vars
    BY <1>5, StutterStep DEF Exhausted
  <1>6. QED
    BY <1>1, <1>2, <1>3, <1>4, <1>5 DEF Next

\* IInv holds in every reachable state: what the tables satisfy and what each
\* request in flight may still rely on, whatever the other requests did since.
THEOREM InductiveInvariant == Spec => []IInv
  BY InitIInv, NextIInv, PTL DEF Spec

\* The rows, counters and requests keep their types.
THEOREM TypeCorrect == Spec => []TypeOK
  <1>1. IInv => TypeOK
    BY DEF IInv
  <1>2. QED
    BY <1>1, InductiveInvariant, PTL

\* The bot hands a participant's message only to the person who was bound to
\* the other side of its session while the sender was bound to its own side.
THEOREM DeliveryIsToCounterpart == Spec => []DeliveredToCounterpart
  <1>1. IInv => DeliveredToCounterpart
    BY DEF IInv
  <1>2. QED
    BY <1>1, InductiveInvariant, PTL

\* Nobody's active session is one whose link they never opened.
THEOREM ActiveSessionIsLinked == Spec => []ActiveIsLinked
  <1>1. IInv => ActiveIsLinked
    BY DEF IInv, LinkedInv, ActiveIsLinked
  <1>2. QED
    BY <1>1, InductiveInvariant, PTL

\* A request stores a message only in a session that was active at some moment
\* of that request.
THEOREM AcceptedOnlyWhileActive == Spec => []AcceptedWhileActive
  <1>1. IInv => AcceptedWhileActive
    BY DEF IInv, JobInv, ActiveJob, AcceptedWhileActive
  <1>2. QED
    BY <1>1, InductiveInvariant, PTL

-----------------------------------------------------------------------------
(* SessionRelay implements Mailbox *)

LEMMA BoxStep ==
  ASSUME IInv, [Next]_vars
  PROVE  [Box!Next]_(Box!boxVars)
  <1> SUFFICES ASSUME ~UNCHANGED Box!boxVars
               PROVE  Box!Next
    OBVIOUS
  <1>1. ASSUME NEW p \in Handlers, Arrival(p) PROVE FALSE
    BY <1>1 DEF Box!boxVars, Arrival, BindRead, RelayReadSender, SwitchRead,
                LangRead, StopRead, PatchRead, SendAsRead
  <1>2. ASSUME NEW p \in Handlers, BindTakeRole(p) PROVE Box!Next
    <2>1. UNCHANGED <<messages, inbox>>
      BY <1>2 DEF BindTakeRole
    <2>2. PICK pair : paired' = paired \cup {pair}
      BY <1>2, <2>1 DEF BindTakeRole, Box!boxVars
    <2>3. Box!Meet(pair) /\ pair \in paired'
      BY <2>1, <2>2 DEF Box!Meet
    <2>4. QED
      BY <2>3 DEF Box!Next
  <1>3. ASSUME NEW p \in Handlers, RelayStore(p) \/ SendAsStore(p)
        PROVE  Box!Next
    <2>1. UNCHANGED <<paired, inbox>>
      BY <1>3 DEF RelayStore, SendAsStore, history
    <2>2. PICK m : messages' = Append(messages, m)
      BY <1>3, <2>1
      DEF RelayStore, SendAsStore, InsertMessage, Box!boxVars
    <2>3. messages \in Seq(Message)
      BY TypesOf
    <2>4. Len(messages') = Len(messages) + 1 /\ messages'[Len(messages')] = m
      BY <2>2, <2>3
    <2>5. Box!Post(messages'[Len(messages')])
      BY <2>1, <2>2, <2>4 DEF Box!Post
    <2>6. QED
      BY <2>4, <2>5 DEF Box!Next
  <1>4. ASSUME NEW p \in Handlers, Reply(p) PROVE Box!Next
    <2>1. pc[p] = "reply" /\ UNCHANGED <<messages, paired>>
      BY <1>4 DEF Reply, At
    <2>2. PICK sent \in SUBSET Outgoing(job[p]) : inbox' = inbox \cup sent
      BY <1>4 DEF Reply
    <2>3. \A d \in inbox' \ inbox : Box!MayReceive(d)
      BY <2>1, <2>2, OutgoingPermitted DEF Box!MayReceive
    <2>4. inbox' = inbox \cup (inbox' \ inbox)
      BY <2>2
    <2>5. Box!Hand(inbox' \ inbox)
      BY <2>1, <2>3, <2>4 DEF Box!Hand
    <2>6. QED
      BY <2>5 DEF Box!Next
  <1>5. ASSUME NEW p \in Handlers, BindCollect(p) PROVE FALSE
    BY <1>5, CollectsNothing DEF BindCollect, history, Box!boxVars
  <1>6. ASSUME NEW p \in Handlers,
               \/ BindUser(p) \/ BindCreate(p) \/ BindSetActive(p)
               \/ RelayReadSession(p) \/ RelayCheck(p) \/ RelayPause(p)
               \/ RelayAlert(p) \/ SwitchCheck(p) \/ SwitchWrite(p)
               \/ LangWrite(p)
        PROVE  FALSE
    BY <1>6 DEF BindUser, BindCreate, BindSetActive, RelayReadSession,
                RelayCheck, RelayPause, RelayAlert, SwitchCheck, SwitchWrite,
                LangWrite, history, Box!boxVars
  <1>7. ASSUME NEW p \in Handlers,
               \/ StopReadSession(p) \/ StopUpdate(p) \/ StopRecord(p)
               \/ StopAlert(p) \/ PatchWrite(p) \/ SendAsCheck(p)
               \/ SendAsBot(p) \/ Abort(p)
        PROVE  FALSE
    BY <1>7 DEF StopReadSession, StopUpdate, StopRecord, StopAlert, PatchWrite,
                SendAsCheck, SendAsBot, BotClientSet, Abort, history, Box!boxVars
  <1>8. ASSUME NEW k \in Keys, ViolationsExpire(k) PROVE FALSE
    BY <1>8 DEF ViolationsExpire, history, Box!boxVars
  <1>9. ASSUME Exhausted \/ UNCHANGED vars PROVE FALSE
    BY <1>9 DEF Exhausted, vars, history, Box!boxVars
  <1>10. ASSUME NEW p \in Handlers, Progress(p) PROVE Box!Next
    BY <1>2, <1>3, <1>4, <1>5, <1>6, <1>7, <1>10 DEF Progress
  <1>11. QED
    BY <1>1, <1>7, <1>8, <1>9, <1>10 DEF Next

\* Seen through its log, its pairs and what it has handed out, the backend is
\* the mailbox of Mailbox: the log only grows, one entry at a time, and entries
\* reach only the person paired with their author.
THEOREM RelayImplementsMailbox == Spec => ImplementsMailbox
  <1>1. Init => Box!Init
    BY DEF Init, Box!Init
  <1>2. IInv /\ [Next]_vars => [Box!Next]_(Box!boxVars)
    BY BoxStep
  <1>3. QED
    BY <1>1, <1>2, InductiveInvariant, PTL DEF Spec, ImplementsMailbox, Box!Spec

-----------------------------------------------------------------------------
(* Roles settle *)

\* Only a bind that read the side as free writes it.
LEMMA SidesKept ==
  ASSUME IInv, [Next]_vars, NEW s \in Sessions
  PROVE  /\ \/ client'[s] = client[s]
            \/ \E p \in Handlers : /\ job[p].op = "bind" /\ job[p].session = s
                                   /\ job[p].role = "client"
                                   /\ job[p].client = None
         /\ \/ executor'[s] = executor[s]
            \/ \E p \in Handlers : /\ job[p].op = "bind" /\ job[p].session = s
                                   /\ job[p].role = "executor"
                                   /\ job[p].executor = None
  <1>1. ASSUME NEW p \in Handlers, Arrival(p) PROVE UNCHANGED <<client, executor>>
    BY <1>1 DEF Arrival, BindRead, RelayReadSender, SwitchRead, LangRead,
                StopRead, PatchRead, SendAsRead, sessionRows
  <1>2. ASSUME NEW p \in Handlers, Progress(p), ~BindTakeRole(p)
        PROVE  UNCHANGED <<client, executor>>
    <2>1. CASE \/ BindUser(p) \/ BindCreate(p) \/ BindSetActive(p)
               \/ BindCollect(p) \/ RelayReadSession(p) \/ RelayCheck(p)
               \/ RelayPause(p) \/ RelayAlert(p) \/ RelayStore(p)
      BY <2>1 DEF BindUser, BindCreate, BindSetActive, BindCollect,
                  RelayReadSession, RelayCheck, RelayPause, RelayAlert,
                  RelayStore, sessionRows
    <2>2. CASE \/ SwitchCheck(p) \/ SwitchWrite(p) \/ LangWrite(p)
               \/ StopReadSession(p) \/ StopUpdate(p) \/ StopRecord(p)
               \/ StopAlert(p) \/ PatchWrite(p) \/ SendAsCheck(p)
               \/ SendAsStore(p) \/ SendAsBot(p) \/ Reply(p)
      BY <2>2 DEF SwitchCheck, SwitchWrite, LangWrite, StopReadSession,
                  StopUpdate, StopRecord, StopAlert, PatchWrite, SendAsCheck,
                  SendAsStore, SendAsBot, Reply, sessionRows
    <2>3. QED
      BY <1>2, <2>1, <2>2 DEF Progress
  <1>3. ASSUME NEW p \in Handlers, BindTakeRole(p), client'[s] # client[s]
        PROVE  /\ job[p].op = "bind" /\ job[p].session = s
               /\ job[p].role = "client" /\ job[p].client = None
    BY <1>3, TypesOf DEF BindTakeRole, SideIsFree, At, IInv, JobInv, BindJob, BindSteps
  <1>4. ASSUME NEW p \in Handlers, BindTakeRole(p), executor'[s] # executor[s]
        PROVE  /\ job[p].op = "bind" /\ job[p].session = s
               /\ job[p].role = "executor" /\ job[p].executor = None
    BY <1>4, TypesOf DEF BindTakeRole, SideIsFree, At, IInv, JobInv, BindJob, BindSteps
  <1>5. ASSUME NEW p \in Handlers, Abort(p) PROVE UNCHANGED <<client, executor>>
    BY <1>5 DEF Abort, sessionRows
  <1>6. ASSUME (\E k \in Keys : ViolationsExpire(k)) \/ Exhausted \/ UNCHANGED vars
        PROVE  UNCHANGED <<client, executor>>
    BY <1>6 DEF ViolationsExpire, Exhausted, vars, sessionRows
  <1>7. QED
    BY <1>1, <1>2, <1>3, <1>4, <1>5, <1>6 DEF Next

\* A step of a request leaves the other requests where they are.
LEMMA OthersStay ==
  ASSUME IInv, NEW p \in Handlers, Arrival(p) \/ Progress(p) \/ Abort(p),
         NEW q \in Handlers \ {p}
  PROVE  job'[q] = job[q] /\ pc'[q] = pc[q]
  <1>1. CASE Arrival(p)
    BY <1>1, TypesOf DEF Arrival, BindRead, RelayReadSender, SwitchRead, LangRead,
                         StopRead, PatchRead, SendAsRead, Goto
  <1>2. CASE Progress(p)
    BY <1>2, TypesOf
    DEF Progress, Goto, Answer, InsertMessage, Finish, BindUser, BindCreate,
        BindSetActive, BindTakeRole, BindCollect, RelayReadSession,
        RelayCheck, RelayPause, RelayAlert, RelayStore, SwitchCheck,
        SwitchWrite, LangWrite, StopReadSession, StopUpdate, StopRecord,
        StopAlert, PatchWrite, SendAsCheck, SendAsStore, SendAsBot, Reply
  <1>3. CASE Abort(p)
    BY <1>3, TypesOf DEF Abort, Finish, Goto
  <1>4. QED
    BY <1>1, <1>2, <1>3

\* A bind keeps the row it read at its start, and reads it as it is.
LEMMA BindsKept ==
  ASSUME IInv, [Next]_vars, NEW q \in Handlers, job'[q].op = "bind"
  PROVE  \/ /\ job[q].op = "bind"
            /\ job'[q].session = job[q].session
            /\ job'[q].role = job[q].role
            /\ job'[q].client = job[q].client
            /\ job'[q].executor = job[q].executor
         \/ /\ job'[q].session \in Sessions
            /\ job'[q].client = client[job'[q].session]
            /\ job'[q].executor = executor[job'[q].session]
            /\ UNCHANGED <<client, executor>>
  <1>0. \A p \in Handlers : job[p] \in Job
    BY TypesOf
  <1>1. ASSUME NEW p \in Handlers, NEW u \in Users, NEW s \in Sessions,
               NEW r \in Roles, BindRead(p, u, s, r), p = q
        PROVE  /\ job'[q].session = s
               /\ job'[q].client = client[s]
               /\ job'[q].executor = executor[s]
               /\ UNCHANGED <<client, executor>>
    BY <1>1, TypesOf DEF BindRead, NoJob, sessionRows
  <1>2. ASSUME NEW p \in Handlers, Arrival(p), p = q PROVE
          \E u \in Users, s \in Sessions, r \in Roles : BindRead(p, u, s, r)
    <2>0. ASSUME NEW o \in {"relay", "lang", "stop"}, NEW u \in Users, NEW x,
                 job' = [job EXCEPT ![p] =
                          [NoJob EXCEPT !.op = o, !.who = u,
                                        !.session = active[u], !.result = x]]
          PROVE  job'[q].op # "bind"
      BY <1>2, <2>0, TypesOf DEF NoJob
    <2>1. ASSUME NEW u \in Users, \/ RelayReadSender(p, u) \/ LangRead(p, u)
                                   \/ StopRead(p, u)
          PROVE  job'[q].op # "bind"
      <3>1. CASE RelayReadSender(p, u)
        BY <2>0, <3>1 DEF RelayReadSender
      <3>2. CASE LangRead(p, u)
        BY <2>0, <3>2 DEF LangRead
      <3>3. CASE StopRead(p, u)
        BY <2>0, <3>3 DEF StopRead
      <3>4. QED
        BY <2>1, <3>1, <3>2, <3>3
    <2>2. ASSUME NEW u \in Users, NEW s \in Sessions, SwitchRead(p, u, s)
          PROVE  job'[q].op # "bind"
      BY <1>2, <2>2, TypesOf DEF SwitchRead, NoJob
    <2>3. ASSUME NEW o \in Operators, NEW s \in Sessions,
                 NEW st \in PatchStatuses, PatchRead(p, o, s, st)
          PROVE  job'[q].op # "bind"
      BY <1>2, <2>3, TypesOf DEF PatchRead, NoJob
    <2>4. ASSUME NEW o \in Operators, NEW s \in Sessions, NEW r \in Roles,
                 SendAsRead(p, o, s, r)
          PROVE  job'[q].op # "bind"
      BY <1>2, <2>4, TypesOf DEF SendAsRead, NoJob
    <2>5. QED
      BY <1>2, <2>1, <2>2, <2>3, <2>4 DEF Arrival
  <1>3. ASSUME NEW p \in Handlers, Arrival(p) \/ Progress(p) \/ Abort(p), p # q
        PROVE  job'[q] = job[q]
    BY <1>3, OthersStay
  <1> DEFINE Kept == /\ job'[q].op = job[q].op
                     /\ job'[q].session = job[q].session
                     /\ job'[q].role = job[q].role
                     /\ job'[q].client = job[q].client
                     /\ job'[q].executor = job[q].executor
  <1>4. ASSUME NEW r, Answer(q, r) PROVE Kept
    BY <1>4, <1>0, TypesOf DEF Answer, Job
  <1>5. CASE Progress(q)
    <2>1. CASE \/ BindUser(q) \/ BindSetActive(q) \/ BindTakeRole(q)
               \/ RelayCheck(q) \/ RelayPause(q) \/ StopUpdate(q)
               \/ StopRecord(q)
      BY <2>1 DEF BindUser, BindSetActive, BindTakeRole, RelayCheck, RelayPause,
                  StopUpdate, StopRecord
    <2>2. CASE \/ RelayAlert(q) \/ SwitchWrite(q) \/ LangWrite(q)
               \/ StopAlert(q) \/ PatchWrite(q) \/ SendAsBot(q)
      BY <2>2, <1>4 DEF RelayAlert, SwitchWrite, LangWrite, StopAlert,
                        PatchWrite, SendAsBot
    <2>3. CASE BindCreate(q) \/ SwitchCheck(q) \/ SendAsCheck(q)
      BY <2>3, <1>4 DEF BindCreate, SwitchCheck, SendAsCheck
    <2>4. CASE RelayStore(q) \/ SendAsStore(q)
      <3>1. CASE job' = [job EXCEPT ![q].message = Len(messages) + 1,
                                    ![q].result = IF job[q].to = None
                                                  THEN "counterparty_not_bound_yet"
                                                  ELSE "relayed"]
        BY <3>1, <1>0, TypesOf DEF Job
      <3>2. QED
        BY <2>4, <3>1, <1>4 DEF RelayStore, SendAsStore, InsertMessage
    <2>5. CASE BindCollect(q)
      BY <2>5, <1>0, TypesOf DEF BindCollect, Job
    <2>6. CASE RelayReadSession(q)
      <3>1. job[q].op = "relay"
        BY <2>6 DEF IInv, JobInv, RelayJob, RelayReadSession, At
      <3>2. job'[q].op = job[q].op
        BY <2>6, <1>0, TypesOf DEF RelayReadSession, Job
      <3>3. QED
        BY <3>1, <3>2
    <2>7. CASE StopReadSession(q)
      BY <2>7, <1>0, TypesOf DEF StopReadSession, Job
    <2>8. CASE Reply(q)
      BY <2>8, TypesOf DEF Reply, Finish, NoJob
    <2>9. QED
      BY <1>5, <2>1, <2>2, <2>3, <2>4, <2>5, <2>6, <2>7, <2>8 DEF Progress
  <1>6. CASE Abort(q)
    BY <1>6, TypesOf DEF Abort, Finish, NoJob
  <1>7. CASE (\E k \in Keys : ViolationsExpire(k)) \/ Exhausted \/ UNCHANGED vars
    BY <1>7 DEF ViolationsExpire, Exhausted, vars
  <1>8. CASE Arrival(q)
    BY <1>1, <1>2, <1>8
  <1>9. QED
    BY <1>3, <1>5, <1>6, <1>7, <1>8 DEF Next

\* What NoBind establishes and every step keeps: the binds in flight, if any,
\* have seen the side as taken.
ClientSettled(s, u) ==
  /\ client[s] = u
  /\ \A p \in Handlers :
       job[p].op = "bind" /\ job[p].session = s /\ job[p].role = "client" =>
         job[p].client # None

ExecutorSettled(s, u) ==
  /\ executor[s] = u
  /\ \A p \in Handlers :
       job[p].op = "bind" /\ job[p].session = s /\ job[p].role = "executor" =>
         job[p].executor # None

LEMMA SettledStep ==
  ASSUME IInv, [Next]_vars, NEW s \in Sessions, NEW u \in Users
  PROVE  /\ ClientSettled(s, u) => ClientSettled(s, u)'
         /\ ExecutorSettled(s, u) => ExecutorSettled(s, u)'
  <1>1. u # None
    BY ConstantsAssumption
  <1>2. ASSUME ClientSettled(s, u) PROVE ClientSettled(s, u)'
    BY <1>1, <1>2, SidesKept, BindsKept DEF ClientSettled
  <1>3. ASSUME ExecutorSettled(s, u) PROVE ExecutorSettled(s, u)'
    BY <1>1, <1>3, SidesKept, BindsKept DEF ExecutorSettled
  <1>4. QED
    BY <1>2, <1>3

\* A side that is taken while nobody is binding to it keeps its user for good,
\* although the UPDATEs of SetClientUser and SetExecutorUser have no condition.
THEOREM RolesAreSettled == Spec => RolesSettle
  <1> SUFFICES ASSUME NEW s \in Sessions, NEW u \in Users
               PROVE  Spec => /\ [](client[s] = u /\ NoBind(s, "client") =>
                                     [](client[s] = u))
                              /\ [](executor[s] = u /\ NoBind(s, "executor") =>
                                     [](executor[s] = u))
    BY DEF RolesSettle
  <1>1. client[s] = u /\ NoBind(s, "client") => ClientSettled(s, u)
    BY DEF NoBind, ClientSettled
  <1>2. executor[s] = u /\ NoBind(s, "executor") => ExecutorSettled(s, u)
    BY DEF NoBind, ExecutorSettled
  <1>3. ClientSettled(s, u) => client[s] = u
    BY DEF ClientSettled
  <1>4. ExecutorSettled(s, u) => executor[s] = u
    BY DEF ExecutorSettled
  <1>5. IInv /\ [Next]_vars => /\ ClientSettled(s, u) => ClientSettled(s, u)'
                               /\ ExecutorSettled(s, u) => ExecutorSettled(s, u)'
    BY SettledStep
  <1>6. QED
    BY <1>1, <1>2, <1>3, <1>4, <1>5, InductiveInvariant, PTL DEF Spec

-----------------------------------------------------------------------------
(* A session waiting to be closed has a requester *)

PendingInv ==
  \A s \in Sessions : status[s] = "pending_close" =>
    \/ closeRequestedBy[s] # None
    \/ \E p \in Handlers : pc[p] = "stop_record" /\ job[p].session = s

\* Only StopUpdate makes a session wait, only StopRecord writes the requester.
LEMMA StatusKept ==
  ASSUME IInv, NEW p \in Handlers, Arrival(p) \/ Progress(p),
         ~StopUpdate(p), ~StopRecord(p)
  PROVE  /\ pc[p] # "stop_record"
         /\ UNCHANGED closeRequestedBy
         /\ \A s \in Sessions : status'[s] \in {status[s]} \cup PatchStatuses
  <1>1. CASE Arrival(p)
    BY <1>1 DEF Arrival, BindRead, RelayReadSender, SwitchRead, LangRead,
                StopRead, PatchRead, SendAsRead, Begin, sessionRows
  <1>2. CASE \/ BindUser(p) \/ BindCreate(p) \/ BindSetActive(p)
             \/ BindTakeRole(p) \/ BindCollect(p) \/ RelayReadSession(p)
             \/ RelayCheck(p) \/ RelayAlert(p) \/ RelayStore(p)
    BY <1>2 DEF BindUser, BindCreate, BindSetActive, BindTakeRole, BindCollect,
                RelayReadSession, RelayCheck, RelayAlert, RelayStore, At,
                sessionRows
  <1>3. CASE \/ SwitchCheck(p) \/ SwitchWrite(p) \/ LangWrite(p)
             \/ StopReadSession(p) \/ StopAlert(p) \/ SendAsCheck(p)
             \/ SendAsStore(p) \/ SendAsBot(p) \/ Reply(p)
    BY <1>3 DEF SwitchCheck, SwitchWrite, LangWrite, StopReadSession, StopAlert,
                SendAsCheck, SendAsStore, SendAsBot, Reply, At, sessionRows
  <1>4. CASE RelayPause(p)
    BY <1>4, TypesOf DEF RelayPause, Logged, UpdateStatus, PatchStatuses, At
  <1>5. CASE PatchWrite(p)
    <2>1. job[p].status \in PatchStatuses
      BY TypesOf DEF Job
    <2>2. QED
      BY <1>5, <2>1, TypesOf DEF PatchWrite, UpdateStatus, At
  <1>6. QED
    BY <1>1, <1>2, <1>3, <1>4, <1>5 DEF Progress

LEMMA PendingStep ==
  ASSUME ~Failures, IInv, PendingInv, [Next]_vars
  PROVE  PendingInv'
  <1>1. ASSUME NEW p \in Handlers, Arrival(p) \/ Progress(p),
               ~StopUpdate(p), ~StopRecord(p)
        PROVE  PendingInv'
    BY <1>1, StatusKept, OthersStay DEF PendingInv, PatchStatuses
  <1>2. ASSUME NEW p \in Handlers, StopUpdate(p)
        PROVE  PendingInv'
    <2>1. /\ pc[p] = "stop_update" /\ pc'[p] = "stop_record"
          /\ UNCHANGED <<job, closeRequestedBy>>
          /\ status' = [status EXCEPT ![job[p].session] = "pending_close"]
      BY <1>2, TypesOf DEF StopUpdate, UpdateStatus, At, Goto
    <2>2. \A q \in Handlers \ {p} : pc'[q] = pc[q]
      BY <1>2, OthersStay DEF Progress
    <2>3. \A q \in Handlers : pc[q] = "stop_record" => pc'[q] = "stop_record"
      BY <2>1, <2>2
    <2>4. \A s \in Sessions \ {job[p].session} : status'[s] = status[s]
      BY <2>1, TypesOf
    <2>5. QED
      BY <2>1, <2>3, <2>4 DEF PendingInv
  <1>3. ASSUME NEW p \in Handlers, StopRecord(p)
        PROVE  PendingInv'
    <2>1. /\ job[p].session \in Sessions /\ job[p].who \in Users
          /\ closeRequestedBy' =
               [closeRequestedBy EXCEPT ![job[p].session] = job[p].who]
          /\ UNCHANGED <<status, job>>
      BY <1>3 DEF StopRecord, Logged, At, IInv, JobInv, StopJob, StopSteps
    <2>2. \A q \in Handlers \ {p} : pc'[q] = pc[q]
      BY <1>3, OthersStay DEF Progress
    <2>3. closeRequestedBy'[job[p].session] # None
      BY <2>1, ConstantsAssumption DEF IInv, TypeOK
    <2>4. \A s \in Sessions \ {job[p].session} :
            closeRequestedBy'[s] = closeRequestedBy[s]
      BY <2>1 DEF IInv, TypeOK
    <2>5. QED
      BY <2>1, <2>2, <2>3, <2>4 DEF PendingInv
  <1>4. ASSUME NEW p \in Handlers, Abort(p) PROVE PendingInv'
    BY <1>4 DEF Abort
  <1>5. CASE (\E k \in Keys : ViolationsExpire(k)) \/ Exhausted \/ UNCHANGED vars
    BY <1>5 DEF PendingInv, ViolationsExpire, Exhausted, vars, sessionRows
  <1>6. QED
    BY <1>1, <1>2, <1>3, <1>4, <1>5 DEF Next

\* While no statement fails, a session in pending_close names the participant
\* who asked for it, but for the instant between UpdateStatus and
\* SetCloseRequestedBy, and that participant had opened the session's link.
THEOREM PendingCloseNamesRequester ==
  ASSUME ~Failures
  PROVE  Spec => []PendingCloseHasRequester
  <1>1. Init => PendingInv
    BY DEF Init, PendingInv
  <1>2. IInv /\ PendingInv /\ [Next]_vars => PendingInv'
    BY PendingStep
  <1>3. IInv /\ PendingInv => PendingCloseHasRequester
    BY DEF IInv, LinkedInv, PendingInv, PendingCloseHasRequester, At
  <1>4. QED
    BY <1>1, <1>2, <1>3, InductiveInvariant, PTL DEF Spec

-----------------------------------------------------------------------------
(* A closed session is reopened for a cause *)

\* Three statements write the status of a session.
LEMMA StatusStays ==
  ASSUME NEW p \in Handlers, Arrival(p) \/ Progress(p),
         ~RelayPause(p), ~StopUpdate(p), ~PatchWrite(p)
  PROVE  UNCHANGED status
  <1>1. CASE Arrival(p)
    BY <1>1 DEF Arrival, BindRead, RelayReadSender, SwitchRead, LangRead,
                StopRead, PatchRead, SendAsRead, sessionRows
  <1>2. CASE \/ BindUser(p) \/ BindCreate(p) \/ BindSetActive(p)
             \/ BindTakeRole(p) \/ BindCollect(p) \/ RelayReadSession(p)
             \/ RelayCheck(p) \/ RelayAlert(p) \/ RelayStore(p)
    BY <1>2 DEF BindUser, BindCreate, BindSetActive, BindTakeRole, BindCollect,
                RelayReadSession, RelayCheck, RelayAlert, RelayStore, At,
                sessionRows
  <1>3. CASE \/ SwitchCheck(p) \/ SwitchWrite(p) \/ LangWrite(p)
             \/ StopReadSession(p) \/ StopRecord(p) \/ StopAlert(p)
             \/ SendAsCheck(p) \/ SendAsStore(p) \/ SendAsBot(p) \/ Reply(p)
    BY <1>3 DEF SwitchCheck, SwitchWrite, LangWrite, StopReadSession, StopRecord,
                StopAlert, SendAsCheck, SendAsStore, SendAsBot, Reply, sessionRows
  <1>4. QED
    BY <1>1, <1>2, <1>3 DEF Progress

\* The request p takes session s up again.
TakesUp(p, s) ==
  /\ job[p].session = s /\ pc'[p] # pc[p]
  /\ \/ job[p].op = "patch"
     \/ job[p].op = "stop" /\ <<job[p].who, s>> \in linked
     \/ job[p].op = "relay" /\ s \in open[p]

LEMMA ReopeningStep ==
  ASSUME IInv, [Next]_vars,
         NEW s \in Sessions, status[s] = "closed", status'[s] # "closed"
  PROVE  \E p \in Handlers : TakesUp(p, s)
  <1>1. ASSUME NEW p \in Handlers, RelayPause(p) PROVE TakesUp(p, s)
    <2>1. /\ pc[p] = "relay_pause" /\ pc'[p] = "relay_alert"
          /\ status' = status \/ status' = [status EXCEPT ![job[p].session] = "paused"]
      BY <1>1, TypesOf DEF RelayPause, Logged, UpdateStatus, At, Goto
    <2>2. job[p].session = s
      BY <2>1, TypesOf
    <2>3. job[p].op = "relay" /\ job[p].session \in open[p]
      BY <2>1 DEF IInv, JobInv, RelayJob, ActiveJob, RelayChecked
    <2>4. QED
      BY <2>1, <2>2, <2>3 DEF TakesUp
  <1>2. ASSUME NEW p \in Handlers, StopUpdate(p) PROVE TakesUp(p, s)
    <2>1. /\ pc[p] = "stop_update" /\ pc'[p] = "stop_record"
          /\ status' = [status EXCEPT ![job[p].session] = "pending_close"]
      BY <1>2, TypesOf DEF StopUpdate, UpdateStatus, At, Goto
    <2>2. job[p].session = s
      BY <2>1, TypesOf
    <2>3. job[p].op = "stop" /\ <<job[p].who, job[p].session>> \in linked
      BY <2>1 DEF IInv, JobInv, StopJob, StopSteps
    <2>4. QED
      BY <2>1, <2>2, <2>3 DEF TakesUp
  <1>3. ASSUME NEW p \in Handlers, PatchWrite(p) PROVE TakesUp(p, s)
    <2>1. /\ pc[p] = "patch_write" /\ pc'[p] = "reply"
          /\ status' = [status EXCEPT ![job[p].session] = job[p].status]
      BY <1>3, TypesOf DEF PatchWrite, UpdateStatus, Answer, At, Goto
    <2>2. job[p].session = s
      BY <2>1, TypesOf
    <2>3. job[p].op = "patch"
      BY <2>1 DEF IInv, JobInv, OperatorJob
    <2>4. QED
      BY <2>1, <2>2, <2>3 DEF TakesUp
  <1>4. ASSUME NEW p \in Handlers, Abort(p) PROVE FALSE
    BY <1>4 DEF Abort, sessionRows
  <1>5. CASE (\E k \in Keys : ViolationsExpire(k)) \/ Exhausted \/ UNCHANGED vars
    BY <1>5 DEF ViolationsExpire, Exhausted, vars, sessionRows
  <1>6. QED
    BY <1>1, <1>2, <1>3, <1>4, <1>5, StatusStays DEF Next

\* A session an operator has closed comes back only by an operator, by the /stop
\* of somebody who had opened its link, or by the automatic pause for a message
\* that met it active.
THEOREM ClosedIsReopenedForCause == Spec => ReopenedForCause
  <1>1. IInv /\ [Next]_vars =>
          [\A s \in Sessions : status[s] = "closed" /\ status'[s] # "closed" =>
             \E p \in Handlers :
               /\ job[p].session = s /\ pc'[p] # pc[p]
               /\ \/ job[p].op = "patch"
                  \/ job[p].op = "stop" /\ <<job[p].who, s>> \in linked
                  \/ job[p].op = "relay" /\ s \in open[p]]_vars
    BY ReopeningStep DEF TakesUp
  <1>2. QED
    BY <1>1, InductiveInvariant, PTL DEF Spec, ReopenedForCause
================================================================================
