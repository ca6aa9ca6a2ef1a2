------------------------------- MODULE Retention -------------------------------
(***************************************************************************)
(* The retention jobs (backend/internal/retention, backend/cmd/retention): *)
(* PIIAnonymizer erases the personal data of the participants of sessions  *)
(* closed longer than PIIRetentionPeriod ago, then MessageCleaner deletes  *)
(* the messages and files of sessions closed longer than                   *)
(* MessageRetentionPeriod ago.  A job is a process of its own: it runs     *)
(* beside the API, beside another job started by hand, and may die between *)
(* any two statements.                                                     *)
(*                                                                         *)
(* Users are rows of the table users: somebody who writes again after his  *)
(* row was anonymised gets another row, which takes part in no session     *)
(* here.  Participants are bound from the start.                           *)
(***************************************************************************)
EXTENDS Integers, Sequences, FiniteSets, SequencesExt

CONSTANTS
  Users,                   \* rows of the table users
  NSessions,               \* sessions are numbered 1..NSessions
  ClientUserID,            \* [1..NSessions -> Users \cup {NULL}]
  ExecutorUserID,          \* [1..NSessions -> Users \cup {NULL}]
  NULL,
  MessageSession,          \* the session of each message: a sequence
  Media,                   \* the messages that have a file
  Jobs,                    \* processes that run /retention
  Scheduled,               \* those of Jobs the cron loop starts, never with -dry-run
  Speakers,                \* users who may change their language
  Unreadable,              \* users whose columns do not decrypt
  PIIRetentionPeriod, MessageRetentionPeriod,
  MaxTime,                 \* bound on the clock
  MaxChanges,              \* bound on the operators' changes of status
  MaxFailures,             \* bound on the statements and removals that fail
  MaxKills                 \* bound on the deaths of a job

Sessions == 1..NSessions
Messages == DOMAIN MessageSession

ASSUME RetentionAssumption ==
  /\ NSessions \in Nat /\ NULL \notin Users
  /\ ClientUserID \in [Sessions -> Users \cup {NULL}]
  /\ ExecutorUserID \in [Sessions -> Users \cup {NULL}]
  /\ MessageSession \in Seq(Sessions) /\ Media \subseteq Messages
  /\ Scheduled \subseteq Jobs
  /\ Speakers \subseteq Users /\ Unreadable \subseteq Users
  /\ PIIRetentionPeriod \in Nat \ {0} /\ MessageRetentionPeriod \in Nat \ {0}
  /\ MaxTime \in Nat /\ MaxChanges \in Nat
  /\ MaxFailures \in Nat /\ MaxKills \in Nat

VARIABLES
  now,         \* the clock
  status,      \* sessions.status
  closedAt,    \* sessions.closed_at, 0 for NULL
  anonymous,   \* users whose telegram_id is negative
  named,       \* users whose username and first_name are not NULL
  reader,      \* language requests between their two statements
  writing,     \* messages whose request has read an active session
  message,     \* rows of the table messages: "none", "stored" or "deleted"
  files,       \* media files on disk
  job,         \* what each job is doing
  changes, failures, kills,  \* counters for the bounds
  overtaken,   \* history: users anonymised between the two statements of a
               \* language request
  unremoved,   \* history: files whose removal by a job failed
  piiDue,      \* history: sessions that were once due for anonymisation
  messagesDue  \* history: sessions whose messages were once due

sessionVars == <<status, closedAt>>
userVars    == <<anonymous, named, reader, overtaken>>
messageVars == <<writing, message, files, unremoved>>
dueVars     == <<piiDue, messagesDue>>
vars == <<now, sessionVars, userVars, messageVars, job,
          changes, failures, kills, dueVars>>

(***************************************************************************)
(* A job goes from one statement to the next: pc names the one ahead.      *)
(* work and messages are the lists it read, i the entry it is at; dryRun   *)
(* is its argument, errors says that it collected an error.                *)
(***************************************************************************)
Steps == {"start", "ListClosedBefore", "GetByID", "AnonymizeUser", "Hash",
          "ListForDeletion", "Remove", "DeleteByIDs", "exit", "failed"}
Idle == [pc |-> "start", work |-> <<>>, messages |-> <<>>, i |-> 1,
         dryRun |-> FALSE, errors |-> FALSE]

TypeOK ==
  /\ now \in 1..(MaxTime + 1)
  /\ status \in [Sessions -> {"active", "paused", "closed"}]
  /\ closedAt \in [Sessions -> 0..MaxTime + 1]
  /\ anonymous \subseteq Users /\ named \subseteq Users /\ reader \subseteq Speakers
  /\ overtaken \subseteq Users /\ writing \subseteq Messages
  /\ message \in [Messages -> {"none", "stored", "deleted"}] /\ files \subseteq Media
  /\ unremoved \subseteq Media
  /\ job \in [Jobs -> [pc : Steps, work : Seq(Sessions \X {1, 2}), messages : Seq(Messages),
                       i : Nat \ {0}, dryRun : BOOLEAN, errors : BOOLEAN]]
  /\ changes \in 0..MaxChanges /\ failures \in 0..MaxFailures /\ kills \in 0..MaxKills
  /\ piiDue \subseteq Sessions /\ messagesDue \subseteq Sessions

Init ==
  /\ now = 1
  /\ status = [s \in Sessions |-> "active"]
  /\ closedAt = [s \in Sessions |-> 0]
  /\ anonymous = {} /\ named = Users /\ reader = {} /\ overtaken = {}
  /\ writing = {} /\ message = [m \in Messages |-> "none"] /\ files = {} /\ unremoved = {}
  /\ job = [j \in Jobs |-> Idle]
  /\ changes = 0 /\ failures = 0 /\ kills = 0
  /\ piiDue = {} /\ messagesDue = {}

ClosedBeforeAnyStatus(threshold) ==  \* mutant
  {s \in Sessions : closedAt[s] # 0 /\ closedAt[s] < threshold}

(***************************************************************************)
(* What the two queries select.                                            *)
(***************************************************************************)
ClosedBefore(threshold) ==
  {s \in Sessions : status[s] = "closed" /\ closedAt[s] # 0 /\ closedAt[s] < threshold}
ForDeletion(threshold) ==
  {m \in Messages : message[m] = "stored" /\ MessageSession[m] \in ClosedBefore(threshold)}

(* The entries of a job: <<s, 1>> is the client of session s, <<s, 2>> its
   executor. *)
UserOf(entry) == <<ClientUserID, ExecutorUserID>>[entry[2]][entry[1]]
collectParticipantIDs(s) == {entry \in {s} \X {1, 2} : UserOf(entry) # NULL}
Participants(s) == {ClientUserID[s], ExecutorUserID[s]} \ {NULL}

ClosedEarlier(s, t) ==
  closedAt[s] < closedAt[t] \/ (closedAt[s] = closedAt[t] /\ s < t)
HandledEarlier(e, f) ==
  ClosedEarlier(e[1], f[1]) \/ (e[1] = f[1] /\ e[2] < f[2])
Entries(S) == UNION {collectParticipantIDs(s) : s \in S}
ByClosing(S) ==
  {list \in [1..Cardinality(Entries(S)) -> Entries(S)] : IsSorted(list, HandledEarlier)}
ByID(ids) == {list \in [1..Cardinality(ids) -> ids] : IsSorted(list, <)}

(***************************************************************************)
(* The rest of the system.                                                 *)
(***************************************************************************)
(* For the history variables and the properties: at time t the session is
   closed and has been for longer than the period. *)
ClosedFor(s, period, t) == status[s] = "closed" /\ t - closedAt[s] > period

Tick ==
  /\ now <= MaxTime
  /\ now' = now + 1
  /\ piiDue' = piiDue \cup {s \in Sessions : ClosedFor(s, PIIRetentionPeriod, now + 1)}
  /\ messagesDue' = messagesDue \cup
                     {s \in Sessions : ClosedFor(s, MessageRetentionPeriod, now + 1)}
  /\ UNCHANGED <<sessionVars, userVars, messageVars, job, changes, failures, kills>>

(* Only closing touches closed_at: it is set again when a closed session is
   closed once more, and kept when it is reopened. *)
UpdateStatus(s, newStatus) ==
  /\ changes < MaxChanges
  /\ changes' = changes + 1
  /\ status' = [status EXCEPT ![s] = newStatus]
  /\ closedAt' = IF newStatus = "closed" THEN [closedAt EXCEPT ![s] = now] ELSE closedAt
  /\ UNCHANGED <<now, userVars, messageVars, job, failures, kills, dueVars>>

(* The request of a participant, or of an operator in the place of one, finds
   the session active ... *)
ReadSession(m) ==
  /\ message[m] = "none" /\ m \notin writing
  /\ status[MessageSession[m]] = "active"
  /\ Participants(MessageSession[m]) \ (IF m \in Media THEN anonymous ELSE {}) # {}
  /\ writing' = writing \cup {m}
  /\ UNCHANGED <<now, sessionVars, userVars, message, files, unremoved, job,
                 changes, failures, kills, dueVars>>
(* ... and stores its message later, whatever became of the session; its file is
   on disk already. *)
StoreMessage(m) ==
  /\ m \in writing
  /\ writing' = writing \ {m}
  /\ message' = [message EXCEPT ![m] = "stored"]
  /\ files' = files \cup ({m} \cap Media)
  /\ UNCHANGED <<unremoved, now, sessionVars, userVars, job, changes, failures, kills, dueVars>>

(* The bot removes a file it has delivered. *)
FileDelivered(m) ==
  /\ m \in files
  /\ files' = files \ {m}
  /\ UNCHANGED <<now, sessionVars, userVars, writing, message, unremoved, job,
                 changes, failures, kills, dueVars>>

(* handleUpdateUserLanguage reads the row by its telegram id ... *)
LanguageRead(u) ==
  /\ u \in Speakers \ (anonymous \cup reader \cup Unreadable)
  /\ reader' = reader \cup {u}
  /\ UNCHANGED <<now, sessionVars, anonymous, named, overtaken, messageVars, job,
                 changes, failures, kills, dueVars>>
(* ... and writes every column but telegram_id back. *)
LanguageWrite(u) ==
  /\ u \in reader
  /\ reader' = reader \ {u}
  /\ named' = named \cup {u}
  /\ UNCHANGED <<now, sessionVars, anonymous, overtaken, messageVars, job,
                 changes, failures, kills, dueVars>>

(***************************************************************************)
(* PIIAnonymizer.Run.                                                      *)
(***************************************************************************)
At(j, pc) == job[j].pc = pc
Goto(j, pc) == job' = [job EXCEPT ![j].pc = pc]
isDryRun(j) == job[j].dryRun

(* A statement, or the removal of a file, may fail: a lost connection, the
   ten minutes of main.go gone by, a file the process may not remove. *)
Fails == failures < MaxFailures /\ failures' = failures + 1
Works == UNCHANGED failures

(* The cron loop starts the job every day and after every exit: sh -e ends the
   loop when the job fails and the container is restarted.  Another job is
   started by hand, as a dry run or not. *)
Start(j) ==
  /\ At(j, "start")
  /\ \E dryRun \in IF j \in Scheduled THEN {FALSE} ELSE BOOLEAN :
       job' = [job EXCEPT ![j].pc = "ListClosedBefore", ![j].dryRun = dryRun]
  /\ UNCHANGED <<now, sessionVars, userVars, messageVars, changes, failures, kills, dueVars>>

ListClosedBefore(j) ==
  /\ At(j, "ListClosedBefore")
  /\ \/ /\ Works
        /\ \E list \in ByClosing(ClosedBefore(now - PIIRetentionPeriod)) :
             job' = [job EXCEPT ![j].pc = "GetByID", ![j].work = list]
     \/ Fails /\ Goto(j, "failed")
  /\ UNCHANGED <<now, sessionVars, userVars, messageVars, changes, kills, dueVars>>

NextParticipantTypo(j, error) ==  \* mutant
  job' = [job EXCEPT ![j].pc = "GetByID", ![j].i = @ - 1, ![j].errors = @ \/ error]

NextParticipantOrGiveUp(j, error) ==  \* mutant
  job' = [job EXCEPT ![j].pc = IF error THEN "failed" ELSE "GetByID", ![j].i = @ + 1,
                     ![j].errors = @ \/ error]

(* Go on with the next participant, having collected an error or not. *)
NextParticipant(j, error) ==
  job' = [job EXCEPT ![j].pc = "GetByID", ![j].i = @ + 1,
                     ![j].errors = job[j].errors \/ error]

GetByID(j) ==
  /\ At(j, "GetByID") /\ job[j].i <= Len(job[j].work)
  /\ LET u == UserOf(job[j].work[job[j].i]) IN
     \/ Fails /\ NextParticipant(j, TRUE)
     \/ u \in Unreadable \cap named /\ Works /\ NextParticipant(j, TRUE)
     \/ /\ u \notin Unreadable \cap named /\ Works
        /\ IF u \in anonymous \/ isDryRun(j)
           THEN NextParticipant(j, FALSE)
           ELSE Goto(j, "AnonymizeUser")
  /\ UNCHANGED <<now, sessionVars, userVars, messageVars, changes, kills, dueVars>>

AnonymizeUserKeepsNames(j) ==  \* mutant
  /\ At(j, "AnonymizeUser")
  /\ LET u == UserOf(job[j].work[job[j].i]) IN
     /\ anonymous' = anonymous \cup {u} /\ overtaken' = overtaken \cup (reader \cap {u})
     /\ Goto(j, "Hash")
  /\ UNCHANGED <<now, sessionVars, named, reader, messageVars, changes, failures, kills, dueVars>>

AnonymizeUser(j) ==
  /\ At(j, "AnonymizeUser")
  /\ LET u == UserOf(job[j].work[job[j].i]) IN
     \/ /\ Works
        /\ anonymous' = anonymous \cup {u} /\ named' = named \ {u}
        /\ overtaken' = overtaken \cup (reader \cap {u})
        /\ Goto(j, "Hash")
     \/ /\ Fails
        /\ NextParticipant(j, TRUE)
        /\ UNCHANGED <<anonymous, named, overtaken>>
  /\ UNCHANGED <<now, sessionVars, reader, messageVars, changes, kills, dueVars>>

(* HashPIIForUser and the audit entry: no payload the program writes has one
   of the fields that are hashed, so all that matters is that an error here
   is logged and forgotten. *)
Hash(j) ==
  /\ At(j, "Hash")
  /\ Works \/ Fails
  /\ NextParticipant(j, FALSE)
  /\ UNCHANGED <<now, sessionVars, userVars, messageVars, changes, kills, dueVars>>

(***************************************************************************)
(* MessageCleaner.Run.                                                     *)
(***************************************************************************)
NoMoreParticipants(j) ==
  /\ At(j, "GetByID") /\ job[j].i > Len(job[j].work)
  /\ Goto(j, "ListForDeletion")
  /\ UNCHANGED <<now, sessionVars, userVars, messageVars, changes, failures, kills, dueVars>>

ListForDeletionReturning(j) ==  \* mutant
  /\ At(j, "ListForDeletion")
  /\ LET ids == ForDeletion(now - MessageRetentionPeriod) IN
     /\ \E list \in ByID(ids) :
          job' = [job EXCEPT ![j].pc = "Remove", ![j].i = 1, ![j].messages = list]
     /\ message' = [m \in Messages |-> IF m \in ids THEN "deleted" ELSE message[m]]
  /\ UNCHANGED <<now, sessionVars, userVars, writing, files, unremoved,
                 changes, failures, kills, dueVars>>

ListForDeletion(j) ==
  /\ At(j, "ListForDeletion")
  /\ \/ /\ Works
        /\ \E list \in ByID(ForDeletion(now - MessageRetentionPeriod)) :
             job' = [job EXCEPT ![j].pc = "Remove", ![j].i = 1, ![j].messages = list]
     \/ Fails /\ Goto(j, "failed")
  /\ UNCHANGED <<now, sessionVars, userVars, messageVars, changes, kills, dueVars>>

(* deleteMediaFile; a file that is not there is no error, and a file that
   could not be removed does not keep its message. *)
deleteMediaFile(j) ==
  /\ At(j, "Remove") /\ job[j].i <= Len(job[j].messages)
  /\ LET m == job[j].messages[job[j].i] IN
     \/ /\ Works
        /\ files' = IF isDryRun(j) THEN files ELSE files \ {m}
        /\ job' = [job EXCEPT ![j].i = @ + 1]
        /\ UNCHANGED unremoved
     \/ /\ m \in Media /\ ~isDryRun(j) /\ Fails
        /\ UNCHANGED files
        /\ unremoved' = unremoved \cup {m}
        /\ job' = [job EXCEPT ![j].i = @ + 1, ![j].errors = TRUE]
  /\ UNCHANGED <<now, sessionVars, userVars, writing, message, changes, kills, dueVars>>

NoMoreMessages(j) ==
  /\ At(j, "Remove") /\ job[j].i > Len(job[j].messages)
  /\ Goto(j, IF isDryRun(j) \/ job[j].messages = <<>> THEN "exit" ELSE "DeleteByIDs")
  /\ UNCHANGED <<now, sessionVars, userVars, messageVars, changes, failures, kills, dueVars>>

DeleteByIDs(j) ==
  /\ At(j, "DeleteByIDs")
  /\ \/ /\ Works
        /\ message' = [m \in Messages |->
                         IF m \in ToSet(job[j].messages) THEN "deleted" ELSE message[m]]
        /\ Goto(j, "exit")
     \/ /\ Fails
        /\ Goto(j, "failed")
        /\ UNCHANGED message
  /\ UNCHANGED <<now, sessionVars, userVars, writing, files, unremoved, changes, kills, dueVars>>

(* The process ends, with status 1 when it gave up or collected an error. *)
ExitCode(j) == IF At(j, "failed") \/ job[j].errors THEN 1 ELSE 0
Ended(j) == At(j, "exit") \/ At(j, "failed")
Exit(j) ==
  /\ Ended(j)
  /\ job' = [job EXCEPT ![j] = Idle]
  /\ UNCHANGED <<now, sessionVars, userVars, messageVars, changes, failures, kills, dueVars>>

Kill(j) ==
  /\ ~At(j, "start") /\ ~Ended(j)
  /\ kills < MaxKills
  /\ kills' = kills + 1
  /\ job' = [job EXCEPT ![j] = Idle]
  /\ UNCHANGED <<now, sessionVars, userVars, messageVars, changes, failures, dueVars>>

(***************************************************************************)
(* The specification.                                                      *)
(***************************************************************************)
Step(j) ==
  \/ Start(j) \/ ListClosedBefore(j) \/ GetByID(j) \/ AnonymizeUser(j) \/ Hash(j)
  \/ NoMoreParticipants(j) \/ ListForDeletion(j) \/ deleteMediaFile(j) \/ NoMoreMessages(j)
  \/ DeleteByIDs(j) \/ Exit(j)

Next ==
  \/ \E j \in Jobs : Step(j) \/ Kill(j)
  \/ Tick
  \/ \E s \in Sessions, st \in {"active", "paused", "closed"} : UpdateStatus(s, st)
  \/ \E m \in Messages : ReadSession(m) \/ StoreMessage(m) \/ FileDelivered(m)
  \/ \E u \in Users : LanguageRead(u) \/ LanguageWrite(u)

Spec == Init /\ [][Next]_vars

(* Time passes, and the scheduled job is started again and again and goes on;
   nobody has to write, to close anything or to start a job by hand. *)
FairSpec == Spec /\ WF_vars(Tick) /\ \A j \in Scheduled : WF_vars(Step(j))

(***************************************************************************)
(* Properties.                                                             *)
(***************************************************************************)

(* Nobody is anonymised who took part in no session that stayed closed for
   the whole period, and no message is deleted of a session that did not,
   however often operators reopen and close in between: closed_at outlives a
   reopening and only the status in the queries keeps such sessions out. *)
OnlyDueIsErased ==
  /\ \A u \in anonymous : \E s \in piiDue : u \in Participants(s)
  /\ \A m \in Messages : message[m] = "deleted" => MessageSession[m] \in messagesDue

(* A user is erased when no telegram id leads to him and his names are gone.
   They come back only if a language request had read his row before it was
   anonymised and writes it afterwards, all columns of it but telegram_id. *)
Erased(u) == u \in anonymous /\ (u \in named => u \in overtaken)

(* A job that exits with 0 has done all it found: everybody it listed is erased,
   every message it listed is gone and so is its file, whatever another job did
   to them at the same time (RETENTION.md: errors end the process with 1).  An
   error of the hashing of the audit log does not end it with 1, and is none of
   what is promised here. *)
CleanExitMeansDone ==
  \A j \in Jobs : ~isDryRun(j) /\ Ended(j) /\ ExitCode(j) = 0 =>
    /\ \A entry \in ToSet(job[j].work) : Erased(UserOf(entry))
    /\ \A m \in ToSet(job[j].messages) : message[m] = "deleted" /\ m \notin files

(* A deleted message leaves no file, though the job may die between the
   removal of the files and the deletion of the rows, unless a removal failed:
   then no row leads to the file any more. *)
DeletedLeavesNoFile ==
  \A m \in Messages : message[m] = "deleted" => m \notin files \/ m \in unremoved

(* A session that stays closed long enough has its participants erased for good,
   but for the rows that cannot be read and the names that a language request
   brings back, and its messages deleted, those included that were stored after
   it was closed: the failures of one run are made good by a later one, and one
   row that always fails holds up none of the others. *)
Overdue(s, period) == ClosedFor(s, period, now)
RetentionHappens ==
  \A s \in Sessions :
    /\ \A u \in Participants(s) \ Unreadable :
         <>[]Overdue(s, PIIRetentionPeriod) => <>[]Erased(u)
    /\ \A m \in Messages : MessageSession[m] = s =>
         (<>[]Overdue(s, MessageRetentionPeriod) => <>[](message[m] # "stored"))
=============================================================================
