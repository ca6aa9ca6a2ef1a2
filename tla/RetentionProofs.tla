---------------------------- MODULE RetentionProofs ----------------------------
(***************************************************************************)
(* Retention, proved for any sessions, messages, jobs and bounds: whatever *)
(* runs beside it, fails or dies, a job erases only what was due, leaves   *)
(* no file behind a row it deletes, and exits with 0 only when everything  *)
(* it listed is erased, but for names that a language request, overtaken   *)
(* by it, writes back.                                                     *)
(***************************************************************************)
EXTENDS Retention, FiniteSetTheorems, SequenceTheorems, TLAPS

(***************************************************************************)
(* The inductive invariant.  What is closed long enough has been recorded  *)
(* as due by the clock, which alone makes it so; what a job has listed was *)
(* due and, for messages, is not to be stored again; and what lies behind  *)
(* a job's cursor is done, or an error says why not.                       *)
(***************************************************************************)
DueIsRecorded ==
  \A s \in Sessions :
    /\ ClosedFor(s, PIIRetentionPeriod, now) => s \in piiDue
    /\ ClosedFor(s, MessageRetentionPeriod, now) => s \in messagesDue

ListedWasDue(j) ==
  /\ \A k \in DOMAIN job[j].work :
       UserOf(job[j].work[k]) \in Users /\ job[j].work[k][1] \in piiDue
  /\ \A k \in DOMAIN job[j].messages :
       /\ MessageSession[job[j].messages[k]] \in messagesDue
       /\ message[job[j].messages[k]] # "none"

(* The entries a job is through with, by the statement ahead. *)
BehindWork(j, k) ==
  \/ job[j].pc \in {"GetByID", "AnonymizeUser"} /\ k < job[j].i
  \/ job[j].pc = "Hash" /\ k <= job[j].i
  \/ job[j].pc \in {"ListForDeletion", "Remove", "DeleteByIDs", "exit"}
BehindMessages(j, k) ==
  \/ job[j].pc = "Remove" /\ k < job[j].i
  \/ job[j].pc = "DeleteByIDs"
  \/ job[j].pc = "exit"

WorkIsDone(j) ==
  /\ job[j].pc \in {"start", "ListClosedBefore"} => job[j].i = 1
  /\ job[j].pc \in {"AnonymizeUser", "Hash"} => job[j].i <= Len(job[j].work)
  /\ ~isDryRun(j) /\ ~job[j].errors =>
       \A k \in DOMAIN job[j].work :
         BehindWork(j, k) => UserOf(job[j].work[k]) \in anonymous

RemovalIsDone(j) ==
  /\ job[j].pc = "DeleteByIDs" => ~isDryRun(j)
  /\ ~isDryRun(j) =>
       \A k \in DOMAIN job[j].messages :
         LET m == job[j].messages[k] IN
         /\ BehindMessages(j, k) =>
              m \notin files \/ (job[j].errors /\ m \in unremoved)
         /\ job[j].pc = "exit" => message[m] = "deleted"

JobInv(j) == ListedWasDue(j) /\ WorkIsDone(j) /\ RemovalIsDone(j)

(* Names outlive their user's telegram id, or are about to come back, only by a
   request that read his row before. *)
NamesAreErased == \A u \in anonymous : u \in named \cup reader => u \in overtaken

(* A message is stored once. *)
NotYetStored == \A m \in writing : message[m] = "none"

IInv ==
  /\ TypeOK /\ NamesAreErased /\ NotYetStored /\ DueIsRecorded /\ OnlyDueIsErased /\ DeletedLeavesNoFile
  /\ \A j \in Jobs : JobInv(j)

-------------------------------------------------------------------------------
(* What no step takes back: who was due stays recorded, who is erased stays
   erased, and no file returns to a message that has been stored. *)
Onward ==
  /\ piiDue \subseteq piiDue' /\ messagesDue \subseteq messagesDue'
  /\ anonymous \subseteq anonymous' /\ unremoved \subseteq unremoved'
  /\ \A m \in Messages : message[m] # "none" =>
       message'[m] # "none" /\ (m \in files' => m \in files)
  /\ \A m \in Messages : message[m] = "deleted" => message'[m] = "deleted"

(* A job that does not step keeps its part of the invariant. *)
LEMMA SameJob ==
  ASSUME TypeOK, NEW q \in Jobs, JobInv(q), Onward, job'[q] = job[q]
  PROVE  JobInv(q)'
<1>1. /\ job[q].work \in Seq(Sessions \X {1, 2}) /\ job[q].messages \in Seq(Messages)
      /\ DOMAIN job[q].messages = 1..Len(job[q].messages)
      /\ \A k \in DOMAIN job[q].messages : job[q].messages[k] \in Messages
  BY DEF TypeOK
<1>2. ListedWasDue(q)'
  BY <1>1 DEF JobInv, ListedWasDue, Onward
<1>3. WorkIsDone(q)'
  BY <1>1 DEF JobInv, WorkIsDone, BehindWork, Onward, isDryRun
<1>4. RemovalIsDone(q)'
  BY <1>1 DEF JobInv, ListedWasDue, RemovalIsDone, BehindMessages, Onward, isDryRun
<1> QED  BY <1>2, <1>3, <1>4 DEF JobInv

(* The lists. *)
LEMMA EntriesOf ==
  ASSUME NEW S \in SUBSET Sessions
  PROVE  /\ Entries(S) \subseteq Sessions \X {1, 2}
         /\ \A entry \in Entries(S) : entry[1] \in S /\ UserOf(entry) \in Users
         /\ IsFiniteSet(Entries(S)) /\ Cardinality(Entries(S)) \in Nat
<1>1. ASSUME NEW entry \in Entries(S)
      PROVE  entry \in Sessions \X {1, 2} /\ entry[1] \in S /\ UserOf(entry) \in Users
  <2>1. PICK s \in S : entry \in {s} \X {1, 2} /\ UserOf(entry) # NULL
    BY DEF Entries, collectParticipantIDs
  <2>2. entry[1] = s /\ entry[2] \in {1, 2} /\ entry \in Sessions \X {1, 2}
    BY <2>1
  <2>3. UserOf(entry) = ClientUserID[s] \/ UserOf(entry) = ExecutorUserID[s]
    BY <2>2 DEF UserOf
  <2> QED  BY <2>1, <2>2, <2>3, RetentionAssumption
<1>2. IsFiniteSet(Sessions) /\ IsFiniteSet({1, 2})
  <2>1. IsFiniteSet(1..NSessions) /\ IsFiniteSet(1..2)
    <3>1. NSessions \in Int /\ 1 \in Int /\ 2 \in Int
      BY RetentionAssumption
    <3> QED  BY <3>1, FS_Interval
  <2>2. {1, 2} = 1..2
    OBVIOUS
  <2> QED  BY <2>1, <2>2 DEF Sessions
<1>3. IsFiniteSet(Sessions \X {1, 2})
  BY <1>2, FS_Product
<1>4. Entries(S) \subseteq Sessions \X {1, 2}
  BY <1>1
<1>5. IsFiniteSet(Entries(S)) /\ Cardinality(Entries(S)) \in Nat
  BY <1>3, <1>4, FS_Subset, FS_CardinalityType
<1> QED  BY <1>1, <1>4, <1>5

LEMMA MessagesFinite ==
  ASSUME NEW ids \in SUBSET Messages
  PROVE  IsFiniteSet(ids) /\ Cardinality(ids) \in Nat
<1>1. Messages = 1..Len(MessageSession) /\ Len(MessageSession) \in Nat
  BY RetentionAssumption DEF Messages
<1>2. IsFiniteSet(1..Len(MessageSession))
  BY <1>1, FS_Interval
<1> QED  BY <1>1, <1>2, FS_Subset, FS_CardinalityType

(* A listing contains all that was due, so that a job which is through with
   its list is through with what was due. *)
LEMMA ListIsComplete ==
  ASSUME NEW S, IsFiniteSet(S), NEW list \in [1..Cardinality(S) -> S],
         \A k, l \in 1..Cardinality(S) : k # l => list[k] # list[l]
  PROVE  ToSet(list) = S
<1>1. Cardinality(S) \in Nat
  BY FS_CardinalityType
<1>2. IsFiniteSet(1..Cardinality(S)) /\ Cardinality(1..Cardinality(S)) = Cardinality(S)
  BY <1>1, FS_Interval
<1>3. list \in Injection(1..Cardinality(S), S)
  BY DEF Injection, IsInjective
<1>4. list \in Surjection(1..Cardinality(S), S)
  BY <1>2, <1>3, FS_Injection
<1> QED  BY <1>4 DEF Surjection, ToSet

(* closed_at orders the sessions strictly where it is a number, and the sides
   of a session follow each other, so no entry is listed twice. *)
LEMMA ByClosingIsComplete ==
  ASSUME TypeOK, NEW S \in SUBSET Sessions, NEW list \in ByClosing(S)
  PROVE  list \in Seq(Sessions \X {1, 2}) /\ ToSet(list) = Entries(S)
<1>1. list \in [1..Cardinality(Entries(S)) -> Entries(S)]
  BY DEF ByClosing
<1>2. Cardinality(Entries(S)) \in Nat /\ Entries(S) \subseteq Sessions \X {1, 2}
  BY EntriesOf
<1>3. \A k, l \in 1..Len(list) : k < l => HandledEarlier(list[k], list[l])
  BY DEF ByClosing, IsSorted
<1>4. Len(list) = Cardinality(Entries(S)) /\ list \in Seq(Sessions \X {1, 2})
  BY <1>1, <1>2
<1>5. \A e \in Sessions \X {1, 2} : ~HandledEarlier(e, e)
  BY RetentionAssumption DEF TypeOK, Sessions, HandledEarlier, ClosedEarlier
<1>6. ASSUME NEW k \in 1..Len(list), NEW l \in 1..Len(list), k # l
      PROVE  list[k] # list[l]
  <2>1. k < l \/ l < k
    BY <1>2, <1>4, <1>6
  <2> QED  BY <1>1, <1>2, <1>3, <1>4, <1>5, <2>1
<1> QED  BY <1>1, <1>4, <1>6, EntriesOf, ListIsComplete

LEMMA ByIDIsComplete ==
  ASSUME NEW ids \in SUBSET Messages, NEW list \in ByID(ids)
  PROVE  list \in Seq(ids) /\ ToSet(list) = ids
<1>1. list \in [1..Cardinality(ids) -> ids] /\ Cardinality(ids) \in Nat
  BY MessagesFinite DEF ByID
<1>2. \A k, l \in 1..Len(list) : k < l => list[k] < list[l]
  BY DEF ByID, IsSorted
<1>3. Len(list) = Cardinality(ids) /\ list \in Seq(ids)
  BY <1>1
<1>4. \A m \in ids : m \in Int
  BY RetentionAssumption DEF Messages
<1>5. ASSUME NEW k \in 1..Len(list), NEW l \in 1..Len(list), k # l
      PROVE  list[k] # list[l]
  <2>1. k < l \/ l < k
    BY <1>1, <1>3, <1>5
  <2> QED  BY <1>1, <1>2, <1>3, <1>4, <2>1
<1> QED  BY <1>1, <1>3, <1>5, MessagesFinite, ListIsComplete

-------------------------------------------------------------------------------
(***************************************************************************)
(* The steps of a job, each with the invariant of the job itself.          *)
(***************************************************************************)
JobStates == [pc : Steps, work : Seq(Sessions \X {1, 2}), messages : Seq(Messages),
              i : Nat \ {0}, dryRun : BOOLEAN, errors : BOOLEAN]

(* Only job j moves, and what it does not write it keeps. *)
Moves(j, pc, i, errors) ==
  /\ job' \in [Jobs -> JobStates]
  /\ \A q \in Jobs : q # j => job'[q] = job[q]
  /\ job'[j].pc = pc /\ job'[j].i = i /\ job'[j].errors = errors
  /\ job'[j].dryRun = job[j].dryRun
Keeps(j) == job'[j].work = job[j].work /\ job'[j].messages = job[j].messages

LEMMA GotoMoves ==
  ASSUME TypeOK, NEW j \in Jobs, NEW pc \in Steps, Goto(j, pc)
  PROVE  Moves(j, pc, job[j].i, job[j].errors) /\ Keeps(j)
BY DEF TypeOK, Goto, Moves, Keeps, JobStates

LEMMA JobTypes ==
  ASSUME TypeOK, NEW j \in Jobs
  PROVE  /\ job \in [Jobs -> JobStates] /\ job[j] \in JobStates
         /\ job[j].work \in Seq(Sessions \X {1, 2}) /\ job[j].messages \in Seq(Messages)
         /\ DOMAIN job[j].work = 1..Len(job[j].work)
         /\ DOMAIN job[j].messages = 1..Len(job[j].messages)
         /\ \A k \in DOMAIN job[j].messages : job[j].messages[k] \in Messages
         /\ job[j].i \in Nat \ {0} /\ job[j].errors \in BOOLEAN
         /\ job[j].dryRun \in BOOLEAN
         /\ Len(job[j].work) \in Nat /\ Len(job[j].messages) \in Nat
BY DEF TypeOK, JobStates

LEMMA NextParticipantMoves ==
  ASSUME TypeOK, NEW j \in Jobs, NEW error \in BOOLEAN, NextParticipant(j, error)
  PROVE  /\ Moves(j, "GetByID", job[j].i + 1, job'[j].errors) /\ Keeps(j)
         /\ job'[j].errors = (job[j].errors \/ error)
<1> DEFINE e == job[j].errors \/ error
<1>1. e \in BOOLEAN
  OBVIOUS
<1>2. job' = [job EXCEPT ![j].pc = "GetByID", ![j].i = @ + 1, ![j].errors = e]
  BY DEF NextParticipant
<1> HIDE DEF e
<1>3. Moves(j, "GetByID", job[j].i + 1, e) /\ Keeps(j)
  <2>1. job[j] \in JobStates /\ job \in [Jobs -> JobStates] /\ job[j].i + 1 \in Nat \ {0}
    BY JobTypes
  <2> DEFINE r == [[[job[j] EXCEPT !.pc = "GetByID"] EXCEPT !.i = job[j].i + 1] EXCEPT !.errors = e]
  <2>2. job' = [job EXCEPT ![j] = r]
    BY <1>2, <2>1 DEF JobStates
  <2>3. r \in JobStates
    BY <1>1, <2>1 DEF JobStates, Steps
  <2>4. /\ r.pc = "GetByID" /\ r.i = job[j].i + 1 /\ r.errors = e /\ r.dryRun = job[j].dryRun
        /\ r.work = job[j].work /\ r.messages = job[j].messages
    BY <2>1 DEF JobStates
  <2> HIDE DEF r
  <2>5. job' \in [Jobs -> JobStates] /\ job'[j] = r /\ \A q \in Jobs : q # j => job'[q] = job[q]
    BY <2>1, <2>2, <2>3
  <2> QED  BY <2>4, <2>5 DEF Moves, Keeps
<1>4. job'[j].errors = e
  BY <1>3 DEF Moves
<1> QED  BY <1>3, <1>4, Zenon DEF Moves, e

(* Whoever moves with the lists kept has them still due. *)
LEMMA KeepsListed ==
  ASSUME TypeOK, NEW j \in Jobs, ListedWasDue(j), Onward, Keeps(j)
  PROVE  ListedWasDue(j)'
BY JobTypes DEF ListedWasDue, Onward, Keeps

(* A job that is not running has nothing listed. *)
LEMMA IdleJob ==
  ASSUME TypeOK, NEW j \in Jobs, job' = [job EXCEPT ![j] = Idle]
  PROVE  /\ job' \in [Jobs -> JobStates] /\ \A q \in Jobs : q # j => job'[q] = job[q]
         /\ JobInv(j)'
<1>1. /\ Idle \in JobStates /\ Idle.pc = "start" /\ Idle.i = 1
      /\ Idle.work = <<>> /\ Idle.messages = <<>>
  BY DEF Idle, JobStates, Steps
<1>2. job'[j] = Idle /\ job' \in [Jobs -> JobStates] /\ \A q \in Jobs : q # j => job'[q] = job[q]
  BY <1>1, JobTypes DEF TypeOK
<1>3. ListedWasDue(j)'
  BY <1>1, <1>2 DEF ListedWasDue
<1>4. WorkIsDone(j)'
  BY <1>1, <1>2 DEF WorkIsDone, BehindWork
<1>5. RemovalIsDone(j)'
  BY <1>1, <1>2 DEF RemovalIsDone, BehindMessages
<1> QED  BY <1>2, <1>3, <1>4, <1>5 DEF JobInv

LEMMA StartJob ==
  ASSUME TypeOK, NEW j \in Jobs, JobInv(j), Onward, Start(j)
  PROVE  /\ job' \in [Jobs -> JobStates] /\ \A q \in Jobs : q # j => job'[q] = job[q]
         /\ JobInv(j)'
<1>1. PICK dryRun \in BOOLEAN :
        job' = [job EXCEPT ![j].pc = "ListClosedBefore", ![j].dryRun = dryRun]
  BY DEF Start
<1>2. /\ job' \in [Jobs -> JobStates] /\ \A q \in Jobs : q # j => job'[q] = job[q]
      /\ job'[j].pc = "ListClosedBefore" /\ job'[j].i = job[j].i /\ Keeps(j)
  BY <1>1, JobTypes DEF JobStates, Steps, Keeps
<1>3. ListedWasDue(j)'
  BY <1>2, KeepsListed DEF JobInv
<1>4. WorkIsDone(j)' /\ RemovalIsDone(j)'
  BY <1>2 DEF Start, At, JobInv, WorkIsDone, BehindWork, RemovalIsDone, BehindMessages
<1> QED  BY <1>2, <1>3, <1>4 DEF JobInv

(* What a failed job leaves undone is not promised. *)
LEMMA FailedJob ==
  ASSUME TypeOK, NEW j \in Jobs, JobInv(j), Onward, Goto(j, "failed")
  PROVE  JobInv(j)'
<1>1. job'[j].pc = "failed" /\ Keeps(j)
  BY GotoMoves DEF Moves, Steps
<1>2. ListedWasDue(j)'
  BY <1>1, KeepsListed DEF JobInv
<1>3. WorkIsDone(j)' /\ RemovalIsDone(j)'
  BY <1>1 DEF WorkIsDone, BehindWork, RemovalIsDone, BehindMessages
<1> QED  BY <1>2, <1>3 DEF JobInv

(* The sessions that the query finds are due, by the clock. *)
LEMMA ClosedBeforeIsDue ==
  ASSUME TypeOK, DueIsRecorded
  PROVE  /\ ClosedBefore(now - PIIRetentionPeriod) \subseteq Sessions \cap piiDue
         /\ ClosedBefore(now - MessageRetentionPeriod) \subseteq Sessions \cap messagesDue
<1> SUFFICES ASSUME NEW s \in Sessions
             PROVE  /\ s \in ClosedBefore(now - PIIRetentionPeriod) => s \in piiDue
                    /\ s \in ClosedBefore(now - MessageRetentionPeriod) => s \in messagesDue
  BY DEF ClosedBefore
<1>1. /\ now \in Int /\ closedAt[s] \in Int
      /\ PIIRetentionPeriod \in Int /\ MessageRetentionPeriod \in Int
  BY RetentionAssumption DEF TypeOK
<1> QED  BY <1>1 DEF ClosedBefore, ClosedFor, DueIsRecorded

LEMMA ListClosedBeforeJob ==
  ASSUME TypeOK, DueIsRecorded, NEW j \in Jobs, JobInv(j), Onward, ListClosedBefore(j)
  PROVE  /\ job' \in [Jobs -> JobStates] /\ \A q \in Jobs : q # j => job'[q] = job[q]
         /\ JobInv(j)'
<1>1. CASE Goto(j, "failed")
  BY <1>1, FailedJob, GotoMoves DEF Moves, Steps
<1>2. CASE \E list \in ByClosing(ClosedBefore(now - PIIRetentionPeriod)) :
             job' = [job EXCEPT ![j].pc = "GetByID", ![j].work = list]
  <2>1. PICK list \in ByClosing(ClosedBefore(now - PIIRetentionPeriod)) :
          job' = [job EXCEPT ![j].pc = "GetByID", ![j].work = list]
    BY <1>2
  <2> DEFINE S == ClosedBefore(now - PIIRetentionPeriod)
  <2>2. S \subseteq Sessions /\ S \subseteq piiDue
    BY ClosedBeforeIsDue
  <2>3. list \in Seq(Sessions \X {1, 2}) /\ ToSet(list) = Entries(S)
    BY <2>1, <2>2, ByClosingIsComplete
  <2>4. \A k \in DOMAIN list : list[k] \in Entries(S)
    BY <2>3 DEF ToSet
  <2>5. \A k \in DOMAIN list : UserOf(list[k]) \in Users /\ list[k][1] \in piiDue
    BY <2>2, <2>4, EntriesOf
  <2>6. /\ job' \in [Jobs -> JobStates] /\ \A q \in Jobs : q # j => job'[q] = job[q]
        /\ job'[j].pc = "GetByID" /\ job'[j].work = list /\ job'[j].i = job[j].i
        /\ job'[j].messages = job[j].messages
    BY <2>1, <2>3, JobTypes DEF JobStates, Steps
  <2>7. ListedWasDue(j)'
    <3>1. piiDue \subseteq piiDue' /\ messagesDue \subseteq messagesDue'
          /\ \A m \in Messages : message[m] # "none" => message'[m] # "none"
      BY DEF Onward
    <3>2. \A k \in DOMAIN job[j].messages :
            /\ job[j].messages[k] \in Messages
            /\ MessageSession[job[j].messages[k]] \in messagesDue
            /\ message[job[j].messages[k]] # "none"
      BY JobTypes DEF JobInv, ListedWasDue
    <3> QED  BY <2>5, <2>6, <3>1, <3>2 DEF ListedWasDue
  <2>8. WorkIsDone(j)'
    <3>1. job[j].i = 1
      BY DEF JobInv, WorkIsDone, ListClosedBefore, At
    <3> QED  BY <2>3, <2>6, <3>1 DEF WorkIsDone, BehindWork
  <2>9. RemovalIsDone(j)'
    BY <2>6 DEF RemovalIsDone, BehindMessages
  <2> QED  BY <2>6, <2>7, <2>8, <2>9 DEF JobInv
<1> QED  BY <1>1, <1>2 DEF ListClosedBefore

(* A job that keeps its place in the loop, and its lists. *)
LEMMA GoesOnJob ==
  ASSUME TypeOK, NEW j \in Jobs, JobInv(j), Onward,
         NextParticipant(j, TRUE) \/ NextParticipant(j, FALSE),
         job[j].pc \in {"GetByID", "AnonymizeUser", "Hash"},
         \/ NextParticipant(j, TRUE)
         \/ isDryRun(j)
         \/ job[j].pc = "Hash"
         \/ UserOf(job[j].work[job[j].i]) \in anonymous
  PROVE  /\ job' \in [Jobs -> JobStates] /\ \A q \in Jobs : q # j => job'[q] = job[q]
         /\ JobInv(j)'
<1>1. /\ job' \in [Jobs -> JobStates] /\ \A q \in Jobs : q # j => job'[q] = job[q]
      /\ job'[j].pc = "GetByID" /\ job'[j].i = job[j].i + 1
      /\ job'[j].dryRun = job[j].dryRun /\ Keeps(j)
  BY NextParticipantMoves DEF Moves
<1>2. /\ NextParticipant(j, TRUE) => job'[j].errors = TRUE
      /\ ~job'[j].errors => ~job[j].errors
  <2>1. ASSUME NextParticipant(j, TRUE)
        PROVE  job'[j].errors = TRUE
    <3>1. job'[j].errors = (job[j].errors \/ TRUE)
      BY <2>1, NextParticipantMoves
    <3> QED  BY <3>1, Zenon
  <2>2. ASSUME NextParticipant(j, FALSE)
        PROVE  ~job'[j].errors => ~job[j].errors
    <3>1. job'[j].errors = (job[j].errors \/ FALSE)
      BY <2>2, NextParticipantMoves
    <3> QED  BY <3>1, Zenon
  <2> QED  BY <2>1, <2>2
<1>3. ListedWasDue(j)'
  BY <1>1, KeepsListed DEF JobInv
<1>4. WorkIsDone(j)'
  <2> SUFFICES ASSUME ~job'[j].dryRun, ~job'[j].errors,
                      NEW k \in DOMAIN job'[j].work, k < job'[j].i
               PROVE  UserOf(job'[j].work[k]) \in anonymous'
    BY <1>1 DEF WorkIsDone, BehindWork, isDryRun
  <2>1. /\ k \in 1..Len(job[j].work) /\ k <= job[j].i /\ job'[j].work = job[j].work
        /\ DOMAIN job[j].work = 1..Len(job[j].work)
    BY <1>1, JobTypes DEF Keeps
  <2>2. ~isDryRun(j) /\ ~job[j].errors /\ ~NextParticipant(j, TRUE)
    BY <1>1, <1>2 DEF isDryRun
  <2>3. BehindWork(j, k) => UserOf(job[j].work[k]) \in anonymous
    BY <2>1, <2>2 DEF JobInv, WorkIsDone
  <2>4. BehindWork(j, k) \/ (k = job[j].i /\ UserOf(job[j].work[k]) \in anonymous)
    <3>1. CASE k < job[j].i \/ job[j].pc = "Hash"
      BY <2>1, <3>1 DEF BehindWork
    <3>2. CASE ~(k < job[j].i) /\ job[j].pc # "Hash"
      <4>1. k = job[j].i
        BY <2>1, <3>2, JobTypes
      <4>2. UserOf(job[j].work[job[j].i]) \in anonymous
        BY <2>2, <3>2
      <4> QED  BY <4>1, <4>2
    <3> QED  BY <3>1, <3>2
  <2> QED  BY <2>1, <2>3, <2>4 DEF Onward
<1>5. RemovalIsDone(j)'
  BY <1>1 DEF RemovalIsDone, BehindMessages
<1> QED  BY <1>1, <1>3, <1>4, <1>5 DEF JobInv

LEMMA GetByIDJob ==
  ASSUME TypeOK, NEW j \in Jobs, JobInv(j), Onward, GetByID(j)
  PROVE  /\ job' \in [Jobs -> JobStates] /\ \A q \in Jobs : q # j => job'[q] = job[q]
         /\ JobInv(j)'
<1>1. job[j].pc = "GetByID" /\ job[j].i <= Len(job[j].work)
  BY DEF GetByID, At
<1>2. CASE NextParticipant(j, TRUE)
  BY <1>1, <1>2, GoesOnJob
<1>3. CASE /\ NextParticipant(j, FALSE)
           /\ UserOf(job[j].work[job[j].i]) \in anonymous \/ isDryRun(j)
  BY <1>1, <1>3, GoesOnJob
<1>4. CASE Goto(j, "AnonymizeUser")
  <2>1. /\ job' \in [Jobs -> JobStates] /\ \A q \in Jobs : q # j => job'[q] = job[q]
        /\ job'[j].pc = "AnonymizeUser" /\ job'[j].i = job[j].i
        /\ job'[j].errors = job[j].errors
        /\ job'[j].dryRun = job[j].dryRun /\ Keeps(j)
    BY <1>4, GotoMoves DEF Moves, Steps
  <2>2. ListedWasDue(j)'
    BY <2>1, KeepsListed DEF JobInv
  <2>3. WorkIsDone(j)'
    <3>1. ~isDryRun(j) /\ ~job[j].errors =>
            \A k \in DOMAIN job[j].work : k < job[j].i => UserOf(job[j].work[k]) \in anonymous
      BY <1>1 DEF JobInv, WorkIsDone, BehindWork
    <3> QED  BY <1>1, <2>1, <3>1 DEF WorkIsDone, BehindWork, isDryRun, Keeps, Onward
  <2>4. RemovalIsDone(j)'
    BY <2>1 DEF RemovalIsDone, BehindMessages
  <2> QED  BY <2>1, <2>2, <2>3, <2>4 DEF JobInv
<1> QED  BY <1>2, <1>3, <1>4 DEF GetByID

LEMMA AnonymizeUserJob ==
  ASSUME TypeOK, NEW j \in Jobs, JobInv(j), Onward, AnonymizeUser(j)
  PROVE  /\ job' \in [Jobs -> JobStates] /\ \A q \in Jobs : q # j => job'[q] = job[q]
         /\ JobInv(j)'
<1>1. job[j].pc = "AnonymizeUser"
  BY DEF AnonymizeUser, At
<1>2. CASE NextParticipant(j, TRUE)
  BY <1>1, <1>2, GoesOnJob
<1>3. CASE /\ Goto(j, "Hash")
           /\ anonymous' = anonymous \cup {UserOf(job[j].work[job[j].i])}
  <2>1. /\ job' \in [Jobs -> JobStates] /\ \A q \in Jobs : q # j => job'[q] = job[q]
        /\ job'[j].pc = "Hash" /\ job'[j].i = job[j].i
        /\ job'[j].errors = job[j].errors
        /\ job'[j].dryRun = job[j].dryRun /\ Keeps(j)
    BY <1>3, GotoMoves DEF Moves, Steps
  <2>2. ListedWasDue(j)'
    BY <2>1, KeepsListed DEF JobInv
  <2>3. WorkIsDone(j)'
    <3>1. job[j].i <= Len(job[j].work)
      BY <1>1 DEF JobInv, WorkIsDone
    <3>2. ~isDryRun(j) /\ ~job[j].errors =>
            \A k \in DOMAIN job[j].work : k < job[j].i => UserOf(job[j].work[k]) \in anonymous
      BY <1>1 DEF JobInv, WorkIsDone, BehindWork
    <3>3. ~isDryRun(j) /\ ~job[j].errors =>
            \A k \in DOMAIN job[j].work : k <= job[j].i => UserOf(job[j].work[k]) \in anonymous'
      BY <1>3, <3>2, JobTypes
    <3> QED  BY <2>1, <3>1, <3>3 DEF WorkIsDone, BehindWork, isDryRun, Keeps
  <2>4. RemovalIsDone(j)'
    BY <2>1 DEF RemovalIsDone, BehindMessages
  <2> QED  BY <2>1, <2>2, <2>3, <2>4 DEF JobInv
<1> QED  BY <1>2, <1>3 DEF AnonymizeUser

LEMMA HashJob ==
  ASSUME TypeOK, NEW j \in Jobs, JobInv(j), Onward, Hash(j)
  PROVE  /\ job' \in [Jobs -> JobStates] /\ \A q \in Jobs : q # j => job'[q] = job[q]
         /\ JobInv(j)'
<1>1. job[j].pc = "Hash" /\ NextParticipant(j, FALSE)
  BY DEF Hash, At
<1> QED  BY <1>1, GoesOnJob

LEMMA NoMoreParticipantsJob ==
  ASSUME TypeOK, NEW j \in Jobs, JobInv(j), Onward, NoMoreParticipants(j)
  PROVE  /\ job' \in [Jobs -> JobStates] /\ \A q \in Jobs : q # j => job'[q] = job[q]
         /\ JobInv(j)'
<1>1. job[j].pc = "GetByID" /\ job[j].i > Len(job[j].work) /\ Goto(j, "ListForDeletion")
  BY DEF NoMoreParticipants, At
<1>2. /\ job' \in [Jobs -> JobStates] /\ \A q \in Jobs : q # j => job'[q] = job[q]
      /\ job'[j].pc = "ListForDeletion" /\ job'[j].errors = job[j].errors
      /\ job'[j].dryRun = job[j].dryRun /\ Keeps(j)
  BY <1>1, GotoMoves DEF Moves, Steps
<1>3. ListedWasDue(j)'
  BY <1>2, KeepsListed DEF JobInv
<1>4. WorkIsDone(j)'
  <2>1. ~isDryRun(j) /\ ~job[j].errors =>
          \A k \in DOMAIN job[j].work : UserOf(job[j].work[k]) \in anonymous
    BY <1>1, JobTypes DEF JobInv, WorkIsDone, BehindWork
  <2> QED  BY <1>2, <2>1 DEF WorkIsDone, isDryRun, Keeps, Onward
<1>5. RemovalIsDone(j)'
  BY <1>2 DEF RemovalIsDone, BehindMessages
<1> QED  BY <1>2, <1>3, <1>4, <1>5 DEF JobInv

-------------------------------------------------------------------------------
(* MessageCleaner.Run. *)
LEMMA ListForDeletionJob ==
  ASSUME TypeOK, DueIsRecorded, NEW j \in Jobs, JobInv(j), Onward, ListForDeletion(j)
  PROVE  /\ job' \in [Jobs -> JobStates] /\ \A q \in Jobs : q # j => job'[q] = job[q]
         /\ JobInv(j)'
<1>1. CASE Goto(j, "failed")
  BY <1>1, FailedJob, GotoMoves DEF Moves, Steps
<1>2. CASE \E list \in ByID(ForDeletion(now - MessageRetentionPeriod)) :
             job' = [job EXCEPT ![j].pc = "Remove", ![j].i = 1, ![j].messages = list]
  <2> DEFINE ids == ForDeletion(now - MessageRetentionPeriod)
  <2>1. PICK list \in ByID(ids) :
          job' = [job EXCEPT ![j].pc = "Remove", ![j].i = 1, ![j].messages = list]
    BY <1>2
  <2>2. /\ ids \subseteq Messages
        /\ \A m \in ids : message[m] = "stored" /\ MessageSession[m] \in messagesDue
    BY ClosedBeforeIsDue DEF ForDeletion
  <2>3. list \in Seq(ids) /\ \A k \in DOMAIN list : list[k] \in ids
    BY <2>1, <2>2, ByIDIsComplete DEF ToSet
  <2>4. list \in Seq(Messages) /\ DOMAIN list = 1..Len(list)
    BY <2>2, <2>3
  <2>5. /\ job' \in [Jobs -> JobStates] /\ \A q \in Jobs : q # j => job'[q] = job[q]
        /\ job'[j].pc = "Remove" /\ job'[j].i = 1 /\ job'[j].messages = list
        /\ job'[j].work = job[j].work
        /\ job'[j].dryRun = job[j].dryRun /\ job'[j].errors = job[j].errors
    <3>1. job[j] \in JobStates /\ job \in [Jobs -> JobStates] /\ 1 \in Nat \ {0}
      BY JobTypes
    <3> DEFINE r == [[[job[j] EXCEPT !.pc = "Remove"] EXCEPT !.i = 1] EXCEPT !.messages = list]
    <3>2. job' = [job EXCEPT ![j] = r]
      BY <2>1, <3>1 DEF JobStates
    <3>3. r \in JobStates
      BY <2>4, <3>1 DEF JobStates, Steps
    <3>4. /\ r.pc = "Remove" /\ r.i = 1 /\ r.messages = list /\ r.work = job[j].work
          /\ r.dryRun = job[j].dryRun /\ r.errors = job[j].errors
      BY <3>1 DEF JobStates
    <3> HIDE DEF r
    <3> QED  BY <3>1, <3>2, <3>3, <3>4
  <2>6. ListedWasDue(j)'
    <3>1. \A k \in DOMAIN list : MessageSession[list[k]] \in messagesDue'
                                 /\ message'[list[k]] # "none"
      BY <2>2, <2>3 DEF Onward
    <3>2. \A k \in DOMAIN job[j].work :
            UserOf(job[j].work[k]) \in Users /\ job[j].work[k][1] \in piiDue'
      BY DEF JobInv, ListedWasDue, Onward
    <3> QED  BY <2>5, <3>1, <3>2 DEF ListedWasDue
  <2>7. WorkIsDone(j)'
    <3>1. ~isDryRun(j) /\ ~job[j].errors =>
            \A k \in DOMAIN job[j].work : UserOf(job[j].work[k]) \in anonymous'
      BY DEF JobInv, WorkIsDone, BehindWork, ListForDeletion, At, Onward
    <3> QED  BY <2>5, <3>1 DEF WorkIsDone, isDryRun
  <2>8. RemovalIsDone(j)'
    BY <2>4, <2>5 DEF RemovalIsDone, BehindMessages
  <2> QED  BY <2>5, <2>6, <2>7, <2>8 DEF JobInv
<1> QED  BY <1>1, <1>2 DEF ListForDeletion

LEMMA deleteMediaFileJob ==
  ASSUME TypeOK, NEW j \in Jobs, JobInv(j), Onward, deleteMediaFile(j)
  PROVE  /\ job' \in [Jobs -> JobStates] /\ \A q \in Jobs : q # j => job'[q] = job[q]
         /\ JobInv(j)'
<1> DEFINE m == job[j].messages[job[j].i]
<1>1. job[j].pc = "Remove" /\ job[j].i <= Len(job[j].messages)
  BY DEF deleteMediaFile, At
<1>2. \/ /\ files' = IF isDryRun(j) THEN files ELSE files \ {m}
         /\ job' = [job EXCEPT ![j].i = @ + 1]
      \/ /\ unremoved' = unremoved \cup {m}
         /\ job' = [job EXCEPT ![j].i = @ + 1, ![j].errors = TRUE]
  BY DEF deleteMediaFile
<1>3. /\ job' \in [Jobs -> JobStates] /\ \A q \in Jobs : q # j => job'[q] = job[q]
      /\ job'[j].pc = "Remove" /\ job'[j].i = job[j].i + 1
      /\ job'[j].dryRun = job[j].dryRun /\ Keeps(j)
      /\ job'[j].errors = TRUE \/ job'[j].errors = job[j].errors
  <2>1. job[j] \in JobStates /\ job \in [Jobs -> JobStates] /\ job[j].i + 1 \in Nat \ {0}
    BY JobTypes
  <2>2. PICK e \in BOOLEAN :
          /\ e = TRUE \/ e = job[j].errors
          /\ job' = [job EXCEPT ![j] = [[job[j] EXCEPT !.i = job[j].i + 1] EXCEPT !.errors = e]]
    <3>1. CASE job' = [job EXCEPT ![j].i = @ + 1]
      <4>1. [[job[j] EXCEPT !.i = job[j].i + 1] EXCEPT !.errors = job[j].errors]
              = [job[j] EXCEPT !.i = job[j].i + 1]
        BY <2>1 DEF JobStates
      <4> QED  BY <3>1, <4>1, JobTypes
    <3>2. CASE job' = [job EXCEPT ![j].i = @ + 1, ![j].errors = TRUE]
      BY <3>2, <2>1
    <3> QED  BY <1>2, <3>1, <3>2
  <2> DEFINE r == [[job[j] EXCEPT !.i = job[j].i + 1] EXCEPT !.errors = e]
  <2>3. r \in JobStates
    BY <2>1 DEF JobStates
  <2>4. /\ r.pc = job[j].pc /\ r.i = job[j].i + 1 /\ r.messages = job[j].messages
        /\ r.work = job[j].work /\ r.dryRun = job[j].dryRun /\ r.errors = e
    BY <2>1 DEF JobStates
  <2>5. job' = [job EXCEPT ![j] = r]
    BY <2>2
  <2> HIDE DEF r
  <2> QED  BY <1>1, <2>1, <2>2, <2>3, <2>4, <2>5 DEF Keeps
<1>4. ~isDryRun(j) => m \notin files' \/ (job'[j].errors /\ m \in unremoved')
  <2>1. CASE job' = [job EXCEPT ![j].i = @ + 1, ![j].errors = TRUE]
             /\ unremoved' = unremoved \cup {m}
    BY <2>1, JobTypes DEF JobStates
  <2> QED  BY <1>2, <2>1
<1>5. ListedWasDue(j)'
  BY <1>3, KeepsListed DEF JobInv
<1>6. WorkIsDone(j)'
  <2>1. ~isDryRun(j) /\ ~job[j].errors =>
          \A k \in DOMAIN job[j].work : UserOf(job[j].work[k]) \in anonymous'
    BY <1>1 DEF JobInv, WorkIsDone, BehindWork, Onward
  <2> QED  BY <1>3, <2>1 DEF WorkIsDone, isDryRun, Keeps
<1>7. RemovalIsDone(j)'
  <2> SUFFICES ASSUME ~isDryRun(j), NEW k \in DOMAIN job[j].messages, k < job[j].i + 1
               PROVE  \/ job[j].messages[k] \notin files'
                      \/ job'[j].errors /\ job[j].messages[k] \in unremoved'
    BY <1>3 DEF RemovalIsDone, BehindMessages, isDryRun, Keeps
  <2>1. CASE k = job[j].i
    BY <1>4, <2>1
  <2>2. CASE k # job[j].i
    <3>1. k < job[j].i /\ job[j].messages[k] \in Messages
      BY <2>2, JobTypes
    <3>2. job[j].messages[k] \notin files
          \/ (job[j].errors /\ job[j].messages[k] \in unremoved)
      BY <1>1, <3>1 DEF JobInv, RemovalIsDone, BehindMessages
    <3>3. message[job[j].messages[k]] # "none"
      BY DEF JobInv, ListedWasDue
    <3> QED  BY <1>3, <3>1, <3>2, <3>3 DEF Onward
  <2> QED  BY <2>1, <2>2
<1> QED  BY <1>3, <1>5, <1>6, <1>7 DEF JobInv

LEMMA NoMoreMessagesJob ==
  ASSUME TypeOK, NEW j \in Jobs, JobInv(j), Onward, NoMoreMessages(j)
  PROVE  /\ job' \in [Jobs -> JobStates] /\ \A q \in Jobs : q # j => job'[q] = job[q]
         /\ JobInv(j)'
<1> DEFINE pc == IF isDryRun(j) \/ job[j].messages = <<>> THEN "exit" ELSE "DeleteByIDs"
<1>1. job[j].pc = "Remove" /\ job[j].i > Len(job[j].messages) /\ Goto(j, pc)
  BY DEF NoMoreMessages, At
<1>2. pc \in Steps /\ pc \in {"exit", "DeleteByIDs"}
  BY DEF Steps
<1>3. /\ job' \in [Jobs -> JobStates] /\ \A q \in Jobs : q # j => job'[q] = job[q]
      /\ job'[j].pc = pc /\ job'[j].errors = job[j].errors
      /\ job'[j].dryRun = job[j].dryRun /\ Keeps(j)
  BY <1>1, <1>2, GotoMoves DEF Moves
<1>4. ListedWasDue(j)'
  BY <1>3, KeepsListed DEF JobInv
<1>5. WorkIsDone(j)'
  <2>1. ~isDryRun(j) /\ ~job[j].errors =>
          \A k \in DOMAIN job[j].work : UserOf(job[j].work[k]) \in anonymous'
    BY <1>1 DEF JobInv, WorkIsDone, BehindWork, Onward
  <2> QED  BY <1>2, <1>3, <2>1 DEF WorkIsDone, isDryRun, Keeps
<1>6. RemovalIsDone(j)'
  <2>1. ASSUME ~isDryRun(j), NEW k \in DOMAIN job[j].messages
        PROVE  /\ pc = "DeleteByIDs"
               /\ \/ job[j].messages[k] \notin files'
                  \/ job[j].errors /\ job[j].messages[k] \in unremoved'
    <3>1. k < job[j].i /\ job[j].messages[k] \in Messages /\ job[j].messages # <<>>
      BY <1>1, JobTypes
    <3>2. /\ \/ job[j].messages[k] \notin files
             \/ job[j].errors /\ job[j].messages[k] \in unremoved
          /\ message[job[j].messages[k]] # "none"
      BY <1>1, <2>1, <3>1 DEF JobInv, RemovalIsDone, BehindMessages, ListedWasDue
    <3> QED  BY <2>1, <3>1, <3>2 DEF Onward
  <2>2. pc = "DeleteByIDs" => ~isDryRun(j)
    OBVIOUS
  <2> HIDE DEF pc
  <2> QED  BY <1>2, <1>3, <2>1, <2>2 DEF RemovalIsDone, BehindMessages, isDryRun, Keeps
<1> QED  BY <1>3, <1>4, <1>5, <1>6 DEF JobInv

LEMMA DeleteByIDsJob ==
  ASSUME TypeOK, NEW j \in Jobs, JobInv(j), Onward, DeleteByIDs(j)
  PROVE  /\ job' \in [Jobs -> JobStates] /\ \A q \in Jobs : q # j => job'[q] = job[q]
         /\ JobInv(j)'
<1>1. CASE Goto(j, "failed")
  BY <1>1, FailedJob, GotoMoves DEF Moves, Steps
<1>2. CASE /\ message' = [m \in Messages |->
                            IF m \in ToSet(job[j].messages) THEN "deleted" ELSE message[m]]
           /\ Goto(j, "exit")
  <2>1. /\ job' \in [Jobs -> JobStates] /\ \A q \in Jobs : q # j => job'[q] = job[q]
        /\ job'[j].pc = "exit" /\ job'[j].errors = job[j].errors
        /\ job'[j].dryRun = job[j].dryRun /\ Keeps(j)
    BY <1>2, GotoMoves DEF Moves, Steps
  <2>2. ListedWasDue(j)'
    BY <2>1, KeepsListed DEF JobInv
  <2>3. job[j].pc = "DeleteByIDs"
    BY DEF DeleteByIDs, At
  <2>4. WorkIsDone(j)'
    <3>1. ~isDryRun(j) /\ ~job[j].errors =>
            \A k \in DOMAIN job[j].work : UserOf(job[j].work[k]) \in anonymous'
      BY <2>3 DEF JobInv, WorkIsDone, BehindWork, Onward
    <3> QED  BY <2>1, <3>1 DEF WorkIsDone, isDryRun, Keeps
  <2>5. RemovalIsDone(j)'
    <3>1. ASSUME NEW k \in DOMAIN job[j].messages
          PROVE  /\ message'[job[j].messages[k]] = "deleted"
                 /\ ~isDryRun(j) => \/ job[j].messages[k] \notin files'
                                    \/ job[j].errors /\ job[j].messages[k] \in unremoved'
      <4>1. job[j].messages[k] \in Messages /\ job[j].messages[k] \in ToSet(job[j].messages)
        BY JobTypes DEF ToSet
      <4>2. /\ ~isDryRun(j) => \/ job[j].messages[k] \notin files
                               \/ job[j].errors /\ job[j].messages[k] \in unremoved
            /\ message[job[j].messages[k]] # "none"
        BY <2>3 DEF JobInv, RemovalIsDone, BehindMessages, ListedWasDue
      <4> QED  BY <1>2, <4>1, <4>2 DEF Onward
    <3> QED  BY <2>1, <3>1 DEF RemovalIsDone, BehindMessages, isDryRun, Keeps
  <2> QED  BY <2>1, <2>2, <2>4, <2>5 DEF JobInv
<1> QED  BY <1>1, <1>2 DEF DeleteByIDs

-------------------------------------------------------------------------------
(***************************************************************************)
(* Onward, the types and the invariants of the tables.                     *)
(***************************************************************************)
LEMMA NextOnward == TypeOK /\ NotYetStored /\ [Next]_vars => Onward
<1> SUFFICES ASSUME TypeOK, NotYetStored, [Next]_vars PROVE Onward  OBVIOUS
<1> USE DEF Onward
<1>1. CASE UNCHANGED vars
  BY <1>1 DEF vars, sessionVars, userVars, messageVars, dueVars
<1>2. ASSUME NEW j \in Jobs,
             \/ Start(j) \/ ListClosedBefore(j) \/ GetByID(j) \/ Hash(j) \/ Exit(j) \/ Kill(j)
             \/ NoMoreParticipants(j) \/ ListForDeletion(j) \/ NoMoreMessages(j)
      PROVE  Onward
  BY <1>2 DEF Start, ListClosedBefore, GetByID, Hash, Exit, Kill, NoMoreParticipants,
     ListForDeletion, NoMoreMessages, userVars, messageVars, dueVars
<1>3. ASSUME NEW j \in Jobs, AnonymizeUser(j)
      PROVE  Onward
  BY <1>3 DEF AnonymizeUser, messageVars, dueVars
<1>4. ASSUME NEW j \in Jobs, deleteMediaFile(j)
      PROVE  Onward
  BY <1>4 DEF deleteMediaFile, userVars, dueVars
<1>5. ASSUME NEW j \in Jobs, DeleteByIDs(j)
      PROVE  Onward
  BY <1>5 DEF DeleteByIDs, userVars, dueVars, TypeOK
<1>6. CASE Tick
  BY <1>6 DEF Tick, userVars, messageVars
<1>7. ASSUME NEW s \in Sessions, NEW st \in {"active", "paused", "closed"}, UpdateStatus(s, st)
      PROVE  Onward
  BY <1>7 DEF UpdateStatus, userVars, messageVars, dueVars
<1>8. ASSUME NEW m \in Messages, ReadSession(m) \/ StoreMessage(m) \/ FileDelivered(m)
      PROVE  Onward
  BY <1>8 DEF ReadSession, StoreMessage, FileDelivered, userVars, dueVars, TypeOK, NotYetStored
<1>9. ASSUME NEW u \in Users, LanguageRead(u) \/ LanguageWrite(u)
      PROVE  Onward
  BY <1>9 DEF LanguageRead, LanguageWrite, messageVars, dueVars
<1> QED  BY <1>1, <1>2, <1>3, <1>4, <1>5, <1>6, <1>7, <1>8, <1>9 DEF Next, Step

(* Every step keeps the job's part; job' is a table of jobs again. *)
LEMMA StepJobs ==
  ASSUME IInv, [Next]_vars
  PROVE  job' \in [Jobs -> JobStates] /\ \A q \in Jobs : JobInv(q)'
<1>1. TypeOK /\ DueIsRecorded /\ Onward /\ \A q \in Jobs : JobInv(q)
  BY NextOnward DEF IInv
<1>2. ASSUME NEW j \in Jobs, Step(j) \/ Kill(j)
      PROVE  /\ job' \in [Jobs -> JobStates] /\ \A q \in Jobs : q # j => job'[q] = job[q]
             /\ JobInv(j)'
  <2>1. CASE Exit(j) \/ Kill(j)
    BY <1>1, <2>1, IdleJob DEF Exit, Kill
  <2> QED  BY <1>1, <1>2, <2>1, StartJob, ListClosedBeforeJob, GetByIDJob, AnonymizeUserJob,
           HashJob, NoMoreParticipantsJob, ListForDeletionJob, deleteMediaFileJob,
           NoMoreMessagesJob, DeleteByIDsJob DEF Step
<1>3. CASE job' = job
  <2>1. job \in [Jobs -> JobStates]
    BY <1>1 DEF TypeOK, JobStates
  <2> QED  BY <1>1, <1>3, <2>1, SameJob
<1>4. CASE \E j \in Jobs : Step(j) \/ Kill(j)
  BY <1>1, <1>2, <1>4, SameJob
<1>5. job' = job \/ \E j \in Jobs : Step(j) \/ Kill(j)
  BY DEF Next, Tick, UpdateStatus, ReadSession, StoreMessage, FileDelivered, LanguageRead, LanguageWrite, vars
<1> QED  BY <1>3, <1>4, <1>5

LEMMA FailsBounded ==
  ASSUME TypeOK, Fails \/ Works
  PROVE  failures' \in 0..MaxFailures
BY RetentionAssumption DEF TypeOK, Fails, Works

(* The tables, with the jobs' own types from StepJobs. *)
LEMMA StepTypes ==
  ASSUME IInv, [Next]_vars
  PROVE  TypeOK'
<1>1. TypeOK /\ job' \in [Jobs -> JobStates]
  BY StepJobs DEF IInv
<1>2. job' \in [Jobs -> [pc : Steps, work : Seq(Sessions \X {1, 2}), messages : Seq(Messages),
                         i : Nat \ {0}, dryRun : BOOLEAN, errors : BOOLEAN]]
  BY <1>1 DEF JobStates
<1>3. CASE UNCHANGED vars
  BY <1>1, <1>3 DEF vars, sessionVars, userVars, messageVars, dueVars, TypeOK
<1>4. ASSUME NEW j \in Jobs,
             \/ Start(j) \/ Exit(j) \/ NoMoreParticipants(j) \/ NoMoreMessages(j)
      PROVE  TypeOK'
  BY <1>1, <1>2, <1>4 DEF Start, Exit, NoMoreParticipants, NoMoreMessages,
     sessionVars, userVars, messageVars, dueVars, TypeOK
<1>5. ASSUME NEW j \in Jobs,
             ListClosedBefore(j) \/ GetByID(j) \/ Hash(j) \/ ListForDeletion(j)
      PROVE  TypeOK'
  <2>1. failures' \in 0..MaxFailures
    BY <1>1, <1>5, FailsBounded DEF ListClosedBefore, GetByID, Hash, ListForDeletion
  <2>2. UNCHANGED <<now, sessionVars, userVars, messageVars, changes, kills, dueVars>>
    BY <1>5 DEF ListClosedBefore, GetByID, Hash, ListForDeletion
  <2> QED  BY <1>1, <1>2, <2>1, <2>2 DEF sessionVars, userVars, messageVars, dueVars, TypeOK
<1>6. ASSUME NEW j \in Jobs, AnonymizeUser(j)
      PROVE  TypeOK'
  <2>1. failures' \in 0..MaxFailures
    BY <1>1, <1>6, FailsBounded DEF AnonymizeUser
  <2>2. UserOf(job[j].work[job[j].i]) \in Users
    <3>1. job[j].i <= Len(job[j].work)
      BY <1>6 DEF IInv, JobInv, WorkIsDone, AnonymizeUser, At
    <3>2. job[j].i \in DOMAIN job[j].work
      BY <1>1, <3>1, JobTypes
    <3> QED  BY <3>2 DEF IInv, JobInv, ListedWasDue
  <2>3. anonymous' \subseteq Users /\ named' \subseteq Users /\ overtaken' \subseteq Users
    BY <1>1, <1>6, <2>2 DEF AnonymizeUser, TypeOK
  <2> QED  BY <1>1, <1>2, <1>6, <2>1, <2>3
           DEF AnonymizeUser, sessionVars, messageVars, dueVars, TypeOK
<1>7. ASSUME NEW j \in Jobs, deleteMediaFile(j)
      PROVE  TypeOK'
  <2>1. failures' \in 0..MaxFailures
    BY <1>1, <1>7, FailsBounded DEF deleteMediaFile
  <2>2. files' \subseteq Media /\ unremoved' \subseteq Media
    BY <1>1, <1>7 DEF deleteMediaFile, TypeOK
  <2> QED  BY <1>1, <1>2, <1>7, <2>1, <2>2
           DEF deleteMediaFile, sessionVars, userVars, dueVars, TypeOK
<1>8. ASSUME NEW j \in Jobs, DeleteByIDs(j)
      PROVE  TypeOK'
  <2>1. failures' \in 0..MaxFailures
    BY <1>1, <1>8, FailsBounded DEF DeleteByIDs
  <2>2. message' \in [Messages -> {"none", "stored", "deleted"}]
    BY <1>1, <1>8 DEF DeleteByIDs, TypeOK
  <2> QED  BY <1>1, <1>2, <1>8, <2>1, <2>2
           DEF DeleteByIDs, sessionVars, userVars, dueVars, TypeOK
<1>9. ASSUME NEW j \in Jobs, Kill(j)
      PROVE  TypeOK'
  <2>1. kills' \in 0..MaxKills
    BY <1>1, <1>9, RetentionAssumption DEF Kill, TypeOK
  <2> QED  BY <1>1, <1>2, <1>9, <2>1
           DEF Kill, sessionVars, userVars, messageVars, dueVars, TypeOK
<1>10. CASE Tick
  <2>1. now' \in 1..(MaxTime + 1)
    BY <1>1, <1>10, RetentionAssumption DEF Tick, TypeOK
  <2>2. piiDue' \subseteq Sessions /\ messagesDue' \subseteq Sessions
    BY <1>1, <1>10 DEF Tick, TypeOK
  <2> QED  BY <1>1, <1>2, <1>10, <2>1, <2>2
           DEF Tick, sessionVars, userVars, messageVars, TypeOK
<1>11. ASSUME NEW s \in Sessions, NEW st \in {"active", "paused", "closed"},
              UpdateStatus(s, st)
       PROVE  TypeOK'
  <2>1. changes' \in 0..MaxChanges
    BY <1>1, <1>11, RetentionAssumption DEF UpdateStatus, TypeOK
  <2>2. now \in 0..MaxTime + 1
    BY <1>1, RetentionAssumption DEF TypeOK
  <2>3. status' \in [Sessions -> {"active", "paused", "closed"}]
    BY <1>1, <1>11 DEF UpdateStatus, TypeOK
  <2>4. closedAt' \in [Sessions -> 0..MaxTime + 1]
    BY <1>1, <1>11, <2>2 DEF UpdateStatus, TypeOK
  <2> QED  BY <1>1, <1>2, <1>11, <2>1, <2>3, <2>4
           DEF UpdateStatus, userVars, messageVars, dueVars, TypeOK
<1>12. ASSUME NEW m \in Messages, ReadSession(m) \/ StoreMessage(m) \/ FileDelivered(m)
       PROVE  TypeOK'
  <2>1. /\ message' \in [Messages -> {"none", "stored", "deleted"}]
        /\ files' \subseteq Media /\ writing' \subseteq Messages
    BY <1>1, <1>12 DEF ReadSession, StoreMessage, FileDelivered, TypeOK
  <2> QED  BY <1>1, <1>2, <1>12, <2>1
           DEF ReadSession, StoreMessage, FileDelivered, sessionVars, userVars, dueVars, TypeOK
<1>13. ASSUME NEW u \in Users, LanguageRead(u) \/ LanguageWrite(u)
       PROVE  TypeOK'
  BY <1>1, <1>2, <1>13, RetentionAssumption
     DEF LanguageRead, LanguageWrite, sessionVars, messageVars, dueVars, TypeOK
<1> QED  BY <1>3, <1>4, <1>5, <1>6, <1>7, <1>8, <1>9, <1>10, <1>11, <1>12, <1>13
         DEF Next, Step

(* A name that was erased comes back only by a request that was under way. *)
LEMMA StepNames ==
  ASSUME IInv, [Next]_vars
  PROVE  NamesAreErased'
<1>1. NamesAreErased
  BY DEF IInv
<1>2. CASE UNCHANGED userVars
  BY <1>1, <1>2 DEF NamesAreErased, userVars
<1>3. ASSUME NEW j \in Jobs, AnonymizeUser(j)
      PROVE  NamesAreErased'
  BY <1>1, <1>3 DEF NamesAreErased, AnonymizeUser
<1>4. ASSUME NEW u \in Users, LanguageRead(u) \/ LanguageWrite(u)
      PROVE  NamesAreErased'
  BY <1>1, <1>4 DEF NamesAreErased, LanguageRead, LanguageWrite
<1>5. \/ UNCHANGED userVars
      \/ \E j \in Jobs : AnonymizeUser(j)
      \/ \E u \in Users : LanguageRead(u) \/ LanguageWrite(u)
  BY DEF Next, Step, Start, ListClosedBefore, GetByID, Hash, NoMoreParticipants,
     ListForDeletion, deleteMediaFile, NoMoreMessages, DeleteByIDs, Exit, Kill, Tick,
     UpdateStatus, ReadSession, StoreMessage, FileDelivered, vars
<1> QED  BY <1>2, <1>3, <1>4, <1>5

(* What is stored or deleted has no request under way: a job deletes only what
   it found stored. *)
LEMMA StepNotYetStored ==
  ASSUME IInv, [Next]_vars
  PROVE  NotYetStored'
<1>1. TypeOK /\ NotYetStored
  BY DEF IInv
<1>2. CASE UNCHANGED <<writing, message>>
  BY <1>1, <1>2 DEF NotYetStored
<1>3. ASSUME NEW m \in Messages, ReadSession(m) \/ StoreMessage(m)
      PROVE  NotYetStored'
  BY <1>1, <1>3 DEF NotYetStored, ReadSession, StoreMessage, TypeOK
<1>4. ASSUME NEW j \in Jobs, DeleteByIDs(j)
      PROVE  NotYetStored'
  <2>1. \A m \in ToSet(job[j].messages) : m \in Messages /\ message[m] # "none"
    BY <1>1, JobTypes DEF IInv, JobInv, ListedWasDue, ToSet
  <2>2. \A m \in writing : m \in Messages /\ m \notin ToSet(job[j].messages) /\ message[m] = "none"
    BY <1>1, <2>1 DEF NotYetStored, TypeOK
  <2>3. writing' = writing
    BY <1>4 DEF DeleteByIDs
  <2>4. \A m \in writing : message'[m] = message[m]
    BY <1>4, <2>2 DEF DeleteByIDs
  <2> QED  BY <2>2, <2>3, <2>4 DEF NotYetStored
<1>5. \/ UNCHANGED <<writing, message>>
      \/ \E m \in Messages : ReadSession(m) \/ StoreMessage(m)
      \/ \E j \in Jobs : DeleteByIDs(j)
  BY DEF Next, Step, Start, ListClosedBefore, GetByID, AnonymizeUser, Hash,
     NoMoreParticipants, ListForDeletion, deleteMediaFile, NoMoreMessages, Exit, Kill, Tick,
     UpdateStatus, FileDelivered, LanguageRead, LanguageWrite, vars, messageVars
<1> QED  BY <1>2, <1>3, <1>4, <1>5

(* A session becomes due only by the clock: who closes it, sets closed_at. *)
LEMMA StepDueIsRecorded ==
  ASSUME IInv, [Next]_vars
  PROVE  DueIsRecorded'
<1>1. TypeOK /\ DueIsRecorded /\ Onward
  BY NextOnward DEF IInv
<1>2. CASE UNCHANGED <<now, status, closedAt>>
  BY <1>1, <1>2 DEF DueIsRecorded, ClosedFor, Onward
<1>3. CASE Tick
  <2> SUFFICES ASSUME NEW s \in Sessions
               PROVE  /\ ClosedFor(s, PIIRetentionPeriod, now)' => s \in piiDue'
                      /\ ClosedFor(s, MessageRetentionPeriod, now)' => s \in messagesDue'
    BY DEF DueIsRecorded
  <2> QED  BY <1>3 DEF Tick, ClosedFor, sessionVars
<1>4. ASSUME NEW s \in Sessions, NEW st \in {"active", "paused", "closed"},
             UpdateStatus(s, st)
      PROVE  DueIsRecorded'
  <2> SUFFICES ASSUME NEW t \in Sessions, status'[t] = "closed"
               PROVE  /\ now' - closedAt'[t] > PIIRetentionPeriod => t \in piiDue'
                      /\ now' - closedAt'[t] > MessageRetentionPeriod => t \in messagesDue'
    BY DEF DueIsRecorded, ClosedFor
  <2>1. now' = now /\ UNCHANGED <<piiDue, messagesDue>> /\ now \in Int
    BY <1>1, <1>4 DEF UpdateStatus, dueVars, TypeOK
  <2>2. CASE t = s
    <3>1. st = "closed" /\ closedAt'[t] = now
      BY <1>1, <1>4, <2>2 DEF UpdateStatus, TypeOK
    <3> QED  BY <2>1, <3>1, RetentionAssumption
  <2>3. CASE t # s
    <3>1. status[t] = "closed" /\ closedAt'[t] = closedAt[t]
      BY <1>1, <1>4, <2>3 DEF UpdateStatus, TypeOK
    <3> QED  BY <1>1, <2>1, <3>1 DEF DueIsRecorded, ClosedFor
  <2> QED  BY <2>2, <2>3
<1>5. \/ UNCHANGED <<now, status, closedAt>>
      \/ Tick
      \/ \E s \in Sessions, st \in {"active", "paused", "closed"} : UpdateStatus(s, st)
  BY DEF Next, Step, Start, ListClosedBefore, GetByID, AnonymizeUser, Hash, NoMoreParticipants,
     ListForDeletion, deleteMediaFile, NoMoreMessages, DeleteByIDs, Exit, Kill,
     ReadSession, StoreMessage, FileDelivered, LanguageRead, LanguageWrite, vars, sessionVars
<1> QED  BY <1>2, <1>3, <1>4, <1>5

(* What is erased anew was on a job's list. *)
LEMMA StepErased ==
  ASSUME IInv, [Next]_vars
  PROVE  OnlyDueIsErased' /\ DeletedLeavesNoFile'
<1>1. TypeOK /\ OnlyDueIsErased /\ DeletedLeavesNoFile /\ Onward /\ \A j \in Jobs : JobInv(j)
  BY NextOnward DEF IInv
<1>2. ASSUME NEW u \in anonymous'
      PROVE  \E s \in piiDue' : u \in Participants(s)
  <2>1. CASE u \in anonymous
    BY <1>1, <2>1 DEF OnlyDueIsErased, Onward
  <2>2. CASE u \notin anonymous
    <3>1. PICK j \in Jobs : AnonymizeUser(j) /\ u = UserOf(job[j].work[job[j].i])
      BY <1>2, <2>2 DEF Next, Step, Start, ListClosedBefore, GetByID, AnonymizeUser, Hash,
         NoMoreParticipants, ListForDeletion, deleteMediaFile, NoMoreMessages, DeleteByIDs,
         Exit, Kill, Tick, UpdateStatus, ReadSession, StoreMessage, FileDelivered, LanguageRead,
         LanguageWrite, vars, userVars
    <3>2. job[j].i <= Len(job[j].work)
      BY <1>1, <3>1 DEF JobInv, WorkIsDone, AnonymizeUser, At
    <3>3. job[j].i \in DOMAIN job[j].work
      BY <1>1, <3>2, JobTypes
    <3> DEFINE entry == job[j].work[job[j].i]
    <3>4. entry \in Sessions \X {1, 2} /\ entry[1] \in piiDue /\ UserOf(entry) \in Users
      BY <1>1, <3>3, JobTypes DEF JobInv, ListedWasDue
    <3>5. UserOf(entry) \in Participants(entry[1])
      <4>1. entry[2] \in {1, 2}
        BY <3>4
      <4>2. UserOf(entry) \in {ClientUserID[entry[1]], ExecutorUserID[entry[1]]}
        BY <4>1 DEF UserOf
      <4> QED  BY <3>4, <4>2, RetentionAssumption DEF Participants
    <3> QED  BY <1>1, <3>1, <3>4, <3>5 DEF Onward
  <2> QED  BY <2>1, <2>2
<1>3. ASSUME NEW m \in Messages, message'[m] = "deleted"
      PROVE  MessageSession[m] \in messagesDue' /\ (m \notin files' \/ m \in unremoved')
  <2>1. CASE message[m] = "deleted"
    BY <1>1, <2>1 DEF OnlyDueIsErased, DeletedLeavesNoFile, Onward
  <2>2. CASE message[m] # "deleted"
    <3>1. PICK j \in Jobs : DeleteByIDs(j) /\ m \in ToSet(job[j].messages)
      BY <1>1, <1>3, <2>2 DEF Next, Step, Start, ListClosedBefore, GetByID, AnonymizeUser, Hash,
         NoMoreParticipants, ListForDeletion, deleteMediaFile, NoMoreMessages, DeleteByIDs,
         Exit, Kill, Tick, UpdateStatus, ReadSession, StoreMessage, FileDelivered, LanguageRead,
         LanguageWrite, vars, messageVars, TypeOK
    <3>2. PICK k \in DOMAIN job[j].messages : m = job[j].messages[k]
      BY <3>1 DEF ToSet
    <3>3. job[j].pc = "DeleteByIDs"
      BY <3>1 DEF DeleteByIDs, At
    <3>4. /\ MessageSession[m] \in messagesDue /\ message[m] # "none"
          /\ m \notin files \/ m \in unremoved
      BY <1>1, <3>2, <3>3 DEF JobInv, ListedWasDue, RemovalIsDone, BehindMessages
    <3> QED  BY <1>1, <3>4 DEF Onward
  <2> QED  BY <2>1, <2>2
<1> QED  BY <1>2, <1>3 DEF OnlyDueIsErased, DeletedLeavesNoFile

LEMMA InitIInv == Init => IInv
<1> SUFFICES ASSUME Init PROVE IInv  OBVIOUS
<1>1. Idle \in JobStates /\ Idle.pc = "start" /\ Idle.i = 1
      /\ Idle.work = <<>> /\ Idle.messages = <<>>
  BY DEF Idle, JobStates, Steps
<1>2. job \in [Jobs -> JobStates] /\ \A j \in Jobs : job[j] = Idle
  BY <1>1 DEF Init
<1>3. TypeOK
  BY <1>2, RetentionAssumption DEF Init, TypeOK, JobStates
<1>4. NamesAreErased /\ NotYetStored /\ DueIsRecorded /\ OnlyDueIsErased /\ DeletedLeavesNoFile
  BY DEF Init, NamesAreErased, NotYetStored, DueIsRecorded, ClosedFor, OnlyDueIsErased, DeletedLeavesNoFile
<1>5. ASSUME NEW j \in Jobs PROVE JobInv(j)
  BY <1>1, <1>2 DEF JobInv, ListedWasDue, WorkIsDone, BehindWork, RemovalIsDone, BehindMessages
<1> QED  BY <1>3, <1>4, <1>5 DEF IInv

THEOREM RetentionInvariant == Spec => []IInv
<1>1. IInv /\ [Next]_vars => IInv'
  BY StepJobs, StepTypes, StepNames, StepNotYetStored, StepDueIsRecorded, StepErased DEF IInv
<1> QED  BY InitIInv, <1>1, PTL DEF Spec

(* TypeOK: the tables, the clock and what every job has listed; the cursor of a
   job never points in front of its lists. *)
THEOREM RetentionTypeOK == Spec => []TypeOK
<1>1. IInv => TypeOK
  BY DEF IInv
<1> QED  BY RetentionInvariant, <1>1, PTL

(* OnlyDueIsErased: nobody is anonymised, and no message deleted, but for a
   session that once stayed closed for the whole period (pii.go, messages.go). *)
THEOREM RetentionOnlyDueIsErased == Spec => []OnlyDueIsErased
<1>1. IInv => OnlyDueIsErased
  BY DEF IInv
<1> QED  BY RetentionInvariant, <1>1, PTL

(* CleanExitMeansDone: when cmd/retention exits with 0, the messages the job listed
   are deleted with their files, and everybody it listed is anonymous and has no
   names, whatever other jobs, people and operators did; only a language request
   that had read a row before it was anonymised may have put its names back.
   Whether the audit log was hashed, the exit status does not say. *)
THEOREM RetentionCleanExitMeansDone == Spec => []CleanExitMeansDone
<1>1. ASSUME IInv PROVE CleanExitMeansDone
  <2> SUFFICES ASSUME NEW j \in Jobs, ~isDryRun(j), Ended(j), ExitCode(j) = 0
               PROVE  /\ \A entry \in ToSet(job[j].work) : Erased(UserOf(entry))
                      /\ \A m \in ToSet(job[j].messages) : message[m] = "deleted" /\ m \notin files
    BY DEF CleanExitMeansDone
  <2>1. job[j].pc = "exit" /\ ~job[j].errors
    BY DEF Ended, ExitCode, At
  <2>2. JobInv(j)
    BY <1>1 DEF IInv
  <2>3. \A k \in DOMAIN job[j].work : UserOf(job[j].work[k]) \in anonymous
    BY <2>1, <2>2 DEF JobInv, WorkIsDone, BehindWork
  <2>4. \A u \in anonymous : Erased(u)
    BY <1>1 DEF IInv, NamesAreErased, Erased
  <2>5. \A k \in DOMAIN job[j].messages :
          message[job[j].messages[k]] = "deleted" /\ job[j].messages[k] \notin files
    BY <2>1, <2>2 DEF JobInv, RemovalIsDone, BehindMessages
  <2> QED  BY <2>3, <2>4, <2>5 DEF ToSet
<1> QED  BY RetentionInvariant, <1>1, PTL

(* DeletedLeavesNoFile: no row is deleted whose file is still there, unless its
   removal failed (messages.go: the files first, the rows at the end). *)
THEOREM RetentionDeletedLeavesNoFile == Spec => []DeletedLeavesNoFile
<1>1. IInv => DeletedLeavesNoFile
  BY DEF IInv
<1> QED  BY RetentionInvariant, <1>1, PTL
=============================================================================
