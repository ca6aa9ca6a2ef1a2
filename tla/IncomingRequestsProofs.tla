------------------------- MODULE IncomingRequestsProofs ------------------------
(***************************************************************************)
(* IncomingRequests, proved for any number of people, panels and rows:     *)
(* whatever fails, no request is marked without a session, and whoever is  *)
(* told that his request is taken has it stored.                           *)
(***************************************************************************)
EXTENDS IncomingRequests, TLAPS, FiniteSetTheorems

(* The part of the types that the argument needs. *)
ButtonTypeOK ==
  /\ status \in [Requests -> {"new", "processed"}]
  /\ press \in [Operators -> {"idle", "create", "created", "mark", "marked"}]
  /\ pressed \in [Operators -> Requests \cup {0}]
  /\ sessions \in [Requests -> Nat]

(* A panel past its first call has a request, and that request a session. *)
FirstCallInv ==
  \A o \in Operators :
    /\ press[o] # "idle" => pressed[o] \in Requests
    /\ press[o] \in {"created", "mark", "marked"} => sessions[pressed[o]] > 0

IInv == ButtonTypeOK /\ FirstCallInv /\ ProcessedHasSession

LEMMA InitIInv == Init => IInv
BY DEF Init, IInv, ButtonTypeOK, FirstCallInv, ProcessedHasSession

(* Steps that touch neither the button nor a row's status. *)
LEMMA ElsewhereIInv ==
  ASSUME IInv, UNCHANGED <<status, press, pressed, sessions>>
  PROVE  IInv'
BY DEF IInv, ButtonTypeOK, FirstCallInv, ProcessedHasSession

(* A new row begins as new, so it promises nothing. *)
LEMMA InsertIInv ==
  ASSUME IInv, NEW p \in People, InsertRequest(p)
  PROVE  IInv'
<1>1. PICK r \in Free : status' = [status EXCEPT ![r] = "new"]
  BY DEF InsertRequest
<1>2. r \in Requests
  BY DEF Free
<1>3. UNCHANGED <<press, pressed, sessions>>
  BY DEF InsertRequest, pressVars
<1> QED  BY <1>1, <1>2, <1>3 DEF IInv, ButtonTypeOK, FirstCallInv, ProcessedHasSession

LEMMA PressIInv ==
  ASSUME IInv, NEW o \in Operators, NEW r \in Requests, Press(o, r)
  PROVE  IInv'
BY DEF Press, personVars, IInv, ButtonTypeOK, FirstCallInv, ProcessedHasSession

(* The first call: sessions only grow, so what others rely on stays. *)
LEMMA CreateIInv ==
  ASSUME IInv, NEW o \in Operators, handleCreateSession(o)
  PROVE  IInv'
<1>1. pressed[o] \in Requests /\ UNCHANGED <<status, pressed>>
  BY DEF handleCreateSession, IInv, FirstCallInv
<1>2. sessions' = [sessions EXCEPT ![pressed[o]] = sessions[pressed[o]] + 1]
  BY DEF handleCreateSession
<1>3. press' = [press EXCEPT ![o] = "created"]
  BY DEF handleCreateSession
<1>4. sessions' \in [Requests -> Nat]
  BY <1>1, <1>2 DEF IInv, ButtonTypeOK
<1>5. \A r \in Requests : sessions'[r] >= sessions[r]
  BY <1>1, <1>2 DEF IInv, ButtonTypeOK
<1>6. sessions'[pressed[o]] > 0
  BY <1>1, <1>2 DEF IInv, ButtonTypeOK
<1>7. ButtonTypeOK'
  BY <1>1, <1>3, <1>4 DEF IInv, ButtonTypeOK
<1>8. FirstCallInv'
  <2> SUFFICES ASSUME NEW q \in Operators
               PROVE  /\ press'[q] # "idle" => pressed'[q] \in Requests
                      /\ press'[q] \in {"created", "mark", "marked"}
                           => sessions'[pressed'[q]] > 0
    BY DEF FirstCallInv
  <2>1. CASE q = o
    BY <2>1, <1>1, <1>6
  <2>2. CASE q # o
    <3>1. press'[q] = press[q] /\ pressed'[q] = pressed[q]
      BY <2>2, <1>1, <1>3 DEF IInv, ButtonTypeOK
    <3>2. press[q] # "idle" => pressed[q] \in Requests
      BY DEF IInv, FirstCallInv
    <3>3. press[q] \in {"created", "mark", "marked"} =>
            sessions[pressed[q]] > 0 /\ pressed[q] \in Requests
      BY <3>2 DEF IInv, FirstCallInv
    <3>4. sessions \in [Requests -> Nat]
      BY DEF IInv, ButtonTypeOK
    <3> QED  BY <3>1, <3>2, <3>3, <3>4, <1>4, <1>5
  <2> QED  BY <2>1, <2>2
<1>9. ProcessedHasSession'
  BY <1>1, <1>4, <1>5 DEF IInv, ButtonTypeOK, ProcessedHasSession
<1> QED  BY <1>7, <1>8, <1>9 DEF IInv

(* The second call marks a request that its panel has made a session for. *)
LEMMA MarkIInv ==
  ASSUME IInv, NEW o \in Operators, handleUpdateIncomingRequestStatus(o)
  PROVE  IInv'
<1>1. pressed[o] \in Requests /\ sessions[pressed[o]] > 0
  BY DEF handleUpdateIncomingRequestStatus, IInv, FirstCallInv
<1>2. /\ status' = [status EXCEPT ![pressed[o]] = "processed"]
      /\ press' = [press EXCEPT ![o] = "marked"]
      /\ UNCHANGED <<pressed, sessions>>
  BY DEF handleUpdateIncomingRequestStatus
<1> QED  BY <1>1, <1>2 DEF IInv, ButtonTypeOK, FirstCallInv, ProcessedHasSession

(* The panel moves on, or gives up. *)
LEMMA PanelIInv ==
  ASSUME IInv, NEW o \in Operators, SessionCreated(o) \/ Marked(o) \/ PressFails(o)
  PROVE  IInv'
<1>1. \/ press' = [press EXCEPT ![o] = "idle"]
      \/ press[o] = "created" /\ press' = [press EXCEPT ![o] = "mark"]
  BY DEF SessionCreated, Marked, PressFails
<1>2. UNCHANGED <<status, pressed, sessions>>
  BY DEF SessionCreated, Marked, PressFails
<1> QED  BY <1>1, <1>2 DEF IInv, ButtonTypeOK, FirstCallInv, ProcessedHasSession

LEMMA StepIInv == IInv /\ [Next]_vars => IInv'
<1> SUFFICES ASSUME IInv, [Next]_vars PROVE IInv'  OBVIOUS
<1>1. ASSUME NEW p \in People,
             \/ handleWithoutPayload(p) \/ InsertFails(p) \/ sendIncomingRequestAlert(p)
             \/ RequestTimesOut(p) \/ sendNeutralGreeting(p)
      PROVE  IInv'
  BY <1>1, ElsewhereIInv DEF handleWithoutPayload, InsertFails,
     sendIncomingRequestAlert, RequestTimesOut, sendNeutralGreeting, pressVars
<1>2. ASSUME NEW o \in Operators,
             OpenPage(o) \/ LeavePage(o) \/ ListStep(o) \/ ListFails(o)
      PROVE  IInv'
  BY <1>2, ElsewhereIInv DEF OpenPage, LeavePage, ListStep, Refetch,
     handleListIncomingRequests, ListArrives, ListFails, pressVars
<1>3. CASE UNCHANGED vars
  BY <1>3, ElsewhereIInv DEF vars, pressVars
<1> QED
  BY <1>1, <1>2, <1>3, InsertIInv, PressIInv, CreateIInv, MarkIInv, PanelIInv DEF Next

(* Whatever fails and whoever presses at the same time, a request that is
   marked has a session: none is lost from the lists (IncomingRequestsPage.tsx
   creates first and marks afterwards). *)
THEOREM RequestsProcessedHasSession == Spec => []ProcessedHasSession
<1>1. IInv => ProcessedHasSession
  BY DEF IInv
<1> QED  BY InitIInv, StepIInv, <1>1, PTL DEF Spec

-------------------------------------------------------------------------------
(***************************************************************************)
(* The types and the greeting.  What a person was told and what he is owed *)
(* is covered by his rows and by the two failures that the bot greets too: *)
(* he is owed a greeting when the bot is about to send it, and when the    *)
(* bot waits for a call that has stored his row.                           *)
(***************************************************************************)
Rows(p) == {r \in Requests : sender[r] = p}
Lost == failed \cap {"insert", "timeout"}
Owed(p) ==
  IF bot[p] = "greeting" \/ (bot[p] = "waiting" /\ call[p] = "alert") THEN 1 ELSE 0

Covered(p) ==
  /\ bot[p] = "waiting" => call[p] # "none"
  /\ greeted[p] \in Nat
  /\ greeted[p] + Owed(p) <= Cardinality(Rows(p)) + Cardinality(Lost)

(* The types without the bound of greeted, which follows from Covered. *)
PlainTypeOK ==
  /\ sender \in [Requests -> People \cup {Nobody}]
  /\ status \in [Requests -> {"new", "processed"}]
  /\ bot \in [People -> {"idle", "waiting", "greeting"}]
  /\ call \in [People -> {"none", "insert", "alert"}]
  /\ row \in [People -> Requests \cup {0}]
  /\ greeted \in [People -> Nat]
  /\ alerts \subseteq Requests
  /\ page \in [Operators -> {"list", "other"}]
  /\ list \in [Operators -> SUBSET Requests]
  /\ fetch \in [Operators -> {"none", "asked", "read"}]
  /\ seen \in [Operators -> SUBSET Requests]
  /\ press \in [Operators -> {"idle", "create", "created", "mark", "marked"}]
  /\ pressed \in [Operators -> Requests \cup {0}]
  /\ sessions \in [Requests -> 0..MaxSessions]
  /\ failed \subseteq Faults /\ Cardinality(failed) <= MaxFailures

GInv == PlainTypeOK /\ \A p \in People : Covered(p)

LEMMA FaultsFinite ==
  ASSUME NEW S \in SUBSET Faults
  PROVE  /\ IsFiniteSet(S) /\ Cardinality(S) \in Nat
         /\ \A f \in Faults \ S : Cardinality(S \cup {f}) = Cardinality(S) + 1
<1>1. IsFiniteSet({"insert", "timeout", "list"}) /\ IsFiniteSet({"create", "mark", "answer"})
  <2>1. IsFiniteSet({})
    BY FS_EmptySet
  <2>2. IsFiniteSet({"insert"}) /\ IsFiniteSet({"create"})
    BY <2>1, FS_AddElement
  <2>3. IsFiniteSet({"insert"} \cup {"timeout"}) /\ IsFiniteSet({"create"} \cup {"mark"})
    BY <2>2, FS_AddElement
  <2>4. /\ IsFiniteSet(({"insert"} \cup {"timeout"}) \cup {"list"})
        /\ IsFiniteSet(({"create"} \cup {"mark"}) \cup {"answer"})
    BY <2>3, FS_AddElement
  <2>5. /\ {"insert", "timeout", "list"} = ({"insert"} \cup {"timeout"}) \cup {"list"}
        /\ {"create", "mark", "answer"} = ({"create"} \cup {"mark"}) \cup {"answer"}
    OBVIOUS
  <2> QED  BY <2>4, <2>5
<1>2. IsFiniteSet({"insert", "timeout", "list"} \cup {"create", "mark", "answer"})
  BY <1>1, FS_Union
<1>3. Faults = {"insert", "timeout", "list"} \cup {"create", "mark", "answer"}
  BY DEF Faults
<1>4. IsFiniteSet(S)
  BY <1>2, <1>3, FS_Subset
<1> QED  BY <1>4, FS_CardinalityType, FS_AddElement

(* A failure costs one more greeting without a row if it is of the kinds that
   the bot greets, and none else. *)
LEMMA FaultLost ==
  ASSUME PlainTypeOK, NEW f \in Faults, Fault(f)
  PROVE  /\ failed' \subseteq Faults /\ Cardinality(failed') <= MaxFailures
         /\ Cardinality(Lost') \in Nat /\ Cardinality(Lost) \in Nat
         /\ Cardinality(Lost') = Cardinality(Lost) + (IF f \in {"insert", "timeout"} THEN 1 ELSE 0)
<1>1. failed \subseteq Faults /\ f \notin failed /\ failed' = failed \cup {f}
  BY DEF PlainTypeOK, Fault
<1>2. Cardinality(failed') = Cardinality(failed) + 1 /\ Cardinality(failed) \in Nat
  BY <1>1, FaultsFinite
<1>3. Cardinality(failed') <= MaxFailures
  BY <1>2, IncomingAssumption DEF Fault
<1>4. Lost \subseteq Faults /\ f \notin Lost
  BY <1>1 DEF Lost
<1>5. CASE f \in {"insert", "timeout"}
  <2>1. Lost' = Lost \cup {f}
    BY <1>1, <1>5 DEF Lost
  <2>2. Cardinality(Lost \cup {f}) = Cardinality(Lost) + 1 /\ Cardinality(Lost) \in Nat
    BY <1>4, FaultsFinite
  <2> QED  BY <1>1, <1>3, <1>5, <2>1, <2>2
<1>6. CASE f \notin {"insert", "timeout"}
  <2>1. Lost' = Lost
    BY <1>1, <1>6 DEF Lost
  <2>2. Cardinality(Lost) \in Nat
    BY <1>4, FaultsFinite
  <2> QED  BY <1>1, <1>3, <1>6, <2>1, <2>2
<1> QED  BY <1>5, <1>6

LEMMA RowsFinite ==
  ASSUME NEW p
  PROVE  IsFiniteSet(Rows(p)) /\ Cardinality(Rows(p)) \in Nat
         /\ Cardinality(Rows(p)) <= Cardinality(Requests)
BY IncomingAssumption, FS_Subset, FS_CardinalityType DEF Rows

-------------------------------------------------------------------------------
(* Types, action by action. *)
LEMMA PersonTypes ==
  ASSUME PlainTypeOK, NEW p \in People,
         \/ handleWithoutPayload(p) \/ InsertRequest(p) \/ sendIncomingRequestAlert(p)
         \/ sendNeutralGreeting(p)
  PROVE  PlainTypeOK'
<1>1. CASE handleWithoutPayload(p)
  BY <1>1 DEF handleWithoutPayload, PlainTypeOK, listVars, pressVars
<1>2. CASE InsertRequest(p)
  BY <1>2 DEF InsertRequest, Free, PlainTypeOK, listVars, pressVars
<1>3. CASE sendIncomingRequestAlert(p)
  BY <1>3 DEF sendIncomingRequestAlert, BotClientSet, Answer, PlainTypeOK, listVars, pressVars
<1>4. CASE sendNeutralGreeting(p)
  BY <1>4 DEF sendNeutralGreeting, PlainTypeOK, listVars, pressVars
<1> QED  BY <1>1, <1>2, <1>3, <1>4

LEMMA PersonFaultTypes ==
  ASSUME PlainTypeOK, NEW p \in People, InsertFails(p) \/ RequestTimesOut(p)
  PROVE  PlainTypeOK'
<1>1. failed' \subseteq Faults /\ Cardinality(failed') <= MaxFailures
  BY FaultLost DEF InsertFails, RequestTimesOut, Faults
<1>2. CASE InsertFails(p)
  BY <1>1, <1>2 DEF InsertFails, Answer, PlainTypeOK, listVars, pressVars
<1>3. CASE RequestTimesOut(p)
  BY <1>1, <1>3 DEF RequestTimesOut, PlainTypeOK, listVars, pressVars
<1> QED  BY <1>2, <1>3

LEMMA ListTypes ==
  ASSUME PlainTypeOK, NEW o \in Operators, OpenPage(o) \/ LeavePage(o) \/ ListStep(o)
  PROVE  PlainTypeOK'
<1>1. CASE OpenPage(o) \/ LeavePage(o) \/ Refetch(o)
  BY <1>1 DEF OpenPage, LeavePage, Refetch, PlainTypeOK, personVars, pressVars
<1>2. CASE handleListIncomingRequests(o)
  BY <1>2 DEF handleListIncomingRequests, NewOnes, PlainTypeOK, personVars, pressVars
<1>3. CASE ListArrives(o)
  BY <1>3 DEF ListArrives, PlainTypeOK, personVars, pressVars
<1> QED  BY <1>1, <1>2, <1>3 DEF ListStep

(* The button acts on a request: FirstCallInv. *)
LEMMA ButtonTypes ==
  ASSUME PlainTypeOK, FirstCallInv, NEW o \in Operators,
         \/ \E r \in Requests : Press(o, r)
         \/ handleCreateSession(o) \/ SessionCreated(o)
         \/ handleUpdateIncomingRequestStatus(o) \/ Marked(o)
  PROVE  PlainTypeOK'
<1>1. CASE \E r \in Requests : Press(o, r)
  BY <1>1 DEF Press, PlainTypeOK, personVars, listVars
<1>2. CASE handleCreateSession(o)
  <2>1. /\ pressed[o] \in Requests /\ sessions[pressed[o]] < MaxSessions
        /\ sessions' = [sessions EXCEPT ![pressed[o]] = sessions[pressed[o]] + 1]
    BY <1>2 DEF handleCreateSession, FirstCallInv
  <2>2. sessions[pressed[o]] \in 0..MaxSessions
    BY <2>1 DEF PlainTypeOK
  <2>3. sessions[pressed[o]] + 1 \in 0..MaxSessions
    BY <2>1, <2>2, IncomingAssumption
  <2>4. sessions' \in [Requests -> 0..MaxSessions]
    BY <2>1, <2>3 DEF PlainTypeOK
  <2> QED  BY <1>2, <2>4 DEF handleCreateSession, PlainTypeOK, personVars, listVars
<1>3. CASE SessionCreated(o)
  BY <1>3 DEF SessionCreated, PlainTypeOK, personVars, listVars
<1>4. CASE handleUpdateIncomingRequestStatus(o)
  BY <1>4 DEF handleUpdateIncomingRequestStatus, PlainTypeOK, personVars, listVars
<1>5. CASE Marked(o)
  BY <1>5 DEF Marked, PlainTypeOK, personVars
<1> QED  BY <1>1, <1>2, <1>3, <1>4, <1>5

LEMMA PanelFaultTypes ==
  ASSUME PlainTypeOK, NEW o \in Operators, ListFails(o) \/ PressFails(o)
  PROVE  PlainTypeOK' /\ Cardinality(Lost') = Cardinality(Lost) /\ Cardinality(Lost) \in Nat
<1>1. PICK f \in Faults \ {"insert", "timeout"} : Fault(f)
  BY DEF ListFails, PressFails, Faults
<1>2. /\ failed' \subseteq Faults /\ Cardinality(failed') <= MaxFailures
      /\ Cardinality(Lost') = Cardinality(Lost) /\ Cardinality(Lost) \in Nat
  BY <1>1, FaultLost
<1>3. CASE ListFails(o)
  BY <1>2, <1>3 DEF ListFails, PlainTypeOK, personVars, pressVars
<1>4. CASE PressFails(o)
  BY <1>2, <1>4 DEF PressFails, PlainTypeOK, personVars, listVars
<1> QED  BY <1>2, <1>3, <1>4

-------------------------------------------------------------------------------
(* Whoever the step does not greet keeps what covers him: rows are not taken
   back and failures not forgotten. *)
LEMMA SameCovered ==
  ASSUME GInv, NEW q \in People,
         bot'[q] = bot[q], call'[q] = call[q], greeted'[q] = greeted[q],
         Rows(q)' = Rows(q), Cardinality(Lost') \in Nat,
         Cardinality(Lost') >= Cardinality(Lost)
  PROVE  Covered(q)'
<1>1. Covered(q) /\ Cardinality(Lost) \in Nat
  BY FaultsFinite DEF GInv, PlainTypeOK, Lost
<1>2. Cardinality(Rows(q)) \in Nat
  BY RowsFinite
<1>3. Owed(q)' = Owed(q) /\ Owed(q) \in Nat
  BY DEF Owed
<1>4. Cardinality(Rows(q)') = Cardinality(Rows(q))
  OBVIOUS
<1> QED  BY <1>1, <1>2, <1>3, <1>4 DEF Covered

(* Steps that are not about people. *)
LEMMA ElsewhereCovered ==
  ASSUME GInv, UNCHANGED personVars,
         Cardinality(Lost') = Cardinality(Lost), Cardinality(Lost) \in Nat
  PROVE  \A q \in People : Covered(q)'
<1> TAKE q \in People
<1>1. /\ bot'[q] = bot[q] /\ call'[q] = call[q] /\ greeted'[q] = greeted[q]
      /\ Rows(q)' = Rows(q)
  BY DEF personVars, Rows
<1> QED  BY <1>1, SameCovered

(* A command is no promise yet. *)
LEMMA CommandCovered ==
  ASSUME GInv, NEW p \in People, handleWithoutPayload(p)
  PROVE  \A q \in People : Covered(q)'
<1> TAKE q \in People
<1>1. /\ bot' = [bot EXCEPT ![p] = "waiting"] /\ call' = [call EXCEPT ![p] = "insert"]
      /\ UNCHANGED <<sender, greeted, failed>>
  BY DEF handleWithoutPayload
<1>2. Rows(q)' = Rows(q) /\ Lost' = Lost
  BY <1>1 DEF Rows, Lost
<1>3. /\ Cardinality(Lost) \in Nat /\ Cardinality(Rows(q)) \in Nat
      /\ Cardinality(Lost') = Cardinality(Lost)
      /\ Cardinality(Rows(q)') = Cardinality(Rows(q))
  BY <1>2, RowsFinite, FaultsFinite DEF GInv, PlainTypeOK, Lost
<1>4. CASE q = p
  <2>1. bot'[p] = "waiting" /\ call'[p] = "insert" /\ greeted'[p] = greeted[p]
    BY <1>1 DEF GInv, PlainTypeOK
  <2>2. Covered(p) /\ Owed(p) \in Nat /\ Owed(p)' = 0
    BY <2>1 DEF GInv, Owed
  <2> QED  BY <1>3, <1>4, <2>1, <2>2 DEF Covered
<1>5. CASE q # p
  <2>1. bot'[q] = bot[q] /\ call'[q] = call[q] /\ greeted'[q] = greeted[q]
    BY <1>1, <1>5 DEF GInv, PlainTypeOK
  <2> QED  BY <1>2, <1>3, <2>1, SameCovered
<1> QED  BY <1>4, <1>5

(* The insert: one row more for one who is owed at most one greeting more. *)
LEMMA InsertCovered ==
  ASSUME GInv, NEW p \in People, InsertRequest(p)
  PROVE  \A q \in People : Covered(q)'
<1> TAKE q \in People
<1>1. PICK r \in Free : sender' = [sender EXCEPT ![r] = p]
  BY DEF InsertRequest
<1>2. /\ call[p] = "insert" /\ call' = [call EXCEPT ![p] = "alert"]
      /\ UNCHANGED <<bot, greeted, failed>>
  BY DEF InsertRequest
<1>3. r \in Requests /\ sender[r] = Nobody
  BY <1>1 DEF Free
<1>4. Lost' = Lost /\ Cardinality(Lost) \in Nat
  BY <1>2, FaultsFinite DEF Lost, GInv, PlainTypeOK
<1>5. Cardinality(Lost') = Cardinality(Lost)
  BY <1>4
<1>6. CASE q = p
  <2>1. Rows(p)' = Rows(p) \cup {r} /\ r \notin Rows(p)
    BY <1>1, <1>3, IncomingAssumption DEF Rows, GInv, PlainTypeOK
  <2>2. Cardinality(Rows(p) \cup {r}) = Cardinality(Rows(p)) + 1
    BY <2>1, RowsFinite, FS_AddElement
  <2>3. Cardinality(Rows(p)') = Cardinality(Rows(p)) + 1 /\ Cardinality(Rows(p)) \in Nat
    BY <2>1, <2>2, RowsFinite
  <2>4. bot'[p] = bot[p] /\ call'[p] = "alert" /\ greeted'[p] = greeted[p]
    BY <1>2 DEF GInv, PlainTypeOK
  <2>5. Covered(p) /\ Owed(p) \in {0, 1} /\ Owed(p)' <= Owed(p) + 1 /\ Owed(p)' \in {0, 1}
    BY <2>4, <1>2 DEF GInv, Owed
  <2> QED  BY <1>4, <1>5, <1>6, <2>3, <2>4, <2>5 DEF Covered
<1>7. CASE q # p
  <2>1. bot'[q] = bot[q] /\ call'[q] = call[q] /\ greeted'[q] = greeted[q]
    BY <1>2, <1>7 DEF GInv, PlainTypeOK
  <2>2. Rows(q)' = Rows(q)
    BY <1>1, <1>3, <1>7, IncomingAssumption DEF Rows, GInv, PlainTypeOK
  <2> QED  BY <1>4, <1>5, <2>1, <2>2, SameCovered
<1> QED  BY <1>6, <1>7

(* The panic behind the insert answers with an error, and the bot greets. *)
LEMMA AlertCovered ==
  ASSUME GInv, NEW p \in People, sendIncomingRequestAlert(p)
  PROVE  \A q \in People : Covered(q)'
<1> TAKE q \in People
<1>1. /\ call[p] = "alert" /\ call' = [call EXCEPT ![p] = "none"]
      /\ bot' = [bot EXCEPT ![p] = IF bot[p] = "waiting" THEN "greeting" ELSE bot[p]]
      /\ UNCHANGED <<sender, greeted, failed>>
  BY DEF sendIncomingRequestAlert, Answer
<1>2. Rows(q)' = Rows(q) /\ Lost' = Lost
  BY <1>1 DEF Rows, Lost
<1>3. /\ Cardinality(Lost) \in Nat /\ Cardinality(Rows(q)) \in Nat
      /\ Cardinality(Lost') = Cardinality(Lost)
      /\ Cardinality(Rows(q)') = Cardinality(Rows(q))
  BY <1>2, RowsFinite, FaultsFinite DEF GInv, PlainTypeOK, Lost
<1>4. CASE q = p
  <2>1. /\ bot'[p] = IF bot[p] = "waiting" THEN "greeting" ELSE bot[p]
        /\ call'[p] = "none" /\ greeted'[p] = greeted[p]
    BY <1>1 DEF GInv, PlainTypeOK
  <2>2. Covered(p) /\ Owed(p) \in Nat /\ Owed(p)' = Owed(p) /\ bot'[p] # "waiting"
    BY <2>1, <1>1 DEF GInv, Owed
  <2> QED  BY <1>3, <1>4, <2>1, <2>2 DEF Covered
<1>5. CASE q # p
  <2>1. bot'[q] = bot[q] /\ call'[q] = call[q] /\ greeted'[q] = greeted[q]
    BY <1>1, <1>5 DEF GInv, PlainTypeOK
  <2> QED  BY <1>2, <1>3, <2>1, SameCovered
<1> QED  BY <1>4, <1>5

(* A failed insert and a time-out: one greeting more is owed, and one failure
   more counted. *)
LEMMA FailureCovered ==
  ASSUME GInv, NEW p \in People, InsertFails(p) \/ RequestTimesOut(p)
  PROVE  \A q \in People : Covered(q)'
<1> TAKE q \in People
<1>1. PICK f \in {"insert", "timeout"} : Fault(f)
  BY DEF InsertFails, RequestTimesOut
<1>2. /\ Cardinality(Lost') = Cardinality(Lost) + 1
      /\ Cardinality(Lost) \in Nat /\ Cardinality(Lost') \in Nat
  BY <1>1, FaultLost DEF GInv, Faults
<1>3. /\ UNCHANGED <<sender, greeted>>
      /\ \A x \in People \ {p} : bot'[x] = bot[x] /\ call'[x] = call[x]
      /\ bot'[p] # "waiting" /\ greeted'[p] = greeted[p]
  BY DEF InsertFails, RequestTimesOut, Answer, GInv, PlainTypeOK
<1>4. Rows(q)' = Rows(q)
  BY <1>3 DEF Rows
<1>5. Cardinality(Rows(q)') = Cardinality(Rows(q)) /\ Cardinality(Rows(q)) \in Nat
  BY <1>4, RowsFinite
<1>6. CASE q = p
  <2>1. Covered(p) /\ Owed(p) \in {0, 1} /\ Owed(p)' \in {0, 1}
    BY DEF GInv, Owed
  <2> QED  BY <1>2, <1>3, <1>5, <1>6, <2>1 DEF Covered
<1>7. CASE q # p
  BY <1>2, <1>3, <1>4, <1>7, SameCovered
<1> QED  BY <1>6, <1>7

(* The greeting is the one that was owed. *)
LEMMA GreetingCovered ==
  ASSUME GInv, NEW p \in People, sendNeutralGreeting(p)
  PROVE  \A q \in People : Covered(q)'
<1> TAKE q \in People
<1>1. /\ bot[p] = "greeting" /\ bot' = [bot EXCEPT ![p] = "idle"]
      /\ greeted' = [greeted EXCEPT ![p] = greeted[p] + 1]
      /\ UNCHANGED <<sender, call, failed>>
  BY DEF sendNeutralGreeting
<1>2. Rows(q)' = Rows(q) /\ Lost' = Lost
  BY <1>1 DEF Rows, Lost
<1>3. /\ Cardinality(Lost) \in Nat /\ Cardinality(Rows(q)) \in Nat
      /\ Cardinality(Lost') = Cardinality(Lost)
      /\ Cardinality(Rows(q)') = Cardinality(Rows(q))
  BY <1>2, RowsFinite, FaultsFinite DEF GInv, PlainTypeOK, Lost
<1>4. CASE q = p
  <2>1. bot'[p] = "idle" /\ greeted'[p] = greeted[p] + 1
    BY <1>1 DEF GInv, PlainTypeOK
  <2>2. Covered(p) /\ Owed(p) = 1 /\ Owed(p)' = 0
    BY <2>1, <1>1 DEF GInv, Owed
  <2> QED  BY <1>3, <1>4, <2>1, <2>2 DEF Covered
<1>5. CASE q # p
  <2>1. bot'[q] = bot[q] /\ call'[q] = call[q] /\ greeted'[q] = greeted[q]
    BY <1>1, <1>5 DEF GInv, PlainTypeOK
  <2> QED  BY <1>2, <1>3, <2>1, SameCovered
<1> QED  BY <1>4, <1>5

-------------------------------------------------------------------------------
LEMMA InitGInv == Init => GInv
<1> SUFFICES ASSUME Init PROVE GInv  OBVIOUS
<1>1. Cardinality(failed) = 0 /\ Cardinality(Lost) = 0
  BY FS_EmptySet DEF Init, Lost
<1>2. PlainTypeOK
  BY <1>1, IncomingAssumption DEF Init, PlainTypeOK
<1>3. ASSUME NEW p \in People PROVE Covered(p)
  <2>1. bot[p] = "idle" /\ greeted[p] = 0 /\ Owed(p) = 0
    BY DEF Init, Owed
  <2> QED  BY <1>1, <2>1, RowsFinite DEF Covered
<1> QED  BY <1>2, <1>3 DEF GInv

LEMMA StepGInv == FirstCallInv /\ GInv /\ [Next]_vars => GInv'
<1> SUFFICES ASSUME FirstCallInv, GInv, [Next]_vars PROVE GInv'  OBVIOUS
<1>1. ASSUME NEW p \in People,
             \/ handleWithoutPayload(p) \/ InsertRequest(p) \/ InsertFails(p)
             \/ sendIncomingRequestAlert(p) \/ RequestTimesOut(p) \/ sendNeutralGreeting(p)
      PROVE  GInv'
  BY <1>1, PersonTypes, PersonFaultTypes, CommandCovered, InsertCovered, AlertCovered,
     FailureCovered, GreetingCovered DEF GInv
<1>2. ASSUME NEW o \in Operators, ListFails(o) \/ PressFails(o)
      PROVE  GInv'
  <2>1. UNCHANGED personVars
    BY <1>2 DEF ListFails, PressFails
  <2> QED  BY <1>2, <2>1, PanelFaultTypes, ElsewhereCovered DEF GInv
<1>3. Cardinality(Lost) \in Nat
  BY FaultsFinite DEF Lost, GInv, PlainTypeOK
<1>4. ASSUME UNCHANGED <<personVars, failed>>
      PROVE  \A q \in People : Covered(q)'
  <2>1. Lost' = Lost
    BY <1>4 DEF Lost
  <2>2. Cardinality(Lost') = Cardinality(Lost)
    BY <2>1
  <2> QED  BY <1>3, <1>4, <2>2, ElsewhereCovered
<1>5. ASSUME NEW o \in Operators, OpenPage(o) \/ LeavePage(o) \/ ListStep(o)
      PROVE  GInv'
  <2>1. UNCHANGED <<personVars, failed>>
    BY <1>5 DEF OpenPage, LeavePage, ListStep, Refetch, handleListIncomingRequests, ListArrives
  <2> QED  BY <1>4, <1>5, <2>1, ListTypes DEF GInv
<1>6. ASSUME NEW o \in Operators,
             \/ \E r \in Requests : Press(o, r)
             \/ handleCreateSession(o) \/ SessionCreated(o)
             \/ handleUpdateIncomingRequestStatus(o) \/ Marked(o)
      PROVE  GInv'
  <2>1. UNCHANGED <<personVars, failed>>
    BY <1>6 DEF Press, handleCreateSession, SessionCreated,
       handleUpdateIncomingRequestStatus, Marked
  <2> QED  BY <1>4, <1>6, <2>1, ButtonTypes DEF GInv
<1>7. CASE UNCHANGED vars
  <2>1. UNCHANGED <<personVars, failed>> /\ PlainTypeOK'
    BY <1>7 DEF vars, personVars, listVars, pressVars, GInv, PlainTypeOK
  <2> QED  BY <1>4, <2>1 DEF GInv
<1> QED  BY <1>1, <1>2, <1>5, <1>6, <1>7 DEF Next

THEOREM GreetingInvariant == Spec => []GInv
<1>1. IInv => FirstCallInv
  BY DEF IInv
<1> QED  BY InitIInv, StepIInv, InitGInv, StepGInv, <1>1, PTL DEF Spec

(* TypeOK: the rows, the handlers of the bot and of the backend, the panels and
   their counters; a person is greeted at most once per row and failure. *)
THEOREM RequestsTypeOK == Spec => []TypeOK
<1>1. ASSUME GInv PROVE TypeOK
  <2>1. ASSUME NEW p \in People
        PROVE  greeted[p] \in 0..(Cardinality(Requests) + MaxFailures)
    <3>1. Lost \subseteq failed /\ IsFiniteSet(failed)
      BY <1>1, FaultsFinite DEF Lost, GInv, PlainTypeOK
    <3>2. /\ Cardinality(Lost) <= Cardinality(failed)
          /\ Cardinality(Lost) \in Nat /\ Cardinality(failed) \in Nat
      BY <3>1, FS_Subset, FS_CardinalityType
    <3>3. Cardinality(failed) <= MaxFailures /\ greeted[p] \in Nat /\ Owed(p) \in {0, 1}
          /\ greeted[p] + Owed(p) <= Cardinality(Rows(p)) + Cardinality(Lost)
      BY <1>1 DEF GInv, PlainTypeOK, Covered, Owed
    <3>4. /\ Cardinality(Rows(p)) \in Nat /\ Cardinality(Rows(p)) <= Cardinality(Requests)
          /\ Cardinality(Requests) \in Nat
      BY RowsFinite, IncomingAssumption, FS_CardinalityType
    <3> QED  BY <3>2, <3>3, <3>4, IncomingAssumption
  <2>2. greeted \in [People -> 0..(Cardinality(Requests) + MaxFailures)]
    BY <1>1, <2>1 DEF GInv, PlainTypeOK
  <2> QED  BY <1>1, <2>2 DEF GInv, PlainTypeOK, TypeOK
<1> QED  BY <1>1, GreetingInvariant, PTL

(* GreetedIsStored: whoever is told that his request is taken has a row for each
   time he was told, but for a failed insert and a time-out (start.go). *)
THEOREM RequestsGreetedIsStored == Spec => []GreetedIsStored
<1>1. ASSUME GInv PROVE GreetedIsStored
  <2> SUFFICES ASSUME NEW p \in People
               PROVE  greeted[p] <= Cardinality(Rows(p)) + Cardinality(Lost)
    BY DEF GreetedIsStored, Rows, Lost
  <2>1. Covered(p) /\ Owed(p) \in {0, 1}
    BY <1>1 DEF GInv, Owed
  <2>2. Cardinality(Rows(p)) \in Nat /\ Cardinality(Lost) \in Nat
    BY <1>1, RowsFinite, FaultsFinite DEF GInv, PlainTypeOK, Lost
  <2> QED  BY <2>1, <2>2 DEF Covered
<1> QED  BY <1>1, GreetingInvariant, PTL
=============================================================================
