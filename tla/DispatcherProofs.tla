--------------------------- MODULE DispatcherProofs ---------------------------
(***************************************************************************)
(* Proofs about Dispatcher, for every number of updates, pool size, channel*)
(* capacity, number of crashes and choice of hanging handlers.             *)
(*                                                                         *)
(* BoundedPool and ReturnsAfterHandlers speak of goroutines, the code only *)
(* of two counters: SlotsInv says what the counters count.  OncePerProcess *)
(* needs LineInv: the updates a process took stand in one line, the        *)
(* goroutines first, then the one in Run's hands, then the channel, so     *)
(* that no goroutine exists yet for the one Run is about to start.         *)
(***************************************************************************)
EXTENDS Dispatcher, FiniteSetTheorems, TLAPS

SlotsInv ==
  /\ semaphore = Cardinality(In(HoldsSlot)) + (IF loop = "spawn" THEN 1 ELSE 0)
  /\ wg = Cardinality(In(Counted))

(* The last update that left the channel. *)
Taken == offset - 1 - Len(updates)

LineInv ==
  /\ offset > 0 => Taken >= 0
  /\ offset = 0 => updates = <<>> /\ current = 0 /\ In({"none"}) = Updates
  /\ \A i \in DOMAIN updates : updates[i] = Taken + i
  /\ offset <= fetched + 1 /\ fetched <= sent
  /\ current = 0 <=> loop \in {"receive", "wait", "returned"}
  /\ current # 0 => current = Taken
  /\ \A u \in Updates : worker[u] # "none" => u <= Taken /\ u # current

RunsInv ==
  \A u \in Updates : runs[u] = IF worker[u] \in {"none", "ready"} THEN 0 ELSE 1

EndInv ==
  /\ loop \in {"wait", "returned"} => closed /\ updates = <<>>
  /\ closed => Pushed
  /\ loop = "returned" => In(Counted) = {}

IInv == TypeOK /\ SlotsInv /\ LineInv /\ RunsInv /\ EndInv

-------------------------------------------------------------------------------
(* What changing one goroutine does to the number of goroutines in a set of
   states. *)
LEMMA InChange ==
  ASSUME worker \in [Updates -> WorkerStates], NEW u \in Updates, NEW w \in WorkerStates,
         worker' = [worker EXCEPT ![u] = w], NEW S
  PROVE  /\ Cardinality(In(S)) \in Nat
         /\ w \in S /\ worker[u] \notin S => Cardinality(In(S)') = Cardinality(In(S)) + 1
         /\ w \notin S /\ worker[u] \in S => Cardinality(In(S)') = Cardinality(In(S)) - 1
         /\ (w \in S <=> worker[u] \in S) => In(S)' = In(S)
<1>1. IsFiniteSet(Updates) BY FS_Interval, DispatcherAssumption DEF Updates
<1>2. IsFiniteSet(In(S)) BY <1>1, FS_Subset DEF In
<1>3. Cardinality(In(S)) \in Nat BY <1>2, FS_CardinalityType
<1>4. ASSUME w \in S, worker[u] \notin S PROVE Cardinality(In(S)') = Cardinality(In(S)) + 1
  <2>1. In(S)' = In(S) \cup {u} /\ u \notin In(S) BY <1>4 DEF In
  <2> QED BY <1>2, <2>1, FS_AddElement
<1>5. ASSUME w \notin S, worker[u] \in S PROVE Cardinality(In(S)') = Cardinality(In(S)) - 1
  <2>1. In(S)' = In(S) \ {u} /\ u \in In(S) BY <1>5 DEF In
  <2> QED BY <1>2, <2>1, FS_RemoveElement
<1>6. (w \in S <=> worker[u] \in S) => In(S)' = In(S) BY DEF In
<1> QED BY <1>3, <1>4, <1>5, <1>6

(* No goroutine, no token. *)
LEMMA InNone ==
  ASSUME worker = [u \in Updates |-> "none"], NEW S, "none" \notin S
  PROVE  In(S) = {} /\ Cardinality(In(S)) = 0
<1>1. In(S) = {} BY DEF In
<1> QED BY <1>1, FS_EmptySet

LEMMA InCount == ASSUME NEW S PROVE Cardinality(In(S)) \in Nat /\ (Cardinality(In(S)) = 0 <=> In(S) = {})
<1>1. IsFiniteSet(Updates) BY FS_Interval, DispatcherAssumption DEF Updates
<1>2. IsFiniteSet(In(S)) BY <1>1, FS_Subset DEF In
<1> QED BY <1>2, FS_CardinalityType, FS_EmptySet

LEMMA InitIInv == Init => IInv
<1> SUFFICES ASSUME Init PROVE IInv OBVIOUS
<1>1. TypeOK
  <2>1. updates \in Seq(Updates) BY DEF Init
  <2>2. worker \in [Updates -> WorkerStates] /\ runs \in [Updates -> Nat] BY DEF Init, WorkerStates
  <2>3. semaphore \in 0..Concurrency /\ wg \in Nat /\ crashes \in 0..MaxCrashes
    BY DispatcherAssumption DEF Init
  <2>4. /\ sent \in 0..MaxUpdates /\ confirmed \in 0..MaxUpdates /\ current \in 0..MaxUpdates
        /\ offset \in 0..(MaxUpdates + 1) /\ fetched \in 0..MaxUpdates
    BY DispatcherAssumption DEF Init
  <2>5. /\ closed \in BOOLEAN /\ loop \in {"receive", "acquire", "spawn", "wait", "returned"}
        /\ handled \subseteq Updates /\ lost \subseteq Updates
    BY DEF Init
  <2> QED BY <2>1, <2>2, <2>3, <2>4, <2>5 DEF TypeOK
<1>2. SlotsInv
  BY InNone DEF Init, SlotsInv, HoldsSlot, Counted
<1>3. LineInv
  BY DispatcherAssumption DEF Init, LineInv, Taken, In, Updates
<1>4. RunsInv BY DEF Init, RunsInv
<1>5. EndInv BY DEF Init, EndInv
<1> QED BY <1>1, <1>2, <1>3, <1>4, <1>5 DEF IInv

-------------------------------------------------------------------------------
(* The steps that touch neither Run nor the goroutines. *)
LEMMA UserSendsIInv == IInv /\ UserSends => IInv'
<1> SUFFICES ASSUME IInv, UserSends PROVE IInv' OBVIOUS
<1> USE DEF IInv, UserSends, pollVars, channelVars, loopVars, slotVars, historyVars
<1>1. TypeOK' BY DispatcherAssumption DEF TypeOK
<1>2. SlotsInv' BY DEF SlotsInv, In
<1>3. LineInv' BY DispatcherAssumption DEF LineInv, Taken, In, TypeOK
<1>4. RunsInv' BY DEF RunsInv
<1>5. EndInv' BY DEF EndInv, In, Pushed
<1> QED BY <1>1, <1>2, <1>3, <1>4, <1>5

LEMMA PollIInv == IInv /\ (Poll \/ PollReturnsNothing) => IInv'
<1> SUFFICES ASSUME IInv, Poll \/ PollReturnsNothing PROVE IInv' OBVIOUS
<1> USE DEF IInv, Poll, PollReturnsNothing, pollVars, channelVars, loopVars, slotVars, historyVars
<1>0. /\ Acknowledged \in 0..MaxUpdates
      /\ offset = 0 => updates = <<>> /\ current = 0
      /\ offset # 0 => Acknowledged + 1 = offset
  BY DispatcherAssumption DEF Acknowledged, TypeOK, LineInv
<1>1. TypeOK'
  <2>1. offset' \in 0..(MaxUpdates + 1) /\ fetched' \in 0..MaxUpdates /\ confirmed' \in 0..MaxUpdates
    BY <1>0, DispatcherAssumption DEF TypeOK
  <2> QED BY <2>1 DEF TypeOK
<1>2. SlotsInv' BY DEF SlotsInv, In
<1>3. LineInv'
  <2>1. CASE PollReturnsNothing BY <2>1 DEF LineInv, Taken, In
  <2>2. CASE Poll /\ offset = 0
    <3>1. /\ updates' = <<>> /\ current' = 0 /\ Taken' = Acknowledged
          /\ \A u \in Updates : worker'[u] = "none"
      BY <1>0, <2>2 DEF LineInv, Taken, In
    <3>2. offset' > 0 /\ offset' <= fetched' + 1 /\ fetched' <= sent' /\ Acknowledged >= 0
      BY <1>0, <2>2 DEF TypeOK
    <3>3. current' = 0 <=> loop' \in {"receive", "wait", "returned"} BY DEF LineInv
    <3> QED BY <3>1, <3>2, <3>3 DEF LineInv
  <2>3. CASE Poll /\ offset # 0
    <3>1. offset' = offset /\ Taken' = Taken BY <1>0, <2>3 DEF Taken
    <3>2. offset' <= fetched' + 1 /\ fetched' <= sent' BY <1>0, <2>3 DEF TypeOK
    <3> QED BY <2>3, <3>1, <3>2 DEF LineInv, In
  <2> QED BY <2>1, <2>2, <2>3
<1>4. RunsInv' BY DEF RunsInv
<1>5. EndInv' BY DEF EndInv, In
<1> QED BY <1>1, <1>2, <1>3, <1>4, <1>5

LEMMA PushIInv == IInv /\ Push => IInv'
<1> SUFFICES ASSUME IInv, Push PROVE IInv' OBVIOUS
<1> USE DEF IInv, Push, telegramVars, loopVars, slotVars, historyVars
<1>0. offset \in Updates /\ offset <= fetched
  BY DispatcherAssumption DEF Pushed, TypeOK, Updates
<1>1. TypeOK' BY <1>0, DispatcherAssumption DEF TypeOK, Updates
<1>2. SlotsInv' BY DEF SlotsInv, In
<1>3. LineInv'
  <2>1. Len(updates') = Len(updates) + 1 /\ DOMAIN updates' = 1..(Len(updates) + 1)
    BY <1>0 DEF TypeOK
  <2>2. Taken' = Taken /\ Taken = offset - 1 - Len(updates) /\ Len(updates) \in Nat
    BY <2>1, <1>0 DEF Taken, TypeOK, Updates
  <2>3. \A i \in DOMAIN updates' : updates'[i] = Taken' + i
    <3> TAKE i \in DOMAIN updates'
    <3>1. CASE i = Len(updates) + 1 BY <3>1, <2>2, <1>0 DEF TypeOK, Updates
    <3>2. CASE i # Len(updates) + 1
      <4>1. i \in DOMAIN updates /\ updates'[i] = updates[i] BY <3>2, <2>1, <1>0 DEF TypeOK
      <4> QED BY <4>1, <2>2 DEF LineInv
    <3> QED BY <3>1, <3>2
  <2> QED BY <2>2, <2>3, <1>0 DEF LineInv, In, TypeOK, Updates
<1>4. RunsInv' BY DEF RunsInv
<1>5. EndInv' BY DEF EndInv, In
<1> QED BY <1>1, <1>2, <1>3, <1>4, <1>5

LEMMA CloseIInv == IInv /\ Close => IInv'
<1> SUFFICES ASSUME IInv, Close PROVE IInv' OBVIOUS
<1> USE DEF IInv, Close, telegramVars, pollVars, loopVars, slotVars, historyVars
<1>1. TypeOK' BY DEF TypeOK
<1>2. SlotsInv' BY DEF SlotsInv, In
<1>3. LineInv' BY DEF LineInv, Taken, In
<1>4. RunsInv' BY DEF RunsInv
<1>5. EndInv' BY DEF EndInv, In, Pushed
<1> QED BY <1>1, <1>2, <1>3, <1>4, <1>5

LEMMA CrashIInv == IInv /\ Crash => IInv'
<1> SUFFICES ASSUME IInv, Crash PROVE IInv' OBVIOUS
<1> USE DEF IInv, Crash, telegramVars
<1>1. TypeOK'
  <2>1. InChannel \subseteq Updates BY DEF InChannel, TypeOK
  <2>2. current \in Updates \cup {0} BY DEF TypeOK, Updates
  <2>3. lost' \subseteq Updates BY <2>1, <2>2 DEF Held, In, TypeOK
  <2>4. worker' \in [Updates -> WorkerStates] /\ runs' \in [Updates -> Nat] BY DEF WorkerStates
  <2>5. updates' \in Seq(Updates) OBVIOUS
  <2>6. /\ sent' \in 0..MaxUpdates /\ confirmed' \in 0..MaxUpdates /\ current' \in 0..MaxUpdates
        /\ offset' \in 0..(MaxUpdates + 1) /\ fetched' \in 0..MaxUpdates
        /\ semaphore' \in 0..Concurrency /\ wg' \in Nat /\ crashes' \in 0..MaxCrashes
    BY DispatcherAssumption DEF TypeOK
  <2>7. /\ closed' \in BOOLEAN /\ handled' \subseteq Updates
        /\ loop' \in {"receive", "acquire", "spawn", "wait", "returned"}
    BY DEF TypeOK
  <2> HIDE DEF Crash
  <2> QED BY <2>3, <2>4, <2>5, <2>6, <2>7 DEF TypeOK
<1>2. SlotsInv'
  <2>1. /\ Cardinality(In(HoldsSlot)') = 0
        /\ Cardinality(In(Counted)') = 0
    <3>1. In(HoldsSlot)' = {} /\ In(Counted)' = {} BY DEF In, HoldsSlot, Counted
    <3> QED BY <3>1, FS_EmptySet
  <2> QED BY <2>1 DEF SlotsInv
<1>3. LineInv' BY DEF LineInv, Taken, In, TypeOK
<1>4. RunsInv' BY DEF RunsInv
<1>5. EndInv' BY DEF EndInv, Pushed
<1> QED BY <1>1, <1>2, <1>3, <1>4, <1>5

-------------------------------------------------------------------------------
(* The steps of Run. *)
LEMMA ReceiveIInv == IInv /\ Receive => IInv'
<1> SUFFICES ASSUME IInv, Receive PROVE IInv' OBVIOUS
<1> USE DEF IInv, Receive, telegramVars, pollVars, slotVars, historyVars
<1>0. /\ Len(updates) \in Nat /\ Len(updates) > 0 /\ updates[1] \in Updates
      /\ current' = updates[1] /\ DOMAIN updates = 1..Len(updates)
      /\ updates' \in Seq(Updates) /\ Len(updates') = Len(updates) - 1
      /\ DOMAIN updates' = 1..(Len(updates) - 1)
      /\ \A i \in DOMAIN updates' : updates'[i] = updates[i + 1]
  BY DEF TypeOK
<1>1. TypeOK' BY <1>0 DEF TypeOK, Updates
<1>2. SlotsInv' BY DEF SlotsInv, In
<1>3. LineInv'
  <2>1. offset > 0 /\ current = 0 /\ Taken' = Taken + 1 /\ Taken \in Int /\ Taken >= 0
    BY <1>0 DEF LineInv, Taken, TypeOK
  <2>2. current' = Taken' BY <1>0, <2>1 DEF LineInv
  <2>3. \A i \in DOMAIN updates' : updates'[i] = Taken' + i
    <3> TAKE i \in DOMAIN updates'
    <3>1. i \in Nat /\ i + 1 \in DOMAIN updates /\ updates'[i] = updates[i + 1] BY <1>0
    <3>2. updates[i + 1] = Taken + (i + 1) BY <3>1 DEF LineInv
    <3> QED BY <3>1, <3>2, <2>1
  <2>4. \A u \in Updates : worker[u] # "none" => u <= Taken' /\ u # current'
    BY <2>1, <2>2 DEF LineInv, Updates
  <2> QED BY <1>0, <2>1, <2>2, <2>3, <2>4 DEF LineInv, In, Updates
<1>4. RunsInv' BY DEF RunsInv
<1>5. EndInv' BY DEF EndInv, In, Pushed
<1> QED BY <1>1, <1>2, <1>3, <1>4, <1>5

LEMMA AcquireIInv == IInv /\ Acquire => IInv'
<1> SUFFICES ASSUME IInv, Acquire PROVE IInv' OBVIOUS
<1> USE DEF IInv, Acquire, telegramVars, pollVars, channelVars, historyVars
<1>1. TypeOK' BY DispatcherAssumption DEF TypeOK
<1>2. SlotsInv'
  <2>1. Cardinality(In(HoldsSlot)) \in Nat BY InCount
  <2> QED BY <2>1 DEF SlotsInv, In
<1>3. LineInv' BY DEF LineInv, Taken, In
<1>4. RunsInv' BY DEF RunsInv
<1>5. EndInv' BY DEF EndInv, In, Pushed
<1> QED BY <1>1, <1>2, <1>3, <1>4, <1>5

LEMMA SpawnIInv == IInv /\ Spawn => IInv'
<1> SUFFICES ASSUME IInv, Spawn PROVE IInv' OBVIOUS
<1> USE DEF IInv, Spawn, telegramVars, pollVars, channelVars, historyVars
<1>0. current \in Updates /\ current = Taken /\ worker[current] = "none" /\ offset > 0
  BY DEF TypeOK, LineInv, Updates
<1>1. TypeOK' BY <1>0, DispatcherAssumption DEF TypeOK, WorkerStates
<1>2. SlotsInv'
  <2>0. /\ "none" \notin HoldsSlot /\ "ready" \in HoldsSlot
        /\ "none" \notin Counted /\ "ready" \in Counted
        /\ "ready" \in WorkerStates /\ worker \in [Updates -> WorkerStates]
    BY DEF HoldsSlot, Counted, WorkerStates, TypeOK
  <2>1. Cardinality(In(HoldsSlot)') = Cardinality(In(HoldsSlot)) + 1
    BY <1>0, <2>0, InChange
  <2>2. Cardinality(In(Counted)') = Cardinality(In(Counted)) + 1
    BY <1>0, <2>0, InChange
  <2> QED BY <2>1, <2>2, InCount DEF SlotsInv
<1>3. LineInv'
  <2>1. Taken' = Taken BY DEF Taken
  <2>2. \A u \in Updates : worker'[u] # "none" => u <= Taken' /\ u # current'
    BY <1>0, <2>1 DEF LineInv, TypeOK, Updates
  <2> QED BY <1>0, <2>1, <2>2 DEF LineInv
<1>4. RunsInv' BY <1>0 DEF RunsInv, TypeOK
<1>5. EndInv' BY DEF EndInv, Pushed
<1> QED BY <1>1, <1>2, <1>3, <1>4, <1>5

LEMMA EndIInv == IInv /\ (RangeEnds \/ WaitReturns) => IInv'
<1> SUFFICES ASSUME IInv, RangeEnds \/ WaitReturns PROVE IInv' OBVIOUS
<1> USE DEF IInv, RangeEnds, WaitReturns, telegramVars, pollVars, channelVars, slotVars, historyVars
<1>1. TypeOK' BY DEF TypeOK
<1>2. SlotsInv' BY DEF SlotsInv, In
<1>3. LineInv' BY DEF LineInv, Taken, In
<1>4. RunsInv' BY DEF RunsInv
<1>5. EndInv'
  <2>1. WaitReturns => In(Counted) = {} BY InCount DEF SlotsInv
  <2> QED BY <2>1 DEF EndInv, Pushed, In
<1> QED BY <1>1, <1>2, <1>3, <1>4, <1>5

-------------------------------------------------------------------------------
(* The steps of a goroutine. *)
LEMMA GoroutineIInv == ASSUME IInv, NEW u \in Updates, Goroutine(u) PROVE IInv'
<1> USE DEF IInv, telegramVars, pollVars, channelVars, loopVars, slotVars, historyVars
<1>0. PICK w \in WorkerStates \ {"none", "ready"} :
        worker' = [worker EXCEPT ![u] = w] /\ worker[u] # "none"
  <2>1. CASE CallHandler(u) \/ HandlerReturns(u) \/ HandlerPanics(u)
    BY <2>1 DEF CallHandler, HandlerReturns, HandlerPanics, WorkerStates
  <2>2. CASE Release(u) BY <2>2 DEF Release, WorkerStates
  <2>3. CASE Done(u) \/ Recover(u) BY <2>3 DEF Done, Recover, WorkerStates
  <2> QED BY <2>1, <2>2, <2>3 DEF Goroutine
<1>1. /\ UNCHANGED <<sent, confirmed, offset, fetched, updates, closed, loop, current, lost, crashes>>
      /\ handled' \in {handled, handled \cup {u}}
  BY DEF Goroutine, CallHandler, HandlerReturns, HandlerPanics, Release, Done, Recover
<1>2. SlotsInv' /\ semaphore' \in 0..Concurrency /\ wg' \in Nat
  <2>0. /\ \A S : Cardinality(In(S)) \in Nat
        /\ In(HoldsSlot)' = In(HoldsSlot) =>
             Cardinality(In(HoldsSlot)') = Cardinality(In(HoldsSlot))
        /\ In(Counted)' = In(Counted) =>
             Cardinality(In(Counted)') = Cardinality(In(Counted))
    BY InCount
  <2>1. CASE CallHandler(u) \/ HandlerReturns(u) \/ HandlerPanics(u)
    <3>1. In(HoldsSlot)' = In(HoldsSlot) /\ In(Counted)' = In(Counted)
      BY <2>1 DEF CallHandler, HandlerReturns, HandlerPanics, In, HoldsSlot, Counted, TypeOK
    <3> QED BY <3>1, <2>1, <2>0 DEF CallHandler, HandlerReturns, HandlerPanics, SlotsInv, TypeOK
  <2>2. CASE Release(u)
    <3>1. /\ worker[u] \in HoldsSlot /\ w \notin HoldsSlot
          /\ w \in Counted /\ worker[u] \in Counted
      BY <2>2, <1>0 DEF Release, HoldsSlot, Counted, TypeOK
    <3>2. /\ Cardinality(In(HoldsSlot)') = Cardinality(In(HoldsSlot)) - 1
          /\ In(Counted)' = In(Counted)
      BY <3>1, <1>0, InChange DEF TypeOK
    <3> QED BY <3>2, <2>2, <2>0, <1>1, DispatcherAssumption DEF Release, SlotsInv, TypeOK
  <2>3. CASE Done(u)
    <3>1. /\ worker[u] \notin HoldsSlot /\ w \notin HoldsSlot
          /\ w \notin Counted /\ worker[u] \in Counted
      BY <2>3, <1>0 DEF Done, HoldsSlot, Counted, TypeOK
    <3>2. /\ Cardinality(In(Counted)') = Cardinality(In(Counted)) - 1
          /\ Cardinality(In(Counted)') \in Nat
          /\ In(HoldsSlot)' = In(HoldsSlot)
      <4>1. Cardinality(In(Counted)) # 0 /\ Cardinality(In(Counted)) \in Nat BY <3>1, InCount DEF In
      <4>2. Cardinality(In(Counted)') = Cardinality(In(Counted)) - 1 BY <3>1, <1>0, InChange DEF TypeOK
      <4>3. In(HoldsSlot)' = In(HoldsSlot) BY <3>1, <1>0, InChange DEF TypeOK
      <4> QED BY <4>1, <4>2, <4>3
    <3> QED BY <3>2, <2>3, <2>0, <1>1 DEF Done, SlotsInv, TypeOK
  <2>4. CASE Recover(u)
    <3>1. In(HoldsSlot)' = In(HoldsSlot) /\ In(Counted)' = In(Counted)
      BY <2>4 DEF Recover, In, HoldsSlot, Counted, TypeOK
    <3> QED BY <3>1, <2>4, <2>0 DEF Recover, SlotsInv, TypeOK
  <2> QED BY <2>1, <2>2, <2>3, <2>4 DEF Goroutine
<1>3. RunsInv' /\ runs' \in [Updates -> Nat]
  <2>1. CASE CallHandler(u) BY <2>1 DEF CallHandler, RunsInv, TypeOK
  <2>2. CASE ~CallHandler(u)
    <3>1. runs' = runs /\ worker[u] \notin {"none", "ready"}
      BY <2>2 DEF Goroutine, HandlerReturns, HandlerPanics, Release, Done, Recover
    <3> QED BY <3>1, <1>0 DEF RunsInv, TypeOK
  <2> QED BY <2>1, <2>2
<1>4. TypeOK' BY <1>0, <1>1, <1>2, <1>3 DEF TypeOK
<1>5. LineInv' BY <1>0, <1>1 DEF LineInv, Taken, In, TypeOK
<1>6. EndInv'
  <2>1. In(Counted) = {} => In(Counted)' = {}
    <3>1. SUFFICES ASSUME In(Counted) = {} PROVE w \notin Counted BY <1>0 DEF In
    <3>2. worker[u] \notin Counted BY <3>1 DEF In
    <3>3. worker[u] = "panickedDone" /\ w = "ended"
      BY <3>2, <1>0 DEF Goroutine, CallHandler, HandlerReturns, HandlerPanics, Release, Done,
                        Recover, Counted, HoldsSlot, TypeOK
    <3> QED BY <3>3 DEF Counted, HoldsSlot
  <2> QED BY <2>1, <1>1 DEF EndInv, Pushed
<1> QED BY <1>2, <1>3, <1>4, <1>5, <1>6

-------------------------------------------------------------------------------
LEMMA StutterIInv == IInv /\ UNCHANGED vars => IInv'
BY DEF IInv, vars, TypeOK, SlotsInv, LineInv, RunsInv, EndInv, Taken, In, Pushed,
       telegramVars, pollVars, channelVars, loopVars, slotVars, historyVars

LEMMA NextIInv == IInv /\ [Next]_vars => IInv'
BY UserSendsIInv, PollIInv, PushIInv, CloseIInv, CrashIInv, ReceiveIInv, AcquireIInv, SpawnIInv,
   EndIInv, GoroutineIInv, StutterIInv DEF Next, Loop, Stopped

(* The invariant of the update loop. *)
THEOREM DispatcherInvariant == Spec => []IInv
<1>1. Init => IInv BY InitIInv
<1>2. IInv /\ [Next]_vars => IInv' BY NextIInv
<1> QED BY <1>1, <1>2, PTL DEF Spec

(* TypeOK: in particular the semaphore never holds more than Concurrency
   tokens and the WaitGroup's counter is never negative (dispatcher.go:40-46). *)
THEOREM DispatcherTypeCorrect == Spec => []TypeOK
<1>1. IInv => TypeOK BY DEF IInv
<1> QED BY <1>1, DispatcherInvariant, PTL

(* BoundedPool: never more than Concurrency handlers at once (dispatcher.go:17),
   whatever panics, hangs or dies. *)
THEOREM PoolIsBounded == Spec => []BoundedPool
<1>1. IInv => BoundedPool
  <2> SUFFICES ASSUME IInv PROVE BoundedPool OBVIOUS
  <2>1. IsFiniteSet(Updates) BY FS_Interval, DispatcherAssumption DEF Updates
  <2>2. IsFiniteSet(In(HoldsSlot)) BY <2>1, FS_Subset DEF In
  <2>3. In({"running", "ready"}) \subseteq In(HoldsSlot) BY DEF In, HoldsSlot
  <2>4. /\ Cardinality(In({"running", "ready"})) \in Nat
        /\ Cardinality(In(HoldsSlot)) \in Nat
        /\ Cardinality(In({"running", "ready"})) <= Cardinality(In(HoldsSlot))
    BY <2>2, <2>3, FS_Subset, FS_CardinalityType
  <2>5. Cardinality(In(HoldsSlot)) <= semaphore /\ semaphore \in 0..Concurrency
    BY <2>4 DEF IInv, SlotsInv, TypeOK
  <2> QED BY <2>4, <2>5, DispatcherAssumption DEF BoundedPool
<1> QED BY <1>1, DispatcherInvariant, PTL

(* OncePerProcess: no update is handled twice by one process. *)
THEOREM HandledOncePerProcess == Spec => []OncePerProcess
<1>1. IInv => OncePerProcess BY DEF IInv, RunsInv, OncePerProcess
<1> QED BY <1>1, DispatcherInvariant, PTL

(* ReturnsAfterHandlers: Run returns only after the handlers it started
   (dispatcher.go:35-36). *)
THEOREM RunWaitsForHandlers == Spec => []ReturnsAfterHandlers
<1>1. IInv => ReturnsAfterHandlers
  BY DEF IInv, EndInv, LineInv, ReturnsAfterHandlers, In, Counted, HoldsSlot
<1> QED BY <1>1, DispatcherInvariant, PTL

-------------------------------------------------------------------------------
(* Nothing taken from Telegram falls between two stools: what its offset has
   passed was handled, is held, or is accounted for as lost.  This is the
   strengthening of ConfirmedIsHeld that Poll needs, which confirms the offset. *)
Kept == handled \cup Held \cup lost
KeptInv == \A u \in Updates : u <= confirmed \/ u < offset => u \in Kept

LEMMA LoopKeeps == IInv /\ Loop => Kept \subseteq Kept'
<1> SUFFICES ASSUME IInv, Loop PROVE Kept \subseteq Kept' OBVIOUS
<1> USE DEF IInv, telegramVars, pollVars, slotVars, historyVars, channelVars
<1>1. CASE Receive
  <2>1. /\ updates \in Seq(Updates) /\ updates # <<>> /\ current = 0
        /\ current' = Head(updates) /\ updates' = Tail(updates)
    BY <1>1 DEF Receive, TypeOK, LineInv
  <2>4. /\ Len(updates) \in Nat /\ DOMAIN updates = 1..Len(updates) /\ updates[1] \in Updates
        /\ current' = updates[1] /\ DOMAIN updates' = 1..(Len(updates) - 1)
        /\ \A i \in DOMAIN updates' : updates'[i] = updates[i + 1]
    BY <2>1
  <2>2. InChannel \subseteq InChannel' \cup ({current'} \ {0})
    <3> SUFFICES ASSUME NEW i \in DOMAIN updates
                 PROVE  updates[i] \in InChannel' \cup ({current'} \ {0})
      BY DEF InChannel
    <3>1. CASE i = 1 BY <3>1, <2>4 DEF Updates
    <3>2. CASE i # 1
      <4>1. i - 1 \in DOMAIN updates' /\ updates'[i - 1] = updates[i] BY <3>2, <2>4
      <4> QED BY <4>1 DEF InChannel
    <3> QED BY <3>1, <3>2
  <2>3. In(WorkerStates \ {"none"})' = In(WorkerStates \ {"none"}) BY <1>1 DEF Receive, In
  <2> QED BY <2>1, <2>2, <2>3, <1>1 DEF Receive, Kept, Held
<1>2. CASE Spawn
  <2>1. current \in Updates /\ worker'[current] = "ready"
    BY <1>2 DEF Spawn, TypeOK, LineInv, Updates
  <2>2. In(WorkerStates \ {"none"}) \cup {current} \subseteq In(WorkerStates \ {"none"})'
    BY <1>2, <2>1 DEF Spawn, In, WorkerStates, TypeOK
  <2>3. InChannel' = InChannel BY <1>2 DEF Spawn, InChannel
  <2> QED BY <2>2, <2>3, <1>2 DEF Spawn, Kept, Held
<1>3. CASE Acquire \/ RangeEnds \/ WaitReturns
  BY <1>3 DEF Acquire, RangeEnds, WaitReturns, Kept, Held, InChannel, In
<1> QED BY <1>1, <1>2, <1>3 DEF Loop

LEMMA GoroutineKeeps == ASSUME IInv, NEW u \in Updates, Goroutine(u) PROVE Kept \subseteq Kept'
<1> USE DEF IInv, telegramVars, pollVars, channelVars, loopVars, slotVars, historyVars
<1>1. /\ UNCHANGED <<updates, current, lost>>
      /\ handled \subseteq handled'
  BY DEF Goroutine, CallHandler, HandlerReturns, HandlerPanics, Release, Done, Recover
<1>2. In(WorkerStates \ {"none"}) \subseteq In(WorkerStates \ {"none"})'
  <2>1. \E w \in WorkerStates \ {"none"} : worker' = [worker EXCEPT ![u] = w]
    <3>1. CASE CallHandler(u) \/ HandlerReturns(u) \/ HandlerPanics(u)
      BY <3>1 DEF CallHandler, HandlerReturns, HandlerPanics, WorkerStates
    <3>2. CASE Release(u) BY <3>2 DEF Release, WorkerStates
    <3>3. CASE Done(u) \/ Recover(u) BY <3>3 DEF Done, Recover, WorkerStates
    <3> QED BY <3>1, <3>2, <3>3 DEF Goroutine
  <2> QED BY <2>1 DEF In, TypeOK
<1>3. InChannel' = InChannel BY <1>1 DEF InChannel
<1> QED BY <1>1, <1>2, <1>3 DEF Kept, Held

LEMMA NextKeptInv == IInv /\ KeptInv /\ [Next]_vars => KeptInv'
<1> SUFFICES ASSUME IInv, KeptInv, [Next]_vars PROVE KeptInv' OBVIOUS
<1> USE DEF IInv
<1>1. CASE Loop
  <2>1. UNCHANGED <<confirmed, offset>>
    BY <1>1 DEF Loop, Receive, Acquire, Spawn, RangeEnds, WaitReturns, telegramVars, pollVars
  <2> QED BY <1>1, <2>1, LoopKeeps DEF KeptInv
<1>2. ASSUME NEW u \in Updates, Goroutine(u) PROVE KeptInv'
  <2>1. UNCHANGED <<confirmed, offset>>
    BY <1>2 DEF Goroutine, CallHandler, HandlerReturns, HandlerPanics, Release, Done, Recover,
                telegramVars, pollVars
  <2> QED BY <1>2, <2>1, GoroutineKeeps DEF KeptInv
<1>3. CASE UserSends \/ Close \/ UNCHANGED vars
  <2>1. Kept' = Kept /\ UNCHANGED <<confirmed, offset>>
    BY <1>3 DEF UserSends, Close, vars, telegramVars, pollVars, channelVars, loopVars, historyVars,
                Kept, Held, InChannel, In
  <2> QED BY <2>1 DEF KeptInv
<1>4. CASE Poll \/ PollReturnsNothing
  <2>1. Kept' = Kept
    BY <1>4 DEF Poll, PollReturnsNothing, channelVars, loopVars, historyVars, Kept, Held, InChannel, In
  <2>2. /\ confirmed' = IF offset = 0 THEN confirmed ELSE offset - 1
        /\ offset' \in {offset, confirmed' + 1}
    BY <1>4 DEF Poll, PollReturnsNothing, Acknowledged, pollVars
  <2> QED BY <2>1, <2>2 DEF KeptInv, TypeOK, Updates
<1>5. CASE Push
  <2>1. /\ offset \in Updates /\ updates' = Append(updates, offset) /\ offset' = offset + 1
        /\ UNCHANGED <<confirmed, handled, lost, current, worker>>
    BY <1>5, DispatcherAssumption
    DEF Push, Pushed, TypeOK, Updates, telegramVars, loopVars, historyVars
  <2>2. InChannel \cup {offset} \subseteq InChannel'
    <3>1. /\ DOMAIN updates' = 1..(Len(updates) + 1) /\ DOMAIN updates = 1..Len(updates)
          /\ updates'[Len(updates) + 1] = offset
          /\ \A i \in 1..Len(updates) : updates'[i] = updates[i]
          /\ Len(updates) \in Nat
      BY <2>1 DEF TypeOK
    <3> QED BY <3>1 DEF InChannel
  <2>3. Kept \cup {offset} \subseteq Kept' BY <2>1, <2>2 DEF Kept, Held, In
  <2> QED BY <2>1, <2>3 DEF KeptInv, Updates
<1>6. CASE Crash
  <2>1. /\ offset' = 0 /\ confirmed' = confirmed /\ handled' = handled
        /\ lost' = lost \cup {u \in Held : u <= confirmed /\ u \notin handled}
    BY <1>6 DEF Crash, telegramVars
  <2> QED BY <2>1 DEF KeptInv, Kept, Updates
<1> QED BY <1>1, <1>2, <1>3, <1>4, <1>5, <1>6 DEF Next, Stopped

(* ConfirmedIsHeld: an update Telegram will not deliver again was given to a
   handler, is in the process, or was lost with one. *)
THEOREM NothingConfirmedIsDropped == Spec => []ConfirmedIsHeld
<1>1. Init => KeptInv BY DEF Init, KeptInv, Updates
<1>2. IInv /\ KeptInv /\ [Next]_vars => KeptInv' BY NextKeptInv
<1>3. IInv /\ KeptInv => ConfirmedIsHeld
  <2> SUFFICES ASSUME IInv, KeptInv, NEW u \in 1..confirmed PROVE u \in Kept
    BY DEF ConfirmedIsHeld, Kept
  <2>1. u \in Updates /\ u <= confirmed BY DispatcherAssumption DEF IInv, TypeOK, Updates
  <2> QED BY <2>1 DEF KeptInv
<1> QED BY <1>1, <1>2, <1>3, DispatcherInvariant, PTL DEF Spec

-------------------------------------------------------------------------------
(***************************************************************************)
(* Dispatcher implements UpdatePool, for every value of the constants.     *)
(*                                                                         *)
(* What the pool says of overtaking is not said anywhere in the code: it   *)
(* follows from the updates of a process standing in one line (LineInv)    *)
(* without a gap that Telegram would still redeliver (GapInv), so that     *)
(* whatever waits before a goroutine is a goroutine too and holds a slot.  *)
(***************************************************************************)

GapInv ==
  /\ confirmed <= sent
  /\ offset # 0 => confirmed < offset
  /\ \A v \in Updates : v <= Taken /\ v # current /\ worker[v] = "none" => v <= confirmed

LEMMA InitGapInv == Init => GapInv
BY DispatcherAssumption DEF Init, GapInv, Taken, Updates

(* The updates in the line, and those that are beyond it. *)
LEMMA Line ==
  ASSUME IInv
  PROVE  /\ Taken \in Int /\ Taken <= sent /\ Len(updates) \in Nat
         /\ Taken + Len(updates) = offset - 1
         /\ \A u \in Updates : worker[u] # "none" => u <= Taken /\ u <= sent /\ u # current
         /\ DOMAIN updates = 1..Len(updates)
         /\ \A u \in Updates : u \in InChannel <=> Taken < u /\ u < offset
<1> USE DEF IInv, TypeOK, LineInv, Taken
<1>1. Len(updates) \in Nat /\ DOMAIN updates = 1..Len(updates) OBVIOUS
<1>2. /\ offset \in Nat /\ fetched \in Nat /\ sent \in Nat
      /\ offset <= fetched + 1 /\ fetched <= sent
  BY DispatcherAssumption
<1>3. Taken \in Int /\ Taken <= sent /\ Taken + Len(updates) = offset - 1 BY <1>1, <1>2
<1>4. ASSUME NEW u \in Updates, worker[u] # "none" PROVE u <= Taken /\ u <= sent /\ u # current
  BY <1>2, <1>3, <1>4 DEF Updates
<1>5. ASSUME NEW u \in Updates PROVE u \in InChannel <=> Taken < u /\ u < offset
  <2>1. ASSUME u \in InChannel PROVE Taken < u /\ u < offset
    <3>1. PICK i \in DOMAIN updates : updates[i] = u BY <2>1 DEF InChannel
    <3>2. u = Taken + i BY <3>1
    <3> QED BY <3>2, <1>1, <1>3
  <2>2. ASSUME Taken < u, u < offset PROVE u \in InChannel
    <3>1. u - Taken \in DOMAIN updates BY <2>2, <1>1, <1>2, <1>3 DEF Updates
    <3>2. updates[u - Taken] = Taken + (u - Taken) BY <3>1
    <3>3. Taken + (u - Taken) = u BY <1>3 DEF Updates
    <3> QED BY <3>1, <3>2, <3>3 DEF InChannel
  <2> QED BY <2>1, <2>2
<1> QED BY <1>1, <1>3, <1>4, <1>5

(* Held in terms of the line. *)
LEMMA HeldIs ==
  ASSUME IInv, NEW u \in Updates
  PROVE  u \in Held <=> (Taken < u /\ u < offset) \/ u = current \/ worker[u] # "none"
<1>1. worker[u] \in WorkerStates /\ u # 0 BY DEF IInv, TypeOK, Updates
<1> QED BY <1>1, Line DEF Held, In

LEMMA NextGapInv == IInv /\ GapInv /\ [Next]_vars => GapInv'
<1> SUFFICES ASSUME IInv, GapInv, [Next]_vars PROVE GapInv' OBVIOUS
<1>0. /\ sent \in 0..MaxUpdates /\ confirmed \in 0..MaxUpdates /\ offset \in 0..(MaxUpdates + 1)
      /\ current \in 0..MaxUpdates /\ worker \in [Updates -> WorkerStates]
      /\ offset <= fetched + 1 /\ fetched <= sent /\ fetched \in 0..MaxUpdates
  BY DEF IInv, TypeOK, LineInv
<1>1. CASE UserSends \/ Close \/ UNCHANGED vars
  BY <1>1, <1>0, DispatcherAssumption
  DEF UserSends, Close, vars, telegramVars, pollVars, channelVars, loopVars, GapInv, Taken
<1>2. CASE Poll \/ PollReturnsNothing
  <2>1. CASE offset = 0 /\ Poll
    <3>1. /\ offset' = confirmed + 1 /\ updates' = <<>> /\ sent' = sent /\ confirmed' = confirmed
      BY <2>1 DEF Poll, Acknowledged, channelVars, IInv, LineInv
    <3>2. Taken' = confirmed BY <3>1, <1>0, DispatcherAssumption DEF Taken
    <3> QED BY <3>1, <3>2, <1>0, DispatcherAssumption DEF GapInv, Updates
  <2>2. CASE offset = 0 /\ PollReturnsNothing
    BY <2>2 DEF PollReturnsNothing, Acknowledged, pollVars, channelVars, loopVars, GapInv, Taken
  <2>3. CASE offset # 0
    <3>1. /\ UNCHANGED <<updates, current, worker, sent>> /\ confirmed' = offset - 1
          /\ offset' = offset
      BY <2>3, <1>2, <1>0, DispatcherAssumption
      DEF Poll, PollReturnsNothing, Acknowledged, pollVars, channelVars, loopVars
    <3>2. Taken' = Taken BY <3>1 DEF Taken
    <3>3. confirmed < confirmed' + 1 /\ confirmed' <= sent'
      BY <2>3, <3>1, <1>0, DispatcherAssumption DEF GapInv
    <3> QED BY <2>3, <3>1, <3>2, <3>3, <1>0, DispatcherAssumption DEF GapInv, Updates
  <2> QED BY <1>2, <2>1, <2>2, <2>3
<1>3. CASE Push
  <2>1. /\ offset' = offset + 1 /\ Len(updates') = Len(updates) + 1 /\ Len(updates) \in Nat
        /\ UNCHANGED <<current, worker, sent, confirmed>> /\ offset # 0
    BY <1>3, <1>0 DEF Push, Pushed, telegramVars, loopVars, IInv, TypeOK, Updates
  <2>2. Taken' = Taken BY <2>1, <1>0, DispatcherAssumption DEF Taken
  <2> QED BY <2>1, <2>2, <1>0, DispatcherAssumption DEF GapInv
<1>4. CASE Receive
  <2>1. /\ UNCHANGED <<sent, confirmed, offset, worker>>
        /\ Len(updates') = Len(updates) - 1 /\ Len(updates) \in Nat
    BY <1>4 DEF Receive, telegramVars, pollVars, IInv, TypeOK
  <2>2. Taken' = Taken + 1 /\ Taken \in Int BY <2>1, Line, <1>0, DispatcherAssumption DEF Taken
  <2>3. IInv' BY NextIInv
  <2>4. current' # 0 /\ current' = Taken' /\ current = 0
    BY <1>4, <2>3 DEF Receive, IInv, LineInv
  <2> QED BY <2>1, <2>2, <2>4, <1>0, DispatcherAssumption DEF GapInv, Updates
<1>5. CASE Spawn
  <2>1. /\ UNCHANGED <<sent, confirmed, offset, updates>> /\ current' = 0
        /\ worker' = [worker EXCEPT ![current] = "ready"]
    BY <1>5 DEF Spawn, telegramVars, pollVars, channelVars
  <2>2. Taken' = Taken BY <2>1 DEF Taken
  <2> QED BY <2>1, <2>2, <1>0 DEF GapInv
<1>6. CASE Acquire \/ RangeEnds \/ WaitReturns
  BY <1>6 DEF Acquire, RangeEnds, WaitReturns, telegramVars, pollVars, channelVars, GapInv, Taken
<1>7. ASSUME NEW u \in Updates, Goroutine(u) PROVE GapInv'
  <2>1. UNCHANGED <<sent, confirmed, offset, updates, current>>
    BY <1>7 DEF Goroutine, CallHandler, HandlerReturns, HandlerPanics, Release, Done, Recover,
                telegramVars, pollVars, channelVars, loopVars
  <2>2. \A v \in Updates : worker'[v] = "none" => worker[v] = "none"
    BY <1>7, <1>0 DEF Goroutine, CallHandler, HandlerReturns, HandlerPanics, Release, Done, Recover
  <2> QED BY <2>1, <2>2 DEF GapInv, Taken
<1>8. CASE Crash
  <2>1. UNCHANGED <<sent, confirmed>> /\ offset' = 0 /\ updates' = <<>>
    BY <1>8 DEF Crash, telegramVars
  <2> QED BY <2>1 DEF GapInv, Taken, Updates
<1> QED BY <1>1, <1>2, <1>3, <1>4, <1>5, <1>6, <1>7, <1>8 DEF Next, Loop, Stopped

-------------------------------------------------------------------------------
(* The first update that has no goroutine yet and still gets one: the process
   takes them from there on, one after the other. *)
Front ==
  IF offset = 0 THEN confirmed + 1 ELSE IF current = 0 THEN Taken + 1 ELSE Taken

LinePhase(u) ==
  IF u > sent THEN "unsent"
  ELSE IF worker[u] = "running" THEN "handling"
  ELSE IF worker[u] \notin {"none", "ready"} THEN "over"
  ELSE IF worker[u] = "ready" \/ Front <= u THEN "waiting"
  ELSE IF u \in handled THEN "over" ELSE "lost"

PhasesInLine ==
  /\ Front \in Int
  /\ \A u \in Updates : worker[u] # "none" => u < Front /\ u <= sent
  /\ \A u \in Updates : Phase(u) = LinePhase(u)

LEMMA PhasesAreInLine == IInv /\ GapInv => PhasesInLine
<1> SUFFICES ASSUME IInv, GapInv PROVE PhasesInLine OBVIOUS
<1>0. /\ sent \in 0..MaxUpdates /\ confirmed \in 0..MaxUpdates /\ offset \in 0..(MaxUpdates + 1)
      /\ current \in 0..MaxUpdates
      /\ offset = 0 => current = 0 /\ \A u \in Updates : worker[u] = "none"
      /\ current # 0 => current = Taken
  BY DEF IInv, TypeOK, LineInv, In
<1>1. Front \in Int BY <1>0, Line, DispatcherAssumption DEF Front
<1>2. ASSUME NEW u \in Updates, worker[u] # "none" PROVE u < Front /\ u <= sent
  BY <1>0, <1>2, Line, DispatcherAssumption DEF Front, Updates
<1>3. ASSUME NEW u \in Updates PROVE Phase(u) = LinePhase(u)
  <2>1. CASE worker[u] = "none"
    <3>1. u \in Held \/ u > confirmed <=> Front <= u
      <4>1. CASE offset = 0
        <5>1. u \notin Held BY <1>0, <2>1, <4>1, Line, HeldIs, DispatcherAssumption DEF Updates
        <5> QED BY <5>1, <4>1, <1>0, DispatcherAssumption DEF Front, Updates
      <4>2. CASE offset # 0
        <5>1. u \in Held <=> (Taken < u /\ u < offset) \/ u = current BY <2>1, HeldIs
        <5>2. confirmed < offset /\ (u <= Taken /\ u # current => u <= confirmed)
          BY <2>1, <4>2 DEF GapInv
        <5> QED BY <5>1, <5>2, <4>2, <1>0, Line, DispatcherAssumption DEF Front, Updates
      <4> QED BY <4>1, <4>2
    <3> QED BY <2>1, <3>1 DEF Phase, LinePhase
  <2>2. CASE worker[u] # "none"
    <3>1. u \in Held BY <2>2, HeldIs
    <3> QED BY <2>2, <3>1 DEF Phase, LinePhase
  <2> QED BY <2>1, <2>2
<1> QED BY <1>1, <1>2, <1>3 DEF PhasesInLine

LEMMA PhasesStayInLine == IInv' /\ GapInv' => PhasesInLine'
BY PhasesAreInLine, PTL

PhaseMap == [u \in Updates |-> Phase(u)]

(* The phases after a step, read off the line. *)
LEMMA PhasesAfter ==
  ASSUME PhasesInLine, PhasesInLine'
  PROVE  /\ (\A u \in Updates : LinePhase(u)' = LinePhase(u)) => PhaseMap' = PhaseMap
         /\ \A u \in Updates, p \in Pool!Phases :
              /\ \A v \in Updates : LinePhase(v)' = IF v = u THEN p ELSE LinePhase(v)
              => PhaseMap' = [PhaseMap EXCEPT ![u] = p]
         /\ \A u \in Updates : PhaseMap[u] = LinePhase(u) /\ PhaseMap'[u] = LinePhase(u)'
BY DEF PhasesInLine, PhaseMap

(* The line stays as it is, or its first update is given a goroutine: nothing
   a handler sees. *)
LEMMA QueueStep ==
  ASSUME IInv, GapInv, Poll \/ PollReturnsNothing \/ Push \/ Loop \/ Close,
         PhasesInLine, PhasesInLine'
  PROVE  UNCHANGED <<sent, handled, crashes, PhaseMap>>
<1>0. /\ sent \in 0..MaxUpdates /\ confirmed \in 0..MaxUpdates /\ offset \in 0..(MaxUpdates + 1)
      /\ current \in 0..MaxUpdates /\ worker \in [Updates -> WorkerStates]
      /\ updates \in Seq(Updates) /\ Len(updates) \in Nat /\ Taken \in Int
      /\ offset = 0 => current = 0 /\ updates = <<>> /\ \A u \in Updates : worker[u] = "none"
      /\ current # 0 => current = Taken
      /\ current = 0 <=> loop \in {"receive", "wait", "returned"}
  BY Line DEF IInv, TypeOK, LineInv, In
<1>1. UNCHANGED <<sent, handled, crashes>>
  BY DEF Poll, PollReturnsNothing, Push, Loop, Close, Receive, Acquire, Spawn, RangeEnds,
         WaitReturns, telegramVars, historyVars
<1>2. CASE ~Spawn
  <2>1. worker' = worker
    BY <1>2 DEF Poll, PollReturnsNothing, Push, Loop, Close, Receive, Acquire, RangeEnds, WaitReturns
  <2>2. Front' = Front
    <3>1. CASE Poll
      <4>1. UNCHANGED <<updates, current>> /\ offset' = Acknowledged + 1
        BY <3>1 DEF Poll, channelVars, loopVars
      <4> QED BY <4>1, <1>0, DispatcherAssumption DEF Front, Taken, Acknowledged
    <3>2. CASE PollReturnsNothing
      <4>1. UNCHANGED <<updates, current, offset>> /\ (offset = 0 => confirmed' = confirmed)
        BY <3>2 DEF PollReturnsNothing, Acknowledged, channelVars, loopVars, pollVars
      <4> QED BY <4>1 DEF Front, Taken
    <3>3. CASE Push
      <4>1. /\ offset # 0 /\ offset' = offset + 1 /\ current' = current
            /\ Len(updates') = Len(updates) + 1
        BY <3>3, <1>0, DispatcherAssumption DEF Push, Pushed, loopVars, Updates
      <4> QED BY <4>1, <1>0, DispatcherAssumption DEF Front, Taken
    <3>4. CASE Receive
      <4>1. /\ current = 0 /\ offset # 0 /\ offset' = offset
            /\ Len(updates') = Len(updates) - 1
        BY <3>4, <1>0 DEF Receive, pollVars
      <4>2. IInv' BY <3>4, NextIInv DEF Next, Loop
      <4>3. current' # 0 /\ current' = Taken' BY <3>4, <4>2 DEF Receive, IInv, LineInv
      <4> QED BY <4>1, <4>3, <1>0, DispatcherAssumption DEF Front, Taken
    <3>5. CASE Close \/ Acquire \/ RangeEnds \/ WaitReturns
      BY <3>5 DEF Close, Acquire, RangeEnds, WaitReturns, telegramVars, pollVars, loopVars,
                  channelVars, Front, Taken
    <3> QED BY <1>2, <3>1, <3>2, <3>3, <3>4, <3>5 DEF Loop
  <2> QED BY <1>1, <2>1, <2>2, PhasesAfter DEF LinePhase
<1>3. CASE Spawn
  <2>1. /\ current # 0 /\ current' = 0 /\ worker' = [worker EXCEPT ![current] = "ready"]
        /\ UNCHANGED <<offset, updates, confirmed>>
    BY <1>3, <1>0 DEF Spawn, telegramVars, pollVars, channelVars
  <2>2. /\ Front = current /\ Front' = current + 1 /\ current \in Updates
        /\ worker[current] = "none"
    BY <2>1, <1>0, DispatcherAssumption DEF Front, Taken, Updates, IInv, LineInv
  <2>3. ASSUME NEW u \in Updates PROVE LinePhase(u)' = LinePhase(u)
    <3>1. CASE u = current
      <4>1. worker'[u] = "ready" /\ Front <= u BY <3>1, <2>1, <2>2, <1>0 DEF Updates
      <4> QED BY <3>1, <4>1, <2>2, <1>1 DEF LinePhase
    <3>2. CASE u # current
      <4>1. worker'[u] = worker[u] /\ (Front' <= u <=> Front <= u)
        BY <3>2, <2>1, <2>2, <1>0 DEF Updates
      <4> QED BY <4>1, <1>1 DEF LinePhase
    <3> QED BY <3>1, <3>2
  <2> QED BY <1>1, <2>3, PhasesAfter
<1> QED BY <1>1, <1>2, <1>3

(* The pool counts as the dispatcher does. *)
LEMMA SameCount == \A S : Pool!Cardinality(S) = Cardinality(S)
BY DEF Pool!Cardinality, Cardinality

(* A handler is called for an update of the line: those before it that still
   wait have a goroutine too, and hold a slot, so the pool has room. *)
LEMMA CallStep ==
  ASSUME IInv, NEW u \in Updates, CallHandler(u), PhasesInLine, PhasesInLine'
  PROVE  Pool!Start(u)
<1>1. /\ worker[u] = "ready" /\ worker' = [worker EXCEPT ![u] = "running"]
      /\ handled' = handled \cup {u}
      /\ UNCHANGED <<sent, confirmed, crashes, offset, current, updates>>
      /\ worker \in [Updates -> WorkerStates] /\ sent \in Nat
  BY DispatcherAssumption DEF CallHandler, telegramVars, pollVars, channelVars, loopVars, IInv, TypeOK
<1>2. u < Front /\ u <= sent /\ Front \in Int BY <1>1 DEF PhasesInLine
<1>3. LinePhase(u) = "waiting" /\ LinePhase(u)' = "handling"
  BY <1>1, <1>2 DEF LinePhase, Updates
<1>4. ASSUME NEW v \in Updates, v # u PROVE LinePhase(v)' = LinePhase(v)
  <2>1. worker'[v] = worker[v] /\ (v \in handled' <=> v \in handled) /\ Front' = Front
    BY <1>1, <1>4 DEF Front, Taken
  <2> QED BY <2>1, <1>1 DEF LinePhase
<1>5. PhaseMap' = [PhaseMap EXCEPT ![u] = "handling"]
  BY <1>3, <1>4, PhasesAfter DEF Pool!Phases
<1>6. Cardinality(Pool!Ahead(u)) < Concurrency
  <2>1. ASSUME NEW v \in Pool!Ahead(u) PROVE v \in In(HoldsSlot) \ {u}
    <3>1. /\ v \in Updates /\ v # u
          /\ LinePhase(v) = "handling" \/ (LinePhase(v) = "waiting" /\ v < u)
      BY <1>3, PhasesAfter DEF Pool!Ahead, Pool!In, Pool!Updates, PhaseMap, Updates
    <3>2. v < u => v < Front BY <3>1, <1>2 DEF Updates
    <3>3. worker[v] \in {"running", "ready"} BY <3>1, <3>2, <1>2 DEF LinePhase, Updates
    <3> QED BY <3>1, <3>3 DEF In, HoldsSlot
  <2>2. IsFiniteSet(In(HoldsSlot)) /\ IsFiniteSet(In(HoldsSlot) \ {u}) /\ u \in In(HoldsSlot)
    <3>1. IsFiniteSet(Updates) BY FS_Interval, DispatcherAssumption DEF Updates
    <3>2. /\ In(HoldsSlot) \subseteq Updates /\ u \in In(HoldsSlot)
          /\ In(HoldsSlot) \ {u} \subseteq Updates
      BY <1>1 DEF In, HoldsSlot
    <3> QED BY <3>1, <3>2, FS_Subset
  <2>3. /\ Cardinality(In(HoldsSlot) \ {u}) = Cardinality(In(HoldsSlot)) - 1
        /\ Cardinality(In(HoldsSlot)) \in Nat
    BY <2>2, FS_RemoveElement, FS_CardinalityType
  <2>4. /\ Cardinality(Pool!Ahead(u)) <= Cardinality(In(HoldsSlot) \ {u})
        /\ Cardinality(Pool!Ahead(u)) \in Nat
    BY <2>1, <2>2, FS_Subset, FS_CardinalityType
  <2>5. Cardinality(In(HoldsSlot)) <= Concurrency
    BY <2>3, DispatcherAssumption DEF IInv, TypeOK, SlotsInv
  <2> QED BY <2>3, <2>4, <2>5, DispatcherAssumption
<1>7. Pool!Cardinality(Pool!Ahead(u)) < Concurrency BY <1>6, SameCount
<1> QED BY <1>1, <1>3, <1>5, <1>7, PhasesAfter DEF Pool!Start, PhaseMap

(* A handler returns or panics; what its goroutine does then is hidden. *)
LEMMA OverStep ==
  ASSUME IInv, NEW u \in Updates, Goroutine(u), ~CallHandler(u), PhasesInLine, PhasesInLine'
  PROVE  Pool!Return(u) \/ UNCHANGED <<sent, confirmed, handled, crashes, PhaseMap>>
<1>1. PICK w \in WorkerStates \ {"none", "ready", "running"} :
        /\ worker' = [worker EXCEPT ![u] = w] /\ worker[u] \notin {"none", "ready"}
        /\ UNCHANGED <<sent, confirmed, handled, crashes, offset, current, updates>>
  <2>1. CASE HandlerReturns(u) \/ HandlerPanics(u)
    BY <2>1 DEF HandlerReturns, HandlerPanics, WorkerStates, telegramVars, pollVars, channelVars,
                loopVars, historyVars
  <2>2. CASE Release(u)
    BY <2>2 DEF Release, WorkerStates, telegramVars, pollVars, channelVars, loopVars, historyVars
  <2>3. CASE Done(u) \/ Recover(u)
    BY <2>3 DEF Done, Recover, WorkerStates, telegramVars, pollVars, channelVars, loopVars, historyVars
  <2> QED BY <2>1, <2>2, <2>3 DEF Goroutine
<1>2. worker \in [Updates -> WorkerStates] /\ u <= sent /\ sent \in Nat
  BY <1>1, DispatcherAssumption DEF PhasesInLine, IInv, TypeOK
<1>3. LinePhase(u) \in {"handling", "over"} /\ LinePhase(u)' = "over"
  BY <1>1, <1>2 DEF LinePhase, Updates
<1>4. ASSUME NEW v \in Updates, v # u PROVE LinePhase(v)' = LinePhase(v)
  <2>1. worker'[v] = worker[v] /\ Front' = Front BY <1>1, <1>4 DEF Front, Taken
  <2> QED BY <2>1, <1>1 DEF LinePhase
<1>5. PhaseMap' = [PhaseMap EXCEPT ![u] = "over"]
  BY <1>3, <1>4, PhasesAfter DEF Pool!Phases
<1>6. CASE LinePhase(u) = "handling"
  BY <1>1, <1>5, <1>6, PhasesAfter DEF Pool!Return, PhaseMap
<1>7. CASE LinePhase(u) = "over"
  BY <1>1, <1>3, <1>4, <1>7, PhasesAfter
<1> QED BY <1>3, <1>6, <1>7

LEMMA SendStep ==
  ASSUME IInv, GapInv, UserSends, PhasesInLine, PhasesInLine'
  PROVE  Pool!Send
<1>1. PICK n \in Updates :
        /\ n = sent + 1 /\ sent \in Nat /\ sent' = n /\ sent < MaxUpdates
        /\ UNCHANGED <<confirmed, handled, crashes, worker, offset, current, updates>>
  BY DispatcherAssumption
  DEF UserSends, IInv, TypeOK, Updates, pollVars, channelVars, loopVars, historyVars
<1>2. worker[n] = "none" /\ Front' = Front /\ Front \in Int
  BY <1>1 DEF PhasesInLine, Front, Taken
<1>3. Front <= n
  <2>1. confirmed <= sent /\ Taken <= sent /\ Taken \in Int /\ confirmed \in Nat
    BY Line, DispatcherAssumption DEF GapInv, IInv, TypeOK
  <2> QED BY <2>1, <1>1 DEF Front
<1>4. LinePhase(n)' = "waiting" BY <1>1, <1>2, <1>3 DEF LinePhase, Updates
<1>5. ASSUME NEW v \in Updates, v # n PROVE LinePhase(v)' = LinePhase(v)
  <2>1. v > sent' <=> v > sent BY <1>1, <1>5 DEF Updates
  <2> QED BY <2>1, <1>1, <1>2 DEF LinePhase
<1>6. PhaseMap' = [PhaseMap EXCEPT ![n] = "waiting"]
  BY <1>4, <1>5, PhasesAfter DEF Pool!Phases
<1> QED BY <1>1, <1>6 DEF Pool!Send, PhaseMap

LEMMA DieStep ==
  ASSUME IInv, Crash, PhasesInLine, PhasesInLine'
  PROVE  Pool!Die
<1>1. /\ crashes < MaxCrashes /\ crashes' = crashes + 1
      /\ UNCHANGED <<sent, confirmed, handled>>
      /\ Front' = confirmed + 1 /\ \A u \in Updates : worker'[u] = "none"
      /\ confirmed \in Nat
  BY DispatcherAssumption DEF Crash, telegramVars, Front, IInv, TypeOK
<1>2. PhaseMap' = [u \in Updates |->
                     IF u > sent THEN "unsent"
                     ELSE IF u > confirmed THEN "waiting"
                     ELSE IF u \in handled THEN "over" ELSE "lost"]
  <2>1. ASSUME NEW u \in Updates
        PROVE  LinePhase(u)' = IF u > sent THEN "unsent"
                               ELSE IF u > confirmed THEN "waiting"
                               ELSE IF u \in handled THEN "over" ELSE "lost"
    BY <1>1 DEF LinePhase, Updates
  <2> QED BY <2>1 DEF PhasesInLine, PhaseMap
<1> QED BY <1>1, <1>2 DEF Pool!Die, PhaseMap, Pool!Updates, Updates

LEMMA PoolStep == IInv /\ GapInv /\ [Next]_vars => [Pool!Next]_(Pool!vars)
<1> SUFFICES ASSUME IInv, GapInv, [Next]_vars PROVE [Pool!Next]_(Pool!vars) OBVIOUS
<1>0. PhasesInLine /\ PhasesInLine'
  BY PhasesAreInLine, PhasesStayInLine, NextIInv, NextGapInv
<1>1. UNCHANGED <<sent, confirmed, handled, crashes, PhaseMap>> => UNCHANGED Pool!vars
  BY DEF Pool!vars, PhaseMap
<1>2. CASE UserSends BY <1>0, <1>2, SendStep DEF Pool!Next
<1>3. CASE Crash BY <1>0, <1>3, DieStep DEF Pool!Next
<1>4. ASSUME NEW u \in Updates, Goroutine(u) PROVE [Pool!Next]_(Pool!vars)
  <2>1. CASE CallHandler(u) BY <1>0, <2>1, CallStep DEF Pool!Next, Pool!Updates, Updates
  <2>2. CASE ~CallHandler(u)
    BY <1>0, <1>1, <1>4, <2>2, OverStep DEF Pool!Next, Pool!Updates, Updates
  <2> QED BY <2>1, <2>2
<1>5. CASE Poll \/ PollReturnsNothing \/ Push \/ Loop \/ Close
  <2>1. UNCHANGED <<sent, handled, crashes, PhaseMap>> BY <1>0, <1>5, QueueStep
  <2>2. confirmed' = confirmed \/ confirmed' \in (confirmed + 1)..sent
    <3>1. CASE Poll \/ PollReturnsNothing
      BY <3>1, DispatcherAssumption
      DEF Poll, PollReturnsNothing, Acknowledged, GapInv, IInv, TypeOK, LineInv
    <3>2. CASE Push \/ Loop \/ Close
      BY <3>2 DEF Push, Loop, Close, Receive, Acquire, Spawn, RangeEnds, WaitReturns, telegramVars
    <3> QED BY <1>5, <3>1, <3>2
  <2>3. CASE confirmed' = confirmed BY <1>1, <2>1, <2>3
  <2>4. CASE confirmed' \in (confirmed + 1)..sent
    BY <2>1, <2>4 DEF Pool!Next, Pool!Confirm, PhaseMap
  <2> QED BY <2>2, <2>3, <2>4
<1>6. CASE UNCHANGED vars
  <2>1. UNCHANGED <<sent, confirmed, handled, crashes, PhaseMap>>
    BY <1>6 DEF vars, telegramVars, pollVars, channelVars, loopVars, historyVars,
                PhaseMap, Phase, Held, InChannel, In
  <2> QED BY <1>1, <2>1
<1> QED BY <1>2, <1>3, <1>4, <1>5, <1>6 DEF Next, Stopped

(* ImplementsPool: the polling, the channel, the semaphore and the goroutines
   of dispatcher.go amount to the pool of UpdatePool: at most Concurrency
   handlers, none called ahead of an update that has no place in the pool, an
   update handled again or lost only by a death of the process, and lost only
   when it was confirmed but not handled. *)
THEOREM DispatcherImplementsPool == Spec => ImplementsPool
<1>1. Init => Pool!Init
  <2>1. Init => \A u \in Updates : Phase(u) = "unsent"
    BY DispatcherAssumption DEF Init, Phase, Updates
  <2> QED BY <2>1 DEF Init, Pool!Init, Pool!Updates, Updates
<1>2. Init => GapInv BY InitGapInv
<1>3. IInv /\ GapInv /\ [Next]_vars => GapInv' BY NextGapInv
<1>4. IInv /\ GapInv /\ [Next]_vars => [Pool!Next]_(Pool!vars) BY PoolStep
<1> QED BY <1>1, <1>2, <1>3, <1>4, DispatcherInvariant, PTL DEF Spec, ImplementsPool, Pool!Spec
=============================================================================
