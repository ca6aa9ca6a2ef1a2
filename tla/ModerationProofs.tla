--------------------------- MODULE ModerationProofs ----------------------------
(***************************************************************************)
(* Moderation, proved for any number of checks and any threshold.  The     *)
(* argument turns on the one check that stands between its INCR and its    *)
(* EXPIRE: it is alone there, no time passes for the key meanwhile, and it *)
(* is one violation that has been counted but not yet answered.            *)
(***************************************************************************)
EXTENDS Moderation, TLAPS

Expiring(c) == step[c] = "expire"
Pending == IF \E c \in Checks : Expiring(c) THEN 1 ELSE 0

AloneInv == \A c, d \in Checks : Expiring(c) /\ Expiring(d) => c = d
ExpiringInv ==
  \A c \in Checks : Expiring(c) => ttl \in {0, ViolationTTL} /\ count > 0 /\ counted[c] = 1
LenientInv ==
  /\ lenient + Pending <= count
  /\ lenient + Pending < PauseThreshold
LifeInv == count = 0 => ttl = 0
IInv == TypeOK /\ AloneInv /\ ExpiringInv /\ LifeInv /\ LenientInv /\ WindowEnds

LEMMA InitIInv == Init => IInv
<1> SUFFICES ASSUME Init PROVE IInv  OBVIOUS
<1> USE ModerationAssumption DEF Init
<1>1. \A c \in Checks : ~Expiring(c)
  BY DEF Expiring
<1>2. TypeOK
  <2>1. abandoned \in BOOLEAN
    OBVIOUS
  <2> QED  BY <2>1 DEF TypeOK, Results
<1>3. Pending = 0
  BY <1>1 DEF Pending
<1>4. LenientInv
  BY <1>3 DEF LenientInv
<1>5. WindowEnds
  BY DEF WindowEnds, Endless
<1> QED  BY <1>1, <1>2, <1>4, <1>5 DEF IInv, AloneInv, ExpiringInv, LifeInv

(* A check begins: nothing but its own place changes, and not to EXPIRE. *)
LEMMA CheckIInv ==
  ASSUME IInv, NEW c \in Checks, Check(c)
  PROVE  IInv'
<1>1. \A d \in Checks : Expiring(d)' <=> Expiring(d)
  BY DEF IInv, TypeOK, Check, Return, Expiring
<1>2. counted' = [counted EXCEPT ![c] = 0] /\ ~Expiring(c)
      /\ UNCHANGED <<count, ttl, lenient, abandoned>>
  BY DEF Check, redisVars, Expiring
<1>3. TypeOK'
  <2>1. step' \in [Checks -> {"idle", "incr", "expire"}]
    BY DEF IInv, TypeOK, Check, Return
  <2>3. result' \in [Checks -> Results]
    BY DEF IInv, TypeOK, Check, Return, Results
  <2>4. counted' \in [Checks -> 0..MaxCount]
    BY <1>2, ModerationAssumption DEF IInv, TypeOK
  <2> QED  BY <1>2, <2>1, <2>3, <2>4 DEF IInv, TypeOK
<1>4. AloneInv'
  BY <1>1 DEF IInv, AloneInv
<1>5. ExpiringInv' /\ LifeInv'
  BY <1>1, <1>2 DEF IInv, TypeOK, ExpiringInv, LifeInv
<1>6. Pending' = Pending
  BY <1>1 DEF Pending
<1>7. LenientInv'
  BY <1>2, <1>6 DEF IInv, LenientInv
<1>8. WindowEnds'
  BY <1>1, <1>2 DEF IInv, WindowEnds, Endless, Expiring
<1> QED  BY <1>3, <1>4, <1>5, <1>7, <1>8 DEF IInv

(* INCR: the first violation of a window finds no other check on its way to
   EXPIRE; a later one is answered at once. *)
LEMMA IncrIInv ==
  ASSUME IInv, NEW c \in Checks, Incr(c)
  PROVE  IInv'
<1> USE ModerationAssumption
<1>1. Pending \in {0, 1} /\ Pending' \in {0, 1} /\ ~Expiring(c)
  BY DEF Pending, Expiring, Incr
<1>2. /\ count \in Nat /\ lenient \in Nat
      /\ ttl' = ttl /\ count' = count + 1 /\ count + 1 \in 0..MaxCount
      /\ counted' = [counted EXCEPT ![c] = count + 1]
      /\ abandoned' = abandoned
  BY DEF IInv, TypeOK, Incr
<1>3. CASE NeedsExpiry(count + 1)
  <2>1. count = 0 /\ Pending = 0 /\ lenient = 0 /\ ttl = 0
    BY <1>1, <1>2, <1>3 DEF NeedsExpiry, IInv, LenientInv, LifeInv
  <2>2. \A d \in Checks : ~Expiring(d)
    BY <2>1 DEF Pending
  <2>3. step' = [step EXCEPT ![c] = "expire"] /\ UNCHANGED <<result, lenient>>
    BY <1>3 DEF Incr
  <2>4. \A d \in Checks : Expiring(d)' => d = c
    BY <2>2, <2>3 DEF IInv, TypeOK, Expiring
  <2>5. TypeOK'
    <3>1. step' \in [Checks -> {"idle", "incr", "expire"}]
      BY <2>3 DEF IInv, TypeOK
    <3>2. counted' \in [Checks -> 0..MaxCount]
      BY <1>2 DEF IInv, TypeOK
    <3> QED  BY <1>2, <2>3, <3>1, <3>2 DEF IInv, TypeOK
  <2>6. AloneInv'
    BY <2>4 DEF AloneInv
  <2>7. ExpiringInv' /\ LifeInv'
    BY <1>2, <2>1, <2>4 DEF IInv, TypeOK, ExpiringInv, LifeInv
  <2>8. LenientInv'
    <3>1. lenient' = 0 /\ count' = 1 /\ (Pending' = 0 \/ Pending' = 1)
      BY <1>1, <1>2, <2>1, <2>3
    <3>2. PauseThreshold \in Nat /\ PauseThreshold > 1
      OBVIOUS
    <3> QED  BY <3>1, <3>2 DEF LenientInv
  <2>9. WindowEnds'
    <3>1. Expiring(c)' /\ ~abandoned
      BY <2>1, <2>3 DEF IInv, TypeOK, WindowEnds, Endless, Expiring
    <3> QED  BY <1>2, <3>1 DEF WindowEnds, Endless, Expiring
  <2> QED  BY <2>5, <2>6, <2>7, <2>8, <2>9 DEF IInv
<1>4. CASE ~NeedsExpiry(count + 1)
  <2>1. /\ step' = [step EXCEPT ![c] = "idle"]
        /\ result' = [result EXCEPT ![c] = Verdict(count + 1)]
        /\ lenient' = IF ShouldPause(count + 1) THEN lenient ELSE lenient + 1
    BY <1>4 DEF Incr, Conclude, Return
  <2>2. \A d \in Checks : Expiring(d)' <=> Expiring(d)
    BY <1>1, <2>1 DEF IInv, TypeOK, Expiring
  <2>3. Pending' = Pending
    BY <2>2 DEF Pending
  <2>4. LenientInv'
    BY <1>1, <1>2, <2>1, <2>3 DEF IInv, LenientInv, ShouldPause
  <2>5. lenient' \in 0..MaxCount
    <3>1. lenient' \in Nat
      BY <1>2, <2>1
    <3>2. lenient' + Pending' <= count' /\ (Pending' = 0 \/ Pending' = 1)
      BY <1>1, <2>4 DEF LenientInv
    <3>3. lenient' <= count'
      BY <1>2, <3>1, <3>2
    <3> QED  BY <1>2, <3>1, <3>3
  <2>6. Verdict(count + 1) \in Results
    BY DEF Verdict, Results
  <2>7. TypeOK'
    <3>1. /\ step' \in [Checks -> {"idle", "incr", "expire"}]
          /\ result' \in [Checks -> Results]
      BY <2>1, <2>6 DEF IInv, TypeOK
    <3>2. counted' \in [Checks -> 0..MaxCount]
      BY <1>2 DEF IInv, TypeOK
    <3> QED  BY <1>2, <2>5, <3>1, <3>2 DEF IInv, TypeOK
  <2>8. AloneInv'
    BY <2>2 DEF IInv, AloneInv
  <2>9. ExpiringInv' /\ LifeInv'
    BY <1>1, <1>2, <2>2 DEF IInv, TypeOK, ExpiringInv, LifeInv
  <2>10. WindowEnds'
    <3>1. count > 0
      BY <1>2, <1>4 DEF NeedsExpiry
    <3> QED  BY <1>2, <2>2, <3>1 DEF IInv, WindowEnds, Endless, Expiring
  <2> QED  BY <2>4, <2>7, <2>8, <2>9, <2>10 DEF IInv
<1> QED  BY <1>3, <1>4

(* EXPIRE, whether it succeeds or not: the check that was pending is answered
   and counts from now on as one that did not ask for a pause. *)
LEMMA ExpireIInv ==
  ASSUME IInv, NEW c \in Checks, Expire(c) \/ ExpireFails(c)
  PROVE  IInv'
<1> USE ModerationAssumption
<1>1. Expiring(c) /\ ttl \in {0, ViolationTTL} /\ count > 0 /\ counted[c] = 1
  BY DEF Expire, ExpireFails, Expiring, IInv, ExpiringInv
<1>2. \A d \in Checks : ~Expiring(d)'
  BY <1>1 DEF Expire, ExpireFails, Conclude, Return, IInv, TypeOK, AloneInv, Expiring
<1>3. Pending = 1 /\ Pending' = 0
  BY <1>1, <1>2 DEF Pending
<1>4. lenient' = lenient + 1
  BY <1>1 DEF Expire, ExpireFails, Conclude, ShouldPause
<1>5. /\ count \in Nat /\ lenient \in Nat /\ count <= MaxCount
      /\ UNCHANGED <<count, counted>>
      /\ ttl' \in 0..ViolationTTL
  BY <1>1 DEF IInv, TypeOK, Expire, ExpireFails, redisVars
<1>11. abandoned' \in BOOLEAN
  BY DEF IInv, TypeOK, Expire, ExpireFails
<1>6. LenientInv'
  BY <1>3, <1>4, <1>5 DEF IInv, LenientInv
<1>7. lenient' \in 0..MaxCount
  BY <1>3, <1>4, <1>5, <1>6 DEF LenientInv
<1>8. step' \in [Checks -> {"idle", "incr", "expire"}] /\ result' \in [Checks -> Results]
  <2>1. CASE Expire(c)
    BY <2>1 DEF Expire, Conclude, Return, Verdict, IInv, TypeOK, Results
  <2>2. CASE ExpireFails(c)
    BY <2>2 DEF ExpireFails, Return, IInv, TypeOK, Results
  <2> QED  BY <2>1, <2>2
<1>9. TypeOK'
  BY <1>5, <1>7, <1>8, <1>11 DEF IInv, TypeOK
<1>10. AloneInv' /\ ExpiringInv' /\ LifeInv'
  BY <1>1, <1>2, <1>5 DEF AloneInv, ExpiringInv, LifeInv
<1>12. WindowEnds'
  <2>1. ~abandoned
    BY <1>1 DEF IInv, WindowEnds, Endless, Expiring
  <2>2. CASE Expire(c)
    <3>1. ttl' > 0 /\ abandoned' = abandoned
      BY <2>2 DEF Expire
    <3> QED  BY <2>1, <3>1 DEF WindowEnds, Endless
  <2>3. CASE ExpireFails(c)
    <3>1. ttl' = ttl /\ abandoned' = (abandoned \/ ttl = 0)
      BY <2>3 DEF ExpireFails, redisVars
    <3> QED  BY <1>1, <1>2, <1>5, <2>1, <3>1 DEF WindowEnds, Endless, Expiring
  <2> QED  BY <2>2, <2>3
<1> QED  BY <1>6, <1>9, <1>10, <1>12 DEF IInv

(* An INCR without an answer counts, and leaves the check where it was. *)
LEMMA IncrUnansweredIInv ==
  ASSUME IInv, NEW c \in Checks, IncrUnanswered(c)
  PROVE  IInv'
<1> USE ModerationAssumption
<1>1. /\ count \in Nat /\ lenient \in Nat /\ count' = count + 1 /\ count' <= MaxCount
      /\ UNCHANGED <<ttl, step, counted, result, lenient>>
      /\ abandoned' = (abandoned \/ count = 0)
  BY DEF IInv, TypeOK, IncrUnanswered, checkVars
<1>2. \A d \in Checks : Expiring(d)' <=> Expiring(d)
  BY <1>1 DEF Expiring
<1>3. Pending' = Pending /\ Pending \in {0, 1}
  BY <1>2 DEF Pending
<1>4. TypeOK'
  <2>1. abandoned' \in BOOLEAN
    BY <1>1
  <2> QED  BY <1>1, <2>1 DEF IInv, TypeOK
<1>5. LenientInv'
  BY <1>1, <1>3 DEF IInv, LenientInv
<1>6. AloneInv' /\ ExpiringInv' /\ LifeInv'
  BY <1>1, <1>2 DEF IInv, AloneInv, ExpiringInv, LifeInv
<1>7. WindowEnds'
  <2>1. CASE count = 0
    <3>1. ttl = 0 /\ \A d \in Checks : ~Expiring(d)
      BY <2>1 DEF IInv, LifeInv, ExpiringInv
    <3>2. Endless'
      BY <1>1, <1>2, <2>1, <3>1 DEF Endless, Expiring
    <3>3. abandoned'
      BY <1>1, <2>1
    <3> QED  BY <3>2, <3>3 DEF WindowEnds
  <2>2. CASE count > 0
    <3>1. Endless' <=> Endless
      BY <1>1, <1>2, <2>2 DEF Endless, Expiring
    <3>2. count # 0
      BY <2>2
    <3>3. abandoned' <=> abandoned
      BY <1>1, <3>2
    <3> QED  BY <3>1, <3>3 DEF IInv, WindowEnds
  <2> QED  BY <1>1, <2>1, <2>2
<1> QED  BY <1>4, <1>5, <1>6, <1>7 DEF IInv

(* An EXPIRE without an answer sets the expiry, and leaves the check where it was. *)
LEMMA ExpireUnansweredIInv ==
  ASSUME IInv, NEW c \in Checks, ExpireUnanswered(c)
  PROVE  IInv'
<1> USE ModerationAssumption
<1>1. /\ Expiring(c) /\ ttl' = ViolationTTL
      /\ UNCHANGED <<count, step, counted, result, lenient, abandoned>>
  BY DEF ExpireUnanswered, checkVars, Expiring
<1>2. \A d \in Checks : Expiring(d)' <=> Expiring(d)
  BY <1>1 DEF Expiring
<1>3. Pending' = Pending
  BY <1>2 DEF Pending
<1>4. TypeOK' /\ LenientInv'
  BY <1>1, <1>3 DEF IInv, TypeOK, LenientInv
<1>5. AloneInv' /\ ExpiringInv'
  BY <1>1, <1>2 DEF IInv, AloneInv, ExpiringInv
<1>6. count > 0 /\ ~abandoned
  BY <1>1 DEF IInv, ExpiringInv, WindowEnds, Endless, Expiring
<1>7. LifeInv' /\ WindowEnds'
  BY <1>1, <1>2, <1>6 DEF LifeInv, WindowEnds, Endless
<1> QED  BY <1>4, <1>5, <1>7 DEF IInv

LEMMA IncrFailsIInv ==
  ASSUME IInv, NEW c \in Checks, IncrFails(c)
  PROVE  IInv'
<1>1. \A d \in Checks : Expiring(d)' <=> Expiring(d)
  BY DEF IInv, TypeOK, IncrFails, Return, Expiring
<1>2. UNCHANGED <<count, ttl, lenient, counted, abandoned>>
  BY DEF IncrFails, redisVars
<1>3. TypeOK'
  BY <1>2 DEF IInv, TypeOK, IncrFails, Return, Results
<1>4. Pending' = Pending
  BY <1>1 DEF Pending
<1>5. LenientInv'
  BY <1>2, <1>4 DEF IInv, LenientInv
<1>6. AloneInv' /\ ExpiringInv' /\ LifeInv'
  BY <1>1, <1>2 DEF IInv, AloneInv, ExpiringInv, LifeInv
<1>7. WindowEnds'
  BY <1>1, <1>2 DEF IInv, WindowEnds, Endless, Expiring
<1> QED  BY <1>3, <1>5, <1>6, <1>7 DEF IInv

(* Time passes only with no check pending, and for a counter that has an expiry. *)
LEMMA TickIInv == IInv /\ Tick => IInv'
<1> SUFFICES ASSUME IInv, Tick PROVE IInv'  OBVIOUS
<1> USE ModerationAssumption
<1>1. ttl \in Nat /\ ttl > 0 /\ ttl' = ttl - 1 /\ count \in Nat /\ lenient \in Nat
      /\ UNCHANGED <<step, counted, result, abandoned>>
  BY DEF Tick, IInv, TypeOK, checkVars
<1>2. \A c \in Checks : ~Expiring(c) /\ ~Expiring(c)'
  BY <1>1 DEF Tick, Expiring
<1>3. Pending = 0 /\ Pending' = 0
  BY <1>2 DEF Pending
<1>4. LenientInv'
  BY <1>1, <1>3 DEF Tick, IInv, LenientInv
<1>5. TypeOK'
  BY <1>1 DEF Tick, IInv, TypeOK
<1>6. LifeInv'
  BY <1>1 DEF Tick, IInv, LifeInv
<1>7. WindowEnds'
  <2>1. ~abandoned /\ (ttl' = 0 => count' = 0)
    BY <1>1 DEF Tick, IInv, WindowEnds, Endless
  <2> QED  BY <1>1, <2>1 DEF WindowEnds, Endless
<1> QED  BY <1>2, <1>4, <1>5, <1>6, <1>7 DEF IInv, AloneInv, ExpiringInv

LEMMA StutterIInv == IInv /\ UNCHANGED vars => IInv'
<1> SUFFICES ASSUME IInv, UNCHANGED vars PROVE IInv'  OBVIOUS
<1>1. \A c \in Checks : Expiring(c)' <=> Expiring(c)
  BY DEF vars, checkVars, Expiring
<1>2. Pending' = Pending
  BY <1>1 DEF Pending
<1>3. WindowEnds'
  BY DEF IInv, WindowEnds, Endless, vars, redisVars, checkVars
<1> QED  BY <1>1, <1>2, <1>3 DEF IInv, TypeOK, AloneInv, ExpiringInv, LifeInv, LenientInv,
                                 vars, redisVars, checkVars

LEMMA StepIInv == IInv /\ [Next]_vars => IInv'
<1> SUFFICES ASSUME IInv, [Next]_vars PROVE IInv'  OBVIOUS
<1>1. CASE \E c \in Checks : Check(c)
  BY <1>1, CheckIInv
<1>2. CASE \E c \in Checks : Command(c)
  BY <1>2, IncrIInv, IncrUnansweredIInv, IncrFailsIInv, ExpireIInv, ExpireUnansweredIInv
     DEF Command
<1>3. CASE Tick
  BY <1>3, TickIInv
<1>4. CASE UNCHANGED vars
  BY <1>4, StutterIInv
<1> QED  BY <1>1, <1>2, <1>3, <1>4 DEF Next

(* The inductive invariant holds of every behaviour. *)
LEMMA Inductive == Spec => []IInv
BY InitIInv, StepIInv, PTL DEF Spec

(* The state of the counter and of the checks keeps its types. *)
THEOREM ModerationTypeOK == Spec => []TypeOK
<1>1. IInv => TypeOK
  BY DEF IInv
<1> QED  BY Inductive, <1>1, PTL

(* However many texts are checked at once and however the commands fail, the
   violations of a window whose check was told the count and did not ask for a
   pause stay below the threshold (recordViolation). *)
THEOREM ModerationThirdAsksForPause == Spec => []ThirdAsksForPause
<1>1. IInv => ThirdAsksForPause
  BY ModerationAssumption DEF IInv, TypeOK, LenientInv, ThirdAsksForPause, Pending
<1> QED  BY Inductive, <1>1, PTL

(* No step prolongs a window that has begun (recordViolation: EXPIRE follows
   the first INCR only). *)
THEOREM ModerationWindowIsNotProlonged == Spec => WindowIsNotProlonged
<1>1. IInv /\ [Next]_vars => [ttl > 0 => ttl' <= ttl]_ttl
  <2> SUFFICES ASSUME IInv, [Next]_vars, ttl > 0 PROVE ttl' <= ttl
    OBVIOUS
  <2>1. ttl \in Nat
    BY ModerationAssumption DEF IInv, TypeOK
  <2>2. CASE \E c \in Checks : Check(c)
    BY <2>1, <2>2 DEF Check, redisVars
  <2>3. CASE \E c \in Checks : Incr(c) \/ IncrUnanswered(c) \/ IncrFails(c) \/ ExpireFails(c)
    BY <2>1, <2>3 DEF Incr, IncrUnanswered, IncrFails, ExpireFails, redisVars
  <2>4. CASE \E c \in Checks : Expire(c) \/ ExpireUnanswered(c)
    <3>1. ttl = ViolationTTL /\ ttl' = ViolationTTL
      BY <2>4 DEF Expire, ExpireUnanswered, IInv, ExpiringInv, Expiring
    <3> QED  BY <2>1, <3>1
  <2>5. CASE Tick
    BY <2>1, <2>5 DEF Tick
  <2>6. CASE UNCHANGED vars
    BY <2>1, <2>6 DEF vars, redisVars
  <2> QED  BY <2>2, <2>3, <2>4, <2>5, <2>6 DEF Next, Command
<1> QED  BY Inductive, <1>1, PTL DEF Spec, WindowIsNotProlonged

(* A counter is left without an end exactly if the INCR that began its window had
   no answer or its check ended before Redis executed an EXPIRE, and then for
   good (recordViolation). *)
THEOREM ModerationWindowEnds == Spec => []WindowEnds
<1>1. IInv => WindowEnds
  BY DEF IInv
<1> QED  BY Inductive, <1>1, PTL

(* No later violation, and no time, gives an end to a counter that was left
   without one (recordViolation: EXPIRE follows an answer of 1 only). *)
THEOREM ModerationEndlessForGood == Spec => [](Endless => []Endless)
<1>1. abandoned /\ [Next]_vars => abandoned'
  BY DEF Next, Command, Check, Incr, IncrUnanswered, IncrFails, Expire, ExpireUnanswered,
         ExpireFails, Tick, vars
<1>2. IInv => (Endless <=> abandoned)
  BY DEF IInv, WindowEnds
<1> QED  BY Inductive, <1>1, <1>2, PTL DEF Spec
=============================================================================
