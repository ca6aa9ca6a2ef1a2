------------------------------ MODULE Moderation -------------------------------
(***************************************************************************)
(* Moderation of one user's texts (backend/internal/moderation): a text    *)
(* that violates the rules is counted under the user's key in Redis with   *)
(* two commands, INCR and, for the first one, EXPIRE.  Several requests of *)
(* the user may be checked at once, and the key expires on its own.        *)
(*                                                                         *)
(* A command may fail in two ways: Redis never executes it, or Redis       *)
(* executes it and the answer is lost.  In either case the client may send *)
(* it again (go-redis does so by default) or give up with an error; a      *)
(* command that Redis executes after its caller gave up is taken for one   *)
(* whose caller gives up a little later.                                   *)
(***************************************************************************)
EXTENDS Integers

CONSTANTS
  Checks,           \* requests that check a text, one text after another
  PauseThreshold,   \* pauseThreshold: 3
  ViolationTTL,     \* violationTTL, in ticks
  MaxCount          \* bound on the counter

ASSUME ModerationAssumption ==
  /\ PauseThreshold \in Nat \ {0, 1} /\ ViolationTTL \in Nat \ {0}
  /\ MaxCount \in Nat

VARIABLES
  count,    \* the counter, 0 when there is no key
  ttl,      \* what is left of its life, 0 when it has no expiry
  step,     \* the next command of each check
  counted,  \* what INCR answered each check
  result,   \* what Check returned last
  lenient,  \* history: violations of this window whose check was told the count
            \* and returned without asking for a pause
  abandoned \* history: the INCR that began a window had no answer, or its check
            \* ended before Redis executed an EXPIRE

redisVars == <<count, ttl>>
checkVars == <<step, counted, result>>
vars == <<redisVars, checkVars, lenient, abandoned>>

Results == {"none", "passed", "blocked", "pause", "error"}

TypeOK ==
  /\ count \in 0..MaxCount /\ ttl \in 0..ViolationTTL
  /\ step \in [Checks -> {"idle", "incr", "expire"}]
  /\ counted \in [Checks -> 0..MaxCount]
  /\ result \in [Checks -> Results]
  /\ lenient \in 0..MaxCount /\ abandoned \in BOOLEAN

Init ==
  /\ count = 0 /\ ttl = 0
  /\ step = [c \in Checks |-> "idle"]
  /\ counted = [c \in Checks |-> 0]
  /\ result = [c \in Checks |-> "none"]
  /\ lenient = 0 /\ abandoned = FALSE

Return(c, what) ==
  /\ step' = [step EXCEPT ![c] = "idle"]
  /\ result' = [result EXCEPT ![c] = what]

ShouldPauseAfter(n) ==  n > PauseThreshold  \* mutant

ShouldPause(n) == n >= PauseThreshold
Verdict(n) == IF ShouldPause(n) THEN "pause" ELSE "blocked"
Conclude(c, n) ==
  /\ Return(c, Verdict(n))
  /\ lenient' = IF ShouldPause(n) THEN lenient ELSE lenient + 1

(* A text that matches no pattern and no phrase passes, any other is counted. *)
Check(c) ==
  /\ step[c] = "idle"
  /\ counted' = [counted EXCEPT ![c] = 0]
  /\ \/ Return(c, "passed")
     \/ step' = [step EXCEPT ![c] = "incr"] /\ UNCHANGED result
  /\ UNCHANGED <<redisVars, lenient, abandoned>>

ExpireNotFirst(n) ==  n > 1  \* mutant

(* The first violation of a window goes on to set its expiry. *)
NeedsExpiry(n) == n = 1

Incr(c) ==
  /\ step[c] = "incr"
  /\ count < MaxCount
  /\ count' = count + 1
  /\ counted' = [counted EXCEPT ![c] = count + 1]
  /\ IF NeedsExpiry(count + 1)
     THEN step' = [step EXCEPT ![c] = "expire"] /\ UNCHANGED <<result, lenient>>
     ELSE Conclude(c, count + 1)
  /\ UNCHANGED <<ttl, abandoned>>

ExpireInOtherUnit(c) ==  \* mutant
  /\ step[c] = "expire"
  /\ ttl' = 60 * ViolationTTL
  /\ Conclude(c, counted[c])
  /\ UNCHANGED <<count, counted, abandoned>>

Expire(c) ==
  /\ step[c] = "expire"
  /\ ttl' = ViolationTTL
  /\ Conclude(c, counted[c])
  /\ UNCHANGED <<count, counted, abandoned>>

(* Redis executes the command, and the check does not learn of it. *)
IncrUnanswered(c) ==
  /\ step[c] = "incr"
  /\ count < MaxCount
  /\ count' = count + 1
  /\ abandoned' = (abandoned \/ count = 0)
  /\ UNCHANGED <<ttl, checkVars, lenient>>
ExpireUnanswered(c) ==
  /\ step[c] = "expire"
  /\ ttl' = ViolationTTL
  /\ UNCHANGED <<count, checkVars, lenient, abandoned>>

(* The client gives up, or its process dies: Check returns an error, and the
   relay lets the text pass. *)
IncrFails(c) ==
  /\ step[c] = "incr"
  /\ Return(c, "error")
  /\ UNCHANGED <<redisVars, counted, lenient, abandoned>>
ExpireFails(c) ==
  /\ step[c] = "expire"
  /\ Return(c, "error")
  /\ lenient' = lenient + 1
  /\ abandoned' = (abandoned \/ ttl = 0)
  /\ UNCHANGED <<redisVars, counted>>

(* Time passes for Redis.  A tick stands for hours, and an EXPIRE that is sent
   again for seconds: no tick falls between the two. *)
Tick ==
  /\ ttl > 0 /\ \A c \in Checks : step[c] # "expire"
  /\ ttl' = ttl - 1
  /\ count' = IF ttl = 1 THEN 0 ELSE count
  /\ lenient' = IF ttl = 1 THEN 0 ELSE lenient
  /\ UNCHANGED <<checkVars, abandoned>>

Command(c) ==
  \/ Incr(c) \/ IncrUnanswered(c) \/ IncrFails(c)
  \/ Expire(c) \/ ExpireUnanswered(c) \/ ExpireFails(c)
Next ==
  \/ \E c \in Checks : Check(c) \/ Command(c)
  \/ Tick

Spec == Init /\ [][Next]_vars

(***************************************************************************)
(* Properties.                                                             *)
(***************************************************************************)

(* However many texts are checked at once, and however the commands fail, no
   window lets more than PauseThreshold - 1 violations go by whose count the
   check was told and for which it asked for no pause: the third pauses the
   session (service.go).  A violation whose INCR had no answer is not among them:
   the relay lets its text pass, as when Redis is down. *)
ThirdAsksForPause == lenient < PauseThreshold

(* A counter is left without an end, with no check about to give it one, exactly
   if the INCR that began its window had no answer (a repeated INCR is told 2 and
   goes on to no EXPIRE) or its check ended before Redis executed an EXPIRE; and
   once left so it stays, since no later violation sets an expiry (service.go:
   the TTL is set with the first violation only). *)
Endless == count > 0 /\ ttl = 0 /\ \A c \in Checks : step[c] # "expire"
WindowEnds == Endless <=> abandoned

(* Later violations do not prolong the window, nor does an EXPIRE that is sent
   again (service.go). *)
WindowIsNotProlonged == [][ttl > 0 => ttl' <= ttl]_ttl
=============================================================================
