------------------------------ MODULE UpdatePool ------------------------------
(***************************************************************************)
(* What the bot's handlers may rely on of the machinery that calls them    *)
(* (bot/internal/dispatcher/dispatcher.go under bot/cmd/bot/main.go): an   *)
(* abstract specification that Dispatcher implements, and over which       *)
(* BotUpdates composes the handlers with the backend.                      *)
(*                                                                         *)
(* It leaves out the polling, the channel, the semaphore and the           *)
(* goroutines, and keeps what they amount to: how many updates are handled *)
(* at once, how far one may overtake another, which are handled again and  *)
(* which are lost when the process dies.                                   *)
(***************************************************************************)
EXTENDS Integers, FiniteSets

CONSTANTS
  MaxUpdates,   \* how many updates users send
  Concurrency,  \* updateConcurrency: the size of the pool
  MaxCrashes    \* how often the bot process dies

Updates == 1..MaxUpdates

VARIABLES
  sent,       \* the last update users sent
  confirmed,  \* the last update Telegram no longer redelivers
  phase,      \* where each update is
  handled,    \* the updates a handler was ever called with
  crashes     \* how often the process died

vars == <<sent, confirmed, phase, handled, crashes>>

Phases == {"unsent", "waiting", "handling", "over", "lost"}
In(p) == {u \in Updates : phase[u] = p}

Init ==
  /\ sent = 0 /\ confirmed = 0
  /\ phase = [u \in Updates |-> "unsent"]
  /\ handled = {} /\ crashes = 0

Send ==
  /\ sent < MaxUpdates
  /\ sent' = sent + 1
  /\ phase' = [phase EXCEPT ![sent + 1] = "waiting"]
  /\ UNCHANGED <<confirmed, handled, crashes>>

(* Telegram confirms what it has delivered as soon as it is asked for more,
   not when it has been handled. *)
Confirm ==
  /\ confirmed' \in (confirmed + 1)..sent
  /\ UNCHANGED <<sent, phase, handled, crashes>>

(* Updates are taken in their order, each by a goroutine of its own: one is
   handed over ahead of those that wait before it only if all of them have a
   place in the pool as well. *)
Ahead(u) == In("handling") \cup {v \in In("waiting") : v < u}
Start(u) ==
  /\ phase[u] = "waiting"
  /\ Cardinality(Ahead(u)) < Concurrency
  /\ phase' = [phase EXCEPT ![u] = "handling"]
  /\ handled' = handled \cup {u}
  /\ UNCHANGED <<sent, confirmed, crashes>>

(* A handler returns, or panics and is recovered from. *)
Return(u) ==
  /\ phase[u] = "handling"
  /\ phase' = [phase EXCEPT ![u] = "over"]
  /\ UNCHANGED <<sent, confirmed, handled, crashes>>

(* The process dies and is started again: it is given every update that was
   not confirmed, also those it has handled before, and none that was. *)
Die ==
  /\ crashes < MaxCrashes
  /\ crashes' = crashes + 1
  /\ phase' = [u \in Updates |->
       IF u > sent THEN "unsent"
       ELSE IF u > confirmed THEN "waiting"
       ELSE IF u \in handled THEN "over" ELSE "lost"]
  /\ UNCHANGED <<sent, confirmed, handled>>

Next ==
  \/ Send \/ Confirm \/ Die
  \/ \E u \in Updates : Start(u) \/ Return(u)

Spec == Init /\ [][Next]_vars
=============================================================================
