------------------------------ MODULE Dispatcher ------------------------------
(***************************************************************************)
(* The bot's update loop (bot/internal/dispatcher/dispatcher.go and the    *)
(* part of bot/cmd/bot/main.go that feeds it): updates fetched from        *)
(* Telegram are put on a channel, Run takes them off it one at a time and  *)
(* starts a goroutine for each, never more than Concurrency at once.  A    *)
(* handler may return, panic or hang; the process may die and be started   *)
(* again by the container runtime.                                         *)
(*                                                                         *)
(* Updates are numbered 1, 2, ... in the order Telegram receives them, as  *)
(* update_id does.  Telegram and the library that polls it are not part of *)
(* the repository and are modelled from how main.go uses them.             *)
(***************************************************************************)
EXTENDS Integers, FiniteSets, Sequences

CONSTANTS
  MaxUpdates,   \* how many updates users send
  Concurrency,  \* updateConcurrency: the size of the pool
  Buffer,       \* the capacity of the updates channel
  MaxCrashes,   \* how often the bot process dies
  Hanging,      \* the updates whose handler never returns
  Closes        \* whether the updates channel is ever closed

ASSUME DispatcherAssumption ==
  /\ MaxUpdates \in Nat
  /\ Concurrency \in Nat \ {0}
  /\ Buffer \in Nat \ {0}
  /\ MaxCrashes \in Nat
  /\ Hanging \subseteq 1..MaxUpdates
  /\ Closes \in BOOLEAN

Updates == 1..MaxUpdates

VARIABLES
  sent,       \* the last update users sent
  confirmed,  \* the last update Telegram no longer redelivers
  offset,     \* config.Offset of the polling goroutine
  fetched,    \* the last update of the batch it is pushing
  updates,    \* the channel Run ranges over
  closed,     \* whether that channel is closed
  loop,       \* where Run is: "receive", "acquire", "spawn", "wait", "returned"
  current,    \* the update Run holds, 0 when it holds none
  semaphore,  \* tokens in the semaphore channel
  wg,         \* the WaitGroup's counter
  worker,     \* the goroutine of each update
  runs,       \* history: how often each handler was called since the start
  handled,    \* history: the updates whose handler was ever called
  lost,       \* history: confirmed updates a crash destroyed unhandled
  crashes     \* history: how often the process died

telegramVars == <<sent, confirmed>>
pollVars     == <<offset, fetched>>
channelVars  == <<updates, closed>>
loopVars     == <<loop, current>>
slotVars     == <<semaphore, wg>>
historyVars  == <<runs, handled, lost, crashes>>
vars == <<telegramVars, pollVars, channelVars, loopVars, slotVars, worker, historyVars>>

(***************************************************************************)
(* A goroutine is "ready" between the go statement and the handler call,   *)
(* "running" in the handler, then executes its deferred function: it is    *)
(* "unwinding" before it gives its token back, "released" before wg.Done,  *)
(* and "ended" afterwards.  A panicking goroutine goes through the same    *)
(* deferred function, reaching recover() only after wg.Done.               *)
(***************************************************************************)
WorkerStates == {"none", "ready", "running", "unwinding", "released",
                 "panicked", "panickedReleased", "panickedDone", "ended"}
HoldsSlot == {"ready", "running", "unwinding", "panicked"}
Counted   == HoldsSlot \cup {"released", "panickedReleased"}
In(states) == {u \in Updates : worker[u] \in states}

InChannel == {updates[i] : i \in DOMAIN updates}
(* What the process holds of the updates it took from Telegram. *)
Held == InChannel \cup ({current} \ {0}) \cup In(WorkerStates \ {"none"})

TypeOK ==
  /\ sent \in 0..MaxUpdates /\ confirmed \in 0..MaxUpdates
  /\ offset \in 0..(MaxUpdates + 1) /\ fetched \in 0..MaxUpdates
  /\ updates \in Seq(Updates) /\ closed \in BOOLEAN
  /\ loop \in {"receive", "acquire", "spawn", "wait", "returned"}
  /\ current \in 0..MaxUpdates
  /\ semaphore \in 0..Concurrency /\ wg \in Nat
  /\ worker \in [Updates -> WorkerStates]
  /\ runs \in [Updates -> Nat]
  /\ handled \subseteq Updates /\ lost \subseteq Updates
  /\ crashes \in 0..MaxCrashes

Init ==
  /\ sent = 0 /\ confirmed = 0
  /\ offset = 0 /\ fetched = 0
  /\ updates = <<>> /\ closed = FALSE
  /\ loop = "receive" /\ current = 0
  /\ semaphore = 0 /\ wg = 0
  /\ worker = [u \in Updates |-> "none"]
  /\ runs = [u \in Updates |-> 0]
  /\ handled = {} /\ lost = {} /\ crashes = 0

(***************************************************************************)
(* Telegram and the polling goroutine of the library.                      *)
(***************************************************************************)
UserSends ==
  /\ sent < MaxUpdates
  /\ sent' = sent + 1
  /\ UNCHANGED <<confirmed, pollVars, channelVars, loopVars, slotVars, worker, historyVars>>

(* The polling goroutine has pushed its whole batch, or has none yet. *)
Pushed == offset = 0 \/ offset > fetched
(* What Telegram may forget once it has seen the offset. *)
Acknowledged == IF offset = 0 THEN confirmed ELSE offset - 1

(* getUpdates(offset): Telegram forgets what is below the offset and returns
   everything it still keeps.  A fresh process starts from offset 0
   (tgbotapi.NewUpdate(0)), which confirms nothing. *)
Poll ==
  /\ ~closed /\ Pushed
  /\ confirmed' = Acknowledged
  /\ sent > Acknowledged
  /\ offset' = Acknowledged + 1
  /\ fetched' = sent
  /\ UNCHANGED <<sent, channelVars, loopVars, slotVars, worker, historyVars>>

(* Telegram has nothing new, or its answer is lost: the library asks again. *)
PollReturnsNothing ==
  /\ ~closed /\ Pushed
  /\ confirmed' = Acknowledged
  /\ UNCHANGED <<sent, pollVars, channelVars, loopVars, slotVars, worker, historyVars>>

Push ==
  /\ ~Pushed
  /\ Len(updates) < Buffer
  /\ updates' = Append(updates, offset)
  /\ offset' = offset + 1
  /\ UNCHANGED <<telegramVars, fetched, closed, loopVars, slotVars, worker, historyVars>>

(* The library stops polling and closes the channel, once it has pushed its
   batch.  main.go never asks for it; Run's comment says what happens then. *)
Close ==
  /\ Closes /\ ~closed /\ Pushed
  /\ closed' = TRUE
  /\ UNCHANGED <<telegramVars, pollVars, updates, loopVars, slotVars, worker, historyVars>>

(***************************************************************************)
(* Dispatcher.Run                                                          *)
(***************************************************************************)
Receive ==
  /\ loop = "receive" /\ updates # <<>>
  /\ current' = Head(updates)
  /\ updates' = Tail(updates)
  /\ loop' = "acquire"
  /\ UNCHANGED <<telegramVars, pollVars, closed, slotVars, worker, historyVars>>

AcquireOrDrop ==  \* mutant
  /\ loop = "acquire"
  /\ IF semaphore < Concurrency
     THEN semaphore' = semaphore + 1 /\ loop' = "spawn" /\ current' = current
     ELSE semaphore' = semaphore /\ loop' = "receive" /\ current' = 0
  /\ UNCHANGED <<telegramVars, pollVars, channelVars, wg, worker, historyVars>>

Acquire ==
  /\ loop = "acquire" /\ semaphore < Concurrency
  /\ semaphore' = semaphore + 1
  /\ loop' = "spawn"
  /\ UNCHANGED <<telegramVars, pollVars, channelVars, current, wg, worker, historyVars>>

(* wg.Add(1) and the go statement, nothing between them being visible. *)
Spawn ==
  /\ loop = "spawn"
  /\ wg' = wg + 1
  /\ worker' = [worker EXCEPT ![current] = "ready"]
  /\ loop' = "receive" /\ current' = 0
  /\ UNCHANGED <<telegramVars, pollVars, channelVars, semaphore, historyVars>>

RangeEnds ==
  /\ loop = "receive" /\ updates = <<>> /\ closed
  /\ loop' = "wait"
  /\ UNCHANGED <<telegramVars, pollVars, channelVars, current, slotVars, worker, historyVars>>

ReturnWithoutWait ==  \* mutant
  /\ loop = "wait"
  /\ loop' = "returned"
  /\ UNCHANGED <<telegramVars, pollVars, channelVars, current, slotVars, worker, historyVars>>

WaitReturns ==
  /\ loop = "wait" /\ wg = 0
  /\ loop' = "returned"
  /\ UNCHANGED <<telegramVars, pollVars, channelVars, current, slotVars, worker, historyVars>>

(***************************************************************************)
(* The goroutine of update u.                                              *)
(***************************************************************************)
CallHandler(u) ==
  /\ worker[u] = "ready"
  /\ worker' = [worker EXCEPT ![u] = "running"]
  /\ runs' = [runs EXCEPT ![u] = @ + 1]
  /\ handled' = handled \cup {u}
  /\ UNCHANGED <<telegramVars, pollVars, channelVars, loopVars, slotVars, lost, crashes>>

HandlerReturns(u) ==
  /\ worker[u] = "running" /\ u \notin Hanging
  /\ worker' = [worker EXCEPT ![u] = "unwinding"]
  /\ UNCHANGED <<telegramVars, pollVars, channelVars, loopVars, slotVars, historyVars>>

HandlerPanics(u) ==
  /\ worker[u] = "running" /\ u \notin Hanging
  /\ worker' = [worker EXCEPT ![u] = "panicked"]
  /\ UNCHANGED <<telegramVars, pollVars, channelVars, loopVars, slotVars, historyVars>>

ReleaseOnReturnOnly(u) ==  \* mutant
  /\ worker[u] \in {"unwinding", "panicked"}
  /\ semaphore' = IF worker[u] = "panicked" THEN semaphore ELSE semaphore - 1
  /\ worker' = [worker EXCEPT ![u] = IF @ = "panicked" THEN "panickedReleased" ELSE "released"]
  /\ UNCHANGED <<telegramVars, pollVars, channelVars, loopVars, wg, historyVars>>

Release(u) ==
  /\ worker[u] \in {"unwinding", "panicked"}
  /\ semaphore > 0
  /\ semaphore' = semaphore - 1
  /\ worker' = [worker EXCEPT ![u] = IF @ = "panicked" THEN "panickedReleased" ELSE "released"]
  /\ UNCHANGED <<telegramVars, pollVars, channelVars, loopVars, wg, historyVars>>

DoneTwiceOnPanic(u) ==  \* mutant
  /\ worker[u] \in {"released", "panickedReleased"}
  /\ wg' = wg - (IF worker[u] = "panickedReleased" THEN 2 ELSE 1)
  /\ worker' = [worker EXCEPT ![u] = IF @ = "panickedReleased" THEN "panickedDone" ELSE "ended"]
  /\ UNCHANGED <<telegramVars, pollVars, channelVars, loopVars, semaphore, historyVars>>

Done(u) ==
  /\ worker[u] \in {"released", "panickedReleased"}
  /\ wg' = wg - 1
  /\ worker' = [worker EXCEPT ![u] = IF @ = "panickedReleased" THEN "panickedDone" ELSE "ended"]
  /\ UNCHANGED <<telegramVars, pollVars, channelVars, loopVars, semaphore, historyVars>>

Recover(u) ==
  /\ worker[u] = "panickedDone"
  /\ worker' = [worker EXCEPT ![u] = "ended"]
  /\ UNCHANGED <<telegramVars, pollVars, channelVars, loopVars, slotVars, historyVars>>

(* The process dies with all it holds and is started again. *)
Crash ==
  /\ crashes < MaxCrashes
  /\ crashes' = crashes + 1
  /\ lost' = lost \cup {u \in Held : u <= confirmed /\ u \notin handled}
  /\ offset' = 0 /\ fetched' = 0
  /\ updates' = <<>> /\ closed' = FALSE
  /\ loop' = "receive" /\ current' = 0
  /\ semaphore' = 0 /\ wg' = 0
  /\ worker' = [u \in Updates |-> "none"]
  /\ runs' = [u \in Updates |-> 0]
  /\ UNCHANGED <<telegramVars, handled>>

(* Run has returned and every goroutine is over, or Run waits for the handlers
   that never return. *)
Stopped ==
  /\ \/ loop = "returned"
     \/ loop = "wait" /\ In({"running"}) \cap Hanging # {}
  /\ In({"none", "ended"}) \cup (In({"running"}) \cap Hanging) = Updates
  /\ UNCHANGED vars

Loop == Receive \/ Acquire \/ Spawn \/ RangeEnds \/ WaitReturns
Goroutine(u) ==
  CallHandler(u) \/ HandlerReturns(u) \/ HandlerPanics(u) \/ Release(u) \/ Done(u) \/ Recover(u)
Next ==
  \/ UserSends \/ Poll \/ PollReturnsNothing \/ Push \/ Close
  \/ Loop
  \/ \E u \in Updates : Goroutine(u)
  \/ Crash \/ Stopped

Spec == Init /\ [][Next]_vars

(* The scheduler runs every goroutine, the library asks again after an error,
   and handlers other than those of Hanging end: their calls of the backend
   have a timeout, and Telegram answers theirs. *)
FairSpec ==
  /\ Spec
  /\ WF_vars(Poll) /\ WF_vars(Push)
  /\ WF_vars(Loop)
  /\ \A u \in Updates : WF_vars(Goroutine(u))

-------------------------------------------------------------------------------
(***************************************************************************)
(* Properties                                                              *)
(***************************************************************************)

(* dispatcher.go:17: the pool is bounded.  Tokens are taken by Run and given
   back by the goroutines, on their normal and on their panicking path. *)
BoundedPool == Cardinality(In({"running", "ready"})) <= Concurrency

(* No update is given to a handler twice by one process. *)
OncePerProcess == \A u \in Updates : runs[u] <= 1

(* dispatcher.go:35-36: when Run returns, the channel is drained and no handler
   it started is still to be called or running. *)
ReturnsAfterHandlers ==
  loop = "returned" => /\ updates = <<>> /\ current = 0
                       /\ In({"ready", "running"}) = {}

(* Whatever Telegram will not deliver again was given to a handler, is held by
   the process, or was lost with a process that died. *)
ConfirmedIsHeld == \A u \in 1..confirmed : u \in handled \cup Held \cup lost

(* Every update is given to a handler, or lost with a process that died, unless
   the channel is closed: the pool goes on although fewer than Concurrency
   handlers never return. *)
EveryUpdateIsHandled ==
  \A u \in Updates : (sent >= u) ~> (u \in handled \cup lost \/ closed)

(* Where an update is as far as the handlers can tell: one that Run or a
   goroutine holds but no handler was called with still waits. *)
Phase(u) ==
  IF u > sent THEN "unsent"
  ELSE IF worker[u] = "running" THEN "handling"
  ELSE IF worker[u] \notin {"none", "ready"} THEN "over"
  ELSE IF u \in Held \/ u > confirmed THEN "waiting"
  ELSE IF u \in handled THEN "over" ELSE "lost"

Pool == INSTANCE UpdatePool WITH phase <- [u \in Updates |-> Phase(u)]

(* The dispatcher is a pool of at most Concurrency handlers in which an update
   never overtakes more than those handled beside it, is handled at most once
   between two deaths of the process, and is lost only by such a death, after it
   was confirmed and before it was handled (see UpdatePool). *)
ImplementsPool == Pool!Spec
=============================================================================
