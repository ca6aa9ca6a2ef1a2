-------------------------------- MODULE Mailbox --------------------------------
(***************************************************************************)
(* What the intermediary promises the two sides of its sessions, without   *)
(* saying how: people are brought together in pairs, what they write is    *)
(* kept in a log that only grows, and an entry of the log is handed only   *)
(* to the person paired with its author in the session it belongs to.      *)
(* SessionRelay implements this specification.                             *)
(***************************************************************************)
EXTENDS Naturals, Sequences

CONSTANTS
  None     \* the author of an entry written by an operator

VARIABLES
  log,     \* entries with a session, a sender and the role it speaks for
  pairs,   \* <<session, client, executor>> ever brought together
  handed   \* deliveries: number of the entry, its session, the addressee

boxVars == <<log, pairs, handed>>

Meet(pair) ==
  /\ pairs' = pairs \cup {pair}
  /\ UNCHANGED <<log, handed>>

Post(entry) ==
  /\ log' = Append(log, entry)
  /\ UNCHANGED <<pairs, handed>>

\* Entry 0 is the notice that the other side has asked to stop.
MayReceive(d) ==
  d.ref > 0 =>
    LET entry == log[d.ref] IN
    /\ d.ref \in DOMAIN log
    /\ entry.session = d.session
    /\ entry.sender # None =>
         IF entry.role = "client" THEN <<d.session, entry.sender, d.to>> \in pairs
         ELSE <<d.session, d.to, entry.sender>> \in pairs

Hand(deliveries) ==
  /\ \A d \in deliveries : MayReceive(d)
  /\ handed' = handed \cup deliveries
  /\ UNCHANGED <<log, pairs>>

Init ==
  /\ log = << >>
  /\ pairs = {}
  /\ handed = {}

\* The arguments are read off the step itself: a step adds one pair, or one
\* entry, or any number of permitted deliveries.
Next ==
  \/ \E pair \in pairs' : Meet(pair)
  \/ /\ Len(log') = Len(log) + 1
     /\ Post(log'[Len(log')])
  \/ Hand(handed' \ handed)

Spec == Init /\ [][Next]_boxVars
================================================================================
