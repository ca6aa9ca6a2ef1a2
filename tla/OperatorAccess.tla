---------------------------- MODULE OperatorAccess ----------------------------
(***************************************************************************)
(* What the panel's accounts promise about the power of operators: nobody  *)
(* gains any unless an admin orders it.  OperatorAccounts implements this, *)
(* with power the most that anything still standing would let an operator  *)
(* do: his row, his sessions, the pending tokens of his first login step,  *)
(* and the requests that have read his row and will write it again.        *)
(*                                                                         *)
(* An order is a request of an admin to create or change an account.  It   *)
(* may be carried out long after it was given, when the admin who gave it  *)
(* has lost his own power.                                                 *)
(***************************************************************************)
EXTENDS Naturals

CONSTANTS
  Operators,
  Requests,  \* the requests an order can be
  Nobody

Nothing == 0
Operating == 1
Administering == 2
Levels == {Nothing, Operating, Administering}

VARIABLES
  power,  \* the level of each operator
  order   \* who gave the order each request is, and about whom, or Nobody

vars == <<power, order>>

TypeOK ==
  /\ power \in [Operators -> Levels]
  /\ order \in [Requests -> (Operators \X Operators) \cup {Nobody}]

Init ==
  /\ power \in [Operators -> Levels]
  /\ order = [r \in Requests |-> Nobody]

(* Without an order power is only lost: by a revocation, a logout, an expiry,
   a failure, or a request that reads of a disable. *)
Lapse ==
  /\ UNCHANGED order
  /\ power' \in [Operators -> Levels]
  /\ \A o \in Operators : power'[o] <= power[o]

(* Only an admin gives an order. *)
Give(r, a, o) ==
  /\ order[r] = Nobody /\ order' = [order EXCEPT ![r] = <<a, o>>]
  /\ power[a] = Administering
  /\ UNCHANGED power

(* It changes the power of the operator it is about, and is done with; or it
   fails, or comes to nothing. *)
CarryOut(r) ==
  /\ order[r] # Nobody /\ order' = [order EXCEPT ![r] = Nobody]
  /\ \E l \in Levels : power' = [power EXCEPT ![order[r][2]] = l]

Next ==
  \/ Lapse
  \/ \E r \in Requests, a, o \in Operators : Give(r, a, o)
  \/ \E r \in Requests : CarryOut(r)

Spec == Init /\ [][Next]_vars
=============================================================================
