---------------------------- MODULE MCSessionRelay ----------------------------
(***************************************************************************)
(* Instances of SessionRelay for TLC.  Each configuration issues the mix   *)
(* of operations its question is about.                                    *)
(***************************************************************************)
EXTENDS SessionRelayInv, TLC

CONSTANTS u1, u2, u3, o1, s1, s2, p1, p2, p3

\* Every operator may act on every session.
MCAccess == Operators \X Sessions

\* Every id has a counter of its own.
MCKeys == Users \cup Operators
MCViolationKey == [x \in Users \cup Operators |-> x]

MCSymmetry == Permutations(Users) \cup Permutations(Handlers)
=============================================================================
