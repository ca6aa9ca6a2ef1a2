------------------------------- MODULE MCIncoming ------------------------------
(* Instance of IncomingRequests for TLC. *)
EXTENDS IncomingRequests

CONSTANTS p1, o1, o2
=============================================================================
