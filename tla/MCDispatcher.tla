------------------------------ MODULE MCDispatcher ------------------------------
(* Instances of Dispatcher for TLC; the constants are in the .cfg files. *)
EXTENDS Dispatcher

FirstUpdate == {1}
=============================================================================
