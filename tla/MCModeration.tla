----------------------------- MODULE MCModeration ------------------------------
(* Instance of Moderation for TLC. *)
EXTENDS Moderation, TLC

CONSTANTS c1, c2, c3
MCSymmetry == Permutations(Checks)
=============================================================================
