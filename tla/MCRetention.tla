------------------------------ MODULE MCRetention ------------------------------
(* Instances of Retention for TLC. *)
EXTENDS Retention

CONSTANTS alice, bob, cron, manual

(* Alice is the client of both sessions; Bob serves the first, and nobody has
   been bound to the second side of the other.  The first session has a photo,
   the second, in the run of one job, a text. *)
MCUsers == {alice, bob}
MCClientUserID == [s \in 1..NSessions |-> alice]
MCExecutorUserID == [s \in 1..NSessions |-> IF s = 1 THEN bob ELSE NULL]
MCPhoto == <<1>>
MCPhotoAndText == <<1, 2>>
=============================================================================
