------------------------------- MODULE MCAccounts -------------------------------
(* Instance of OperatorAccounts for TLC; the other constants are in the .cfg file. *)
EXTENDS OperatorAccounts, TLC

CONSTANTS anna, boris, clara, t1, t2, t3, p1, p2

(* Anna is an admin who is logged in, Boris was invited, has been shown his
   secret and is about to confirm his first code, Clara does not exist yet. *)
MCAccounts == anna :> [status |-> "active", role |-> "admin", secret |-> 0]
           @@ boris :> [status |-> "invited", role |-> "operator", secret |-> 1]
           @@ clara :> Absent
MCSeats == anna :> t1 @@ boris :> None @@ clara :> None
MCAwaiting == p1 :> boris @@ p2 :> None

MCInvitations == {<<clara, "operator">>}
Disable == [status |-> "disabled", role |-> "same"]
Promote == [status |-> "same", role |-> "admin"]
Restore == [status |-> "active", role |-> "operator"]  \* or a demotion
Of(kinds, patches, failures, expiries) ==
  [kinds |-> kinds, patches |-> patches, failures |-> failures, expiries |-> expiries]
MCMixes ==
  {Of({"verify", "update"}, {Disable}, 1, TRUE),
   Of({"verify", "update"}, {Disable, Promote, Restore}, 0, FALSE),
   Of({"login", "update"}, {Disable, Promote, Restore}, 0, FALSE),
   Of({"login", "verify", "update"}, {Disable}, 0, FALSE),
   Of({"login", "verify", "logout", "create"}, {}, 0, TRUE),
   Of({"update", "open", "assign"}, {Disable}, 1, FALSE)}
(* Requests are alike, and so are the tokens still to be issued. *)
MCSymmetry == Permutations(Requests) \cup Permutations({t2, t3})
=============================================================================
