-------------------------------- MODULE MCBot --------------------------------
(***************************************************************************)
(* Instance of BotUpdates for TLC.  Anna is the client of both sessions,   *)
(* Boris and Clara are the executors; Clara has not opened her link yet.   *)
(***************************************************************************)
EXTENDS BotUpdates, TLC

CONSTANTS anna, boris, clara, s1, s2

MCClients == s1 :> anna @@ s2 :> anna
MCExecutors == s1 :> boris @@ s2 :> None
MCCurrent == anna :> s1 @@ boris :> s1 @@ clara :> None

U(from, what, arg) == [from |-> from, what |-> what, arg |-> arg]
Text(from) == U(from, "text", None)
Switch(s) == U(anna, "switch_session", s)
Start(parts) == U(clara, "start", parts)
Unknown == U(boris, "command", None)

MCFatal == {
  <<Text(anna), Unknown, U(boris, "photo", None)>>,
  <<Switch(s2), Switch(s1), Unknown>>}

MCContents == MCFatal \cup {
  <<Switch(s2), Text(anna), Switch(s1)>>,
  <<Text(anna), U(boris, "stop", None), U(anna, "sessions", None)>>,
  <<U(anna, "set_lang", "en"), Switch(s2), Text(anna)>>,
  <<Start(<<s2, "e">>), Text(clara), U(clara, "current", None)>>,
  <<Start(<<s1, "e">>), Text(clara), Start(<<"">>)>>,
  <<U(boris, "operator", None), U(boris, "op_menu", "incoming"), U(boris, "op_menu", "")>>,
  <<U(boris, "set_lang", ""), U(boris, "blocked", None), U(boris, "take_request", None)>>}
=============================================================================
