---------------------------- MODULE SessionRelayInv ----------------------------
(***************************************************************************)
(* The inductive invariant of SessionRelay: what the tables satisfy in     *)
(* every state, and what each request in flight may rely on at each of its *)
(* steps although the tables have moved on since it read them.             *)
(***************************************************************************)
EXTENDS SessionRelay

BindSteps == {"bind_user", "bind_create", "bind_active", "bind_role",
              "bind_collect"}
RelayChecked == {"relay_check", "relay_pause", "relay_alert", "relay_store"}
StopSteps == {"stop_session", "stop_update", "stop_record", "stop_alert"}
SendSteps == {"send_check", "send_store", "send_bot"}

\* sender, speaking for side r of session s, and to were its two sides at once.
Facing(s, r, sender, to) ==
  IF r = "client" THEN <<s, sender, to>> \in paired
  ELSE <<s, to, sender>> \in paired

\* Everyone a session or a user's row points at has opened the link.
LinkedInv ==
  /\ \A u \in Users : active[u] # None => <<u, active[u]>> \in linked
  /\ \A s \in Sessions :
       /\ client[s] # None => <<client[s], s>> \in linked
       /\ executor[s] # None => <<executor[s], s>> \in linked
       /\ closeRequestedBy[s] # None => <<closeRequestedBy[s], s>> \in linked

PairedInv ==
  \A s \in Sessions : client[s] # None /\ executor[s] # None =>
    <<s, client[s], executor[s]>> \in paired

\* Every stored message says it was delivered, and was addressed to somebody
\* who faced its sender.
MessagesInv ==
  \A i \in DOMAIN messages :
    LET m == messages[i] IN
    /\ m.delivered
    /\ m.sender # None /\ m.recipient # None =>
         Facing(m.session, m.role, m.sender, m.recipient)

\* A request has seen as open every session that is active now.
OpenInv ==
  \A p \in Handlers, s \in Sessions :
    pc[p] # "idle" /\ status[s] = "active" => s \in open[p]

\* What request p knows at its current step.
BindJob(j, step) ==
  step \in BindSteps =>
    /\ j.op = "bind"
    /\ j.who \in Users
    /\ j.session \in Sessions
    /\ j.role \in Roles
    /\ step \in {"bind_role", "bind_collect"} => <<j.who, j.session>> \in linked

RelayJob(j, step) ==
  /\ step = "relay_session" =>
       j.op = "relay" /\ j.who \in Users /\ j.session \in Sessions
  /\ step \in RelayChecked =>
       /\ j.op = "relay"
       /\ j.who \in Users
       /\ j.session \in Sessions
       /\ j.role \in Roles
       /\ j.to # None => Facing(j.session, j.role, j.who, j.to)

SwitchJob(j, step) ==
  /\ step \in {"switch_check", "switch_write"} =>
       j.op = "switch" /\ j.who \in Users /\ j.session \in Sessions
  /\ step = "switch_write" => <<j.who, j.session>> \in linked
  /\ step = "lang_write" =>
       /\ j.op = "lang"
       /\ j.who \in Users
       /\ j.session # None => <<j.who, j.session>> \in linked

StopJob(j, step) ==
  step \in StopSteps =>
    /\ j.op = "stop"
    /\ j.who \in Users
    /\ j.session \in Sessions
    /\ <<j.who, j.session>> \in linked

OperatorJob(j, step) ==
  /\ step = "patch_write" =>
       j.op = "patch" /\ j.who \in Operators /\ j.session \in Sessions
  /\ step \in SendSteps =>
       /\ j.op = "sendas"
       /\ j.who \in Operators
       /\ j.session \in Sessions
       /\ j.role \in Roles
       /\ step = "send_bot" => j.to # None

\* An answer that makes the bot send something, and what it will send.
ReplyJob(j, step) ==
  step = "reply" =>
    /\ j.op = "relay" /\ j.result = "relayed" =>
         /\ j.session \in Sessions
         /\ j.to \in Users
         /\ j.message \in DOMAIN messages
         /\ messages[j.message].session = j.session
         /\ messages[j.message].recipient = j.to
    /\ j.op = "stop" /\ j.result = "ok" => j.session \in Sessions

\* Past the status check the session has been active during the request.
ActiveJob(j, step, wasOpen) ==
  /\ step \in RelayChecked \cup SendSteps => j.session \in wasOpen
  /\ j.message > 0 => j.session \in wasOpen

JobInv(p) ==
  /\ job[p].handed = {}
  /\ BindJob(job[p], pc[p])
  /\ RelayJob(job[p], pc[p])
  /\ SwitchJob(job[p], pc[p])
  /\ StopJob(job[p], pc[p])
  /\ OperatorJob(job[p], pc[p])
  /\ ReplyJob(job[p], pc[p])
  /\ ActiveJob(job[p], pc[p], open[p])

\* The whole of it holds in every reachable state and is preserved by every
\* step, which is what the proofs of SessionRelayProofs rest on.
IInv ==
  /\ TypeOK
  /\ LinkedInv
  /\ PairedInv
  /\ MessagesInv
  /\ OpenInv
  /\ DeliveredToCounterpart
  /\ \A p \in Handlers : JobInv(p)
================================================================================
