------------------------- MODULE OperatorAccountsProofs ------------------------
(***************************************************************************)
(* OperatorAccounts, proved for any operators, tokens and requests: a      *)
(* disable ends every complete session, a conversation keeps an owner, and *)
(* nobody gains power but by an admin's order (OperatorAccess).            *)
(***************************************************************************)
EXTENDS OperatorAccounts, FiniteSetTheorems, TLAPS

(***************************************************************************)
(* What the local variables of a request are at each step of its handler.  *)
(***************************************************************************)
AboutSteps == {"login_read", "login_save", "login_pending",
               "verify_read", "verify_consume", "verify_set", "verify_index",
               "verify_expire", "verify_activate", "create_insert", "update_read",
               "update_save", "revoke_list", "revoke_each", "revoke_index",
               "reassign_list", "reassign_find", "reassign_each"}
Locals(q) ==
  /\ q.at \in AboutSteps => q.about \in Operators
  /\ q.at \in Orders => q.by \in Operators
  /\ q.at \in {"verify_pending", "verify_read", "verify_consume"} => q.pend \in Pendings
  /\ q.at \in {"verify_index", "verify_expire"} => q.token \in Tokens
  /\ q.at = "login_save" => q.read.status \in {"invited", "active"}
  /\ q.at = "update_save" => q.read.status # "absent"
  /\ q.at = "verify_activate" => q.read.status = "invited"
  /\ q.at = "create_insert" => q.newRole \in Roles
  /\ q.at = "reassign_each" => q.admin \in Operators
  /\ q.at \in {"open_insert", "open_own"} =>
       q.conv \in Sessions /\ q.by \in Operators /\ q.to = None
  /\ q.at \in {"assign_read", "assign_save"} => q.conv \in Sessions /\ q.to \in Operators
  /\ q.at = "idle" => q.conv = None
  /\ q.at = "revoke_index" => q.tokens = {}

(* A login is asked for an account that exists, and no row becomes absent. *)
LoginsExist ==
  \A r \in Requests :
    At(r, "login_read") => row[request[r].about].status # "absent"

(***************************************************************************)
(* Sessions and their index.  A live session whose creation met neither a  *)
(* revocation nor an expiry of the index is in the index, or about to be;  *)
(* the index does not expire before it; and a revocation that is under way *)
(* has it on its list.                                                     *)
(***************************************************************************)
CreatingIn(req, t, o, steps) ==
  \E r \in Requests : req[r].at \in steps /\ req[r].about = o /\ req[r].token = t
Fresh(t) == t \in Live \ overlapped

Indexed ==
  \A t \in Tokens : Fresh(t) =>
    LET o == session[t].operator IN
    /\ t \in index[o] \/ CreatingIn(request, t, o, {"verify_index"})
    /\ ttl[o] # None => t \in ttl[o] \/ CreatingIn(request, t, o, {"verify_index", "verify_expire"})
IssuedOnce ==
  /\ Live \subseteq issued
  /\ \A r \in Requests :
       /\ request[r].settled \subseteq issued
       /\ request[r].at \in {"verify_index", "verify_expire"} =>
            /\ request[r].token \in issued
            /\ request[r].token \in Live => session[request[r].token].operator = request[r].about
            /\ Revoking(request[r].about) => request[r].token \in overlapped
Revocation ==
  \A r \in Requests :
    IF request[r].at \in {"revoke_each", "revoke_index"}
    THEN \A t \in Tokens : Fresh(t) =>
           /\ session[t].operator = request[r].about => t \in request[r].tokens
           /\ t \in request[r].settled => session[t].operator = request[r].about
    ELSE request[r].settled \cap Live \subseteq overlapped

IInv ==
  /\ TypeOK /\ \A r \in Requests : Locals(request[r])
  /\ LoginsExist /\ Indexed /\ IssuedOnce /\ Revocation /\ OwnedOnceOpen

-------------------------------------------------------------------------------
(***************************************************************************)
(* Requests move one at a time.                                            *)
(***************************************************************************)
RequestStates ==
  [at : Steps, by : Operators \cup {None}, role : Roles, about : Operators \cup {None},
   read : Row, token : Tokens \cup {None}, pend : Pendings \cup {None},
   status : PatchStatuses \cup {"same"}, newRole : Roles \cup {"same"},
   tokens : SUBSET Tokens, convs : SUBSET Sessions, admin : Operators \cup {None},
   conv : Sessions \cup {None}, to : Operators \cup {None},
   settled : SUBSET Tokens, failed : BOOLEAN]

Others(r) == \A q \in Requests : q # r => request'[q] = request[q]
(* What a request that is over keeps, and what it keeps until then. *)
KeepsOutcome(n, q) ==
  /\ n.token = q.token /\ n.conv = q.conv /\ n.to = q.to
  /\ n.settled = q.settled /\ n.failed = q.failed
KeepsLocals(n, q) ==
  /\ n.by = q.by /\ n.role = q.role /\ n.about = q.about /\ n.read = q.read
  /\ n.pend = q.pend /\ n.status = q.status /\ n.newRole = q.newRole
  /\ n.tokens = q.tokens /\ n.convs = q.convs /\ n.admin = q.admin

LEMMA RequestTypes ==
  ASSUME TypeOK
  PROVE  /\ request \in [Requests -> RequestStates]
         /\ \A r \in Requests : request[r] \in RequestStates
BY DEF TypeOK, RequestStates

LEMMA IdleState ==
  /\ Idle \in RequestStates
  /\ Idle.at = "idle" /\ Idle.by = None /\ Idle.role = "operator" /\ Idle.about = None
  /\ Idle.read = Absent /\ Idle.token = None /\ Idle.pend = None
  /\ Idle.status = "same" /\ Idle.newRole = "same" /\ Idle.tokens = {} /\ Idle.convs = {}
  /\ Idle.admin = None /\ Idle.conv = None /\ Idle.to = None
  /\ Idle.settled = {} /\ Idle.failed = FALSE
<1>1. Absent \in Row
  BY AccountsAssumption DEF Absent, Row, Roles
<1> QED  BY <1>1 DEF Idle, RequestStates, Steps, Roles, PatchStatuses

LEMMA RequestMoves ==
  ASSUME TypeOK, NEW r \in Requests, NEW n \in RequestStates,
         request' = [request EXCEPT ![r] = n]
  PROVE  request' \in [Requests -> RequestStates] /\ request'[r] = n /\ Others(r)
BY RequestTypes DEF Others

LEMMA OverState ==
  ASSUME NEW q \in RequestStates
  PROVE  /\ Over(q) \in RequestStates /\ Over(q).at = "done" /\ KeepsOutcome(Over(q), q)
         /\ Over(q).about = None
<1> DEFINE a == [Idle EXCEPT !.at = "done"]
           b == [a EXCEPT !.token = q.token]
           c == [b EXCEPT !.conv = q.conv]
           d == [c EXCEPT !.to = q.to]
           e == [d EXCEPT !.settled = q.settled]
           n == [e EXCEPT !.failed = q.failed]
<1>1. Over(q) = n
  BY DEF Over
<1>2. a \in RequestStates /\ a.at = "done" /\ a.about = None
  BY IdleState DEF RequestStates, Steps
<1> HIDE DEF Over, a
<1>3. b \in RequestStates /\ b.at = "done" /\ b.about = None /\ b.token = q.token
  BY <1>2 DEF RequestStates
<1> HIDE DEF b
<1>4. c \in RequestStates /\ c.at = "done" /\ c.about = None /\ c.token = q.token
      /\ c.conv = q.conv
  BY <1>3 DEF RequestStates
<1> HIDE DEF c
<1>5. d \in RequestStates /\ d.at = "done" /\ d.about = None /\ d.token = q.token
      /\ d.conv = q.conv /\ d.to = q.to
  BY <1>4 DEF RequestStates
<1> HIDE DEF d
<1>6. e \in RequestStates /\ e.at = "done" /\ e.about = None /\ e.token = q.token
      /\ e.conv = q.conv /\ e.to = q.to /\ e.settled = q.settled
  BY <1>5 DEF RequestStates
<1> HIDE DEF e
<1>7. n \in RequestStates /\ n.at = "done" /\ n.about = None /\ n.token = q.token
      /\ n.conv = q.conv /\ n.to = q.to /\ n.settled = q.settled /\ n.failed = q.failed
  BY <1>6 DEF RequestStates
<1> QED  BY <1>1, <1>7 DEF KeepsOutcome

LEMMA OnwardState ==
  ASSUME NEW q \in RequestStates, NEW step \in Steps
  PROVE  /\ Onward(q, step) \in RequestStates /\ Onward(q, step).at = step
         /\ KeepsOutcome(Onward(q, step), q)
         /\ step # "done" => KeepsLocals(Onward(q, step), q)
<1>1. CASE step = "done"
  BY <1>1, OverState DEF Onward
<1>2. CASE step # "done"
  <2>1. Onward(q, step) = [q EXCEPT !.at = step]
    BY <1>2 DEF Onward
  <2> QED  BY <2>1 DEF RequestStates, KeepsOutcome, KeepsLocals
<1> QED  BY <1>1, <1>2

LEMMA GoMoves ==
  ASSUME TypeOK, NEW r \in Requests, NEW step \in Steps, Go(r, step)
  PROVE  /\ request' \in [Requests -> RequestStates] /\ Others(r)
         /\ request'[r].at = step /\ KeepsOutcome(request'[r], request[r])
         /\ step # "done" => KeepsLocals(request'[r], request[r])
<1>1. request[r] \in RequestStates
  BY RequestTypes
<1>2. request' = [request EXCEPT ![r] = Onward(request[r], step)]
  BY DEF Go
<1> QED  BY <1>1, <1>2, OnwardState, RequestMoves

LEMMA AtMoves ==
  ASSUME TypeOK, NEW r \in Requests, NEW step \in Steps,
         request' = [request EXCEPT ![r].at = step]
  PROVE  /\ request' \in [Requests -> RequestStates] /\ Others(r)
         /\ request'[r].at = step /\ KeepsOutcome(request'[r], request[r])
         /\ KeepsLocals(request'[r], request[r])
BY RequestTypes DEF RequestStates, Others, KeepsOutcome, KeepsLocals

(* A request that has read the row it is about goes on with it. *)
ReadsRow(r, step) ==
  request' = [request EXCEPT ![r] = Onward([@ EXCEPT !.read = row[request[r].about]], step)]
LEMMA ReadMoves ==
  ASSUME TypeOK, NEW r \in Requests, request[r].about \in Operators, NEW step \in Steps,
         ReadsRow(r, step)
  PROVE  /\ request' \in [Requests -> RequestStates] /\ Others(r)
         /\ request'[r].at = step /\ KeepsOutcome(request'[r], request[r])
         /\ step # "done" => /\ request'[r].read = row[request[r].about]
                             /\ request'[r].about = request[r].about
                             /\ request'[r].by = request[r].by
                             /\ request'[r].pend = request[r].pend
                             /\ request'[r].status = request[r].status
                             /\ request'[r].newRole = request[r].newRole
                             /\ request'[r].tokens = request[r].tokens
<1> DEFINE q == [request[r] EXCEPT !.read = row[request[r].about]]
<1>1. request[r] \in RequestStates /\ row[request[r].about] \in Row
  BY RequestTypes DEF TypeOK
<1>2. /\ q \in RequestStates /\ KeepsOutcome(q, request[r])
      /\ q.read = row[request[r].about] /\ q.about = request[r].about
      /\ q.by = request[r].by /\ q.pend = request[r].pend /\ q.status = request[r].status
      /\ q.newRole = request[r].newRole /\ q.tokens = request[r].tokens
  BY <1>1 DEF RequestStates, KeepsOutcome
<1>3. request' = [request EXCEPT ![r] = Onward(q, step)]
  BY DEF ReadsRow
<1> HIDE DEF q
<1>4. request'[r] = Onward(q, step) /\ request' \in [Requests -> RequestStates] /\ Others(r)
  BY <1>2, <1>3, OnwardState, RequestMoves
<1> QED  BY <1>2, <1>4, OnwardState DEF KeepsOutcome, KeepsLocals

(* A request that arrives carries the data of the session it was made with. *)
LEMMA AsState ==
  ASSUME TypeOK, NEW t \in Tokens, Authorised(t), NEW step \in Steps
  PROVE  /\ As(t, step) \in RequestStates /\ As(t, step).at = step
         /\ As(t, step).by = session[t].operator /\ session[t].operator \in Operators
         /\ As(t, step).conv = None /\ As(t, step).to = None /\ As(t, step).about = None
         /\ As(t, step).settled = {} /\ As(t, step).token = None /\ As(t, step).failed = FALSE
         /\ As(t, step).status = "same"
         /\ session[t].role \in Roles
<1>1. session[t] \in SessionData
  BY DEF Authorised, Live, TypeOK
<1>2. session[t].operator \in Operators /\ session[t].role \in Roles
  BY <1>1 DEF SessionData
<1> QED  BY <1>2, IdleState DEF As, RequestStates

-------------------------------------------------------------------------------
(***************************************************************************)
(* What a step must show to keep each part of the invariant.               *)
(***************************************************************************)
Moves(r) == request' \in [Requests -> RequestStates] /\ Others(r)

LEMMA LocalsKept ==
  ASSUME NEW r \in Requests, \A q \in Requests : Locals(request[q]),
         Others(r), Locals(request'[r])
  PROVE  \A q \in Requests : Locals(request'[q])
BY DEF Others

LEMMA LoginsKept ==
  ASSUME TypeOK, \A q \in Requests : Locals(request[q]), LoginsExist,
         NEW r \in Requests, Others(r),
         \A o \in Operators : row[o].status # "absent" => row'[o].status # "absent",
         request'[r].at = "login_read" => row'[request'[r].about].status # "absent"
  PROVE  LoginsExist'
<1> SUFFICES ASSUME NEW q \in Requests, request'[q].at = "login_read"
             PROVE  row'[request'[q].about].status # "absent"
  BY DEF LoginsExist, At
<1>1. CASE q = r
  BY <1>1
<1>2. CASE q # r
  <2>1. request'[q] = request[q]
    BY <1>2 DEF Others
  <2>2. request[q].about \in Operators
    BY <2>1 DEF Locals, AboutSteps
  <2> QED  BY <2>1, <2>2 DEF LoginsExist, At
<1> QED  BY <1>1, <1>2

(* A request goes on answering for the conversation it opened, or has no
   conversation yet. *)
Answers(r) ==
  \/ request[r].conv = None
  \/ /\ request'[r].conv = request[r].conv /\ request'[r].to = request[r].to
     /\ request[r].failed => request'[r].failed
     /\ request[r].at = "open_own" =>
          request'[r].at = "open_own" \/ request'[r].failed \/ owner'[request[r].conv] # None

LEMMA OwnedKept ==
  ASSUME TypeOK, OwnedOnceOpen, NEW r \in Requests, Others(r), exists' = exists,
         \A s \in Sessions : owner'[s] = None => owner[s] = None, Answers(r)
  PROVE  OwnedOnceOpen'
<1> SUFFICES ASSUME NEW s \in exists, owner'[s] = None
             PROVE  \E q \in Requests :
                      /\ request'[q].conv = s /\ request'[q].to = None
                      /\ request'[q].at = "open_own" \/ request'[q].failed
  BY DEF OwnedOnceOpen, At
<1>1. s \in Sessions /\ s # None
  BY AccountsAssumption DEF TypeOK
<1>2. PICK q \in Requests : /\ request[q].conv = s /\ request[q].to = None
                            /\ request[q].at = "open_own" \/ request[q].failed
  BY <1>1 DEF OwnedOnceOpen, At
<1>3. CASE q = r
  <2>1. request'[q].at = "open_own" \/ request'[q].failed
    BY <1>1, <1>2, <1>3 DEF Answers
  <2>2. request'[q].conv = s /\ request'[q].to = None
    BY <1>1, <1>2, <1>3 DEF Answers
  <2> QED  BY <2>1, <2>2
<1>4. CASE q # r
  BY <1>2, <1>4 DEF Others
<1> QED  BY <1>3, <1>4

(* Sessions end, tokens are issued, and no request that creates or revokes
   sessions takes part, but for one that works through its list. *)
Bystander(q) ==
  /\ request[q].at \notin {"verify_index", "verify_expire", "revoke_each", "revoke_index"}
  /\ request'[q].at \notin {"verify_index", "verify_expire", "revoke_each", "revoke_index"}
  /\ request'[q].settled = request[q].settled \/ request'[q].settled = {}
GoesThrough(q) ==
  /\ request[q].at \in {"revoke_each", "revoke_index"}
  /\ request'[q].at \in {"revoke_each", "revoke_index"}
  /\ request'[q].settled = request[q].settled /\ request'[q].about = request[q].about
  /\ \A t \in Tokens : t \in request[q].tokens /\ session'[t] # None => t \in request'[q].tokens
SessionsEnd ==
  /\ session' \in [Tokens -> SessionData \cup {None}]
  /\ \A t \in Tokens : session'[t] # None => session'[t] = session[t]
  /\ index' = index /\ ttl' = ttl /\ overlapped' = overlapped /\ issued \subseteq issued'
  /\ \A q \in Requests : request'[q] = request[q] \/ Bystander(q) \/ GoesThrough(q)

LEMMA SessionsKept ==
  ASSUME TypeOK, Indexed, IssuedOnce, Revocation, SessionsEnd
  PROVE  Indexed' /\ IssuedOnce' /\ Revocation'
<1>1. ASSUME NEW t \in Tokens, Fresh(t)'
      PROVE  Fresh(t) /\ session'[t] = session[t]
  BY <1>1 DEF SessionsEnd, Fresh, Live
<1>2. ASSUME NEW o
      PROVE  Revoking(o)' => Revoking(o)
  BY DEF Revoking, SessionsEnd, Bystander, GoesThrough
<1>3. ASSUME NEW t, NEW o, NEW steps, steps \subseteq {"verify_index", "verify_expire"},
             CreatingIn(request, t, o, steps)
      PROVE  CreatingIn(request', t, o, steps)
  <2>1. PICK q \in Requests : request[q].at \in steps /\ request[q].about = o /\ request[q].token = t
    BY <1>3 DEF CreatingIn
  <2>2. request'[q] = request[q]
    BY <1>3, <2>1 DEF SessionsEnd, Bystander, GoesThrough
  <2> QED  BY <2>1, <2>2 DEF CreatingIn
<1>4. Indexed'
  <2> SUFFICES ASSUME NEW t \in Tokens, Fresh(t)'
               PROVE  LET o == session'[t].operator IN
                      /\ t \in index'[o] \/ CreatingIn(request', t, o, {"verify_index"})
                      /\ ttl'[o] # None =>
                           t \in ttl'[o]
                           \/ CreatingIn(request', t, o, {"verify_index", "verify_expire"})
    BY DEF Indexed, CreatingIn
  <2>1. PICK o : o = session[t].operator
    OBVIOUS
  <2>2. Fresh(t) /\ session'[t].operator = o /\ index' = index /\ ttl' = ttl
    BY <2>1, <1>1 DEF SessionsEnd
  <2>3. t \in index[o] \/ CreatingIn(request, t, o, {"verify_index"})
    BY <2>1, <2>2 DEF Indexed
  <2>4. ttl[o] # None => t \in ttl[o] \/ CreatingIn(request, t, o, {"verify_index", "verify_expire"})
    BY <2>1, <2>2 DEF Indexed
  <2>5. t \in index[o] \/ CreatingIn(request', t, o, {"verify_index"})
    BY <2>3, <1>3
  <2>6. ttl[o] # None => t \in ttl[o] \/ CreatingIn(request', t, o, {"verify_index", "verify_expire"})
    BY <2>4, <1>3
  <2> QED  BY <2>2, <2>5, <2>6
<1>5. IssuedOnce'
  <2>1. (Live \subseteq issued)'
    BY DEF IssuedOnce, SessionsEnd, Live
  <2>2. ASSUME NEW q \in Requests
        PROVE  request'[q].settled \subseteq issued'
    BY DEF IssuedOnce, SessionsEnd, Bystander, GoesThrough
  <2>3. ASSUME NEW q \in Requests, request'[q].at \in {"verify_index", "verify_expire"}
        PROVE  /\ request'[q].token \in issued'
               /\ request'[q].token \in Live' => session'[request'[q].token].operator = request'[q].about
               /\ Revoking(request[q].about)' => request'[q].token \in overlapped'
    <3>1. request'[q] = request[q]
      BY <2>3 DEF SessionsEnd, Bystander, GoesThrough
    <3>2. Revoking(request[q].about)' => Revoking(request[q].about)
      BY <3>1, <1>2 DEF Revoking
    <3>3. request[q].token \in Live' =>
            request[q].token \in Live /\ session'[request[q].token] = session[request[q].token]
      BY DEF Live, SessionsEnd
    <3> QED  BY <2>3, <3>1, <3>2, <3>3 DEF IssuedOnce, SessionsEnd
  <2> QED  BY <2>1, <2>2, <2>3 DEF IssuedOnce
<1>6. Revocation'
  <2> SUFFICES ASSUME NEW q \in Requests
               PROVE  IF request'[q].at \in {"revoke_each", "revoke_index"}
                      THEN \A t \in Tokens : Fresh(t)' =>
                             /\ session'[t].operator = request'[q].about => t \in request'[q].tokens
                             /\ t \in request'[q].settled => session'[t].operator = request'[q].about
                      ELSE request'[q].settled \cap Live' \subseteq overlapped'
    BY DEF Revocation
  <2>1. Live' \subseteq Live
    BY DEF Live, SessionsEnd
  <2>2. CASE request'[q].at \in {"revoke_each", "revoke_index"}
    <3>1. /\ request[q].at \in {"revoke_each", "revoke_index"}
          /\ request'[q].settled = request[q].settled /\ request'[q].about = request[q].about
      BY <2>2 DEF SessionsEnd, Bystander, GoesThrough
    <3>2. ASSUME NEW t \in Tokens, Fresh(t)'
          PROVE  /\ session'[t].operator = request'[q].about => t \in request'[q].tokens
                 /\ t \in request'[q].settled => session'[t].operator = request'[q].about
      <4>1. Fresh(t) /\ session'[t] = session[t] /\ session'[t] # None
        BY <3>2, <1>1 DEF Fresh, Live
      <4>2. t \in request[q].tokens => t \in request'[q].tokens
        BY <4>1, <2>2 DEF SessionsEnd, Bystander, GoesThrough
      <4> QED  BY <3>1, <4>1, <4>2 DEF Revocation
    <3> QED  BY <2>2, <3>2
  <2>3. CASE request'[q].at \notin {"revoke_each", "revoke_index"}
    <3>1. request[q].at \notin {"revoke_each", "revoke_index"}
      BY <2>3 DEF SessionsEnd, Bystander, GoesThrough
    <3>2. request'[q].settled \subseteq request[q].settled
      BY <2>3 DEF SessionsEnd, Bystander, GoesThrough
    <3> QED  BY <2>1, <2>3, <3>1, <3>2 DEF Revocation, SessionsEnd
  <2> QED  BY <2>2, <2>3
<1> QED  BY <1>4, <1>5, <1>6

(***************************************************************************)
(* The steps that touch neither a session nor an index.                    *)
(***************************************************************************)
Turns(r) ==
  /\ Moves(r) /\ Locals(request'[r]) /\ Bystander(r) /\ Answers(r)
  /\ request'[r].at = "login_read" => row'[request'[r].about].status # "absent"
Elsewhere ==
  /\ mix' = mix /\ session' = session /\ index' = index /\ ttl' = ttl
  /\ overlapped' = overlapped /\ exists' = exists
  /\ row' \in [Operators -> Row] /\ secrets' \in 0..MaxSecrets
  /\ \A o \in Operators : row[o].status # "absent" => row'[o].status # "absent"
  /\ pending' \in [Pendings -> Operators \cup {None}]
  /\ issued \subseteq issued' /\ issued' \subseteq Tokens \cup Pendings
  /\ owner' \in [Sessions -> Operators \cup {None}]
  /\ \A s \in Sessions : owner'[s] = None => owner[s] = None

LEMMA ElsewhereKeeps ==
  ASSUME IInv, NEW r \in Requests, Turns(r), Elsewhere
  PROVE  IInv'
<1>1. TypeOK'
  BY DEF IInv, TypeOK, Turns, Moves, Elsewhere, RequestStates
<1>2. \A q \in Requests : Locals(request'[q])
  BY LocalsKept DEF IInv, Turns, Moves
<1>3. LoginsExist'
  BY LoginsKept DEF IInv, Turns, Moves, Elsewhere
<1>4. SessionsEnd
  BY DEF IInv, TypeOK, SessionsEnd, Elsewhere, Turns, Moves, Others
<1>5. Indexed' /\ IssuedOnce' /\ Revocation'
  BY <1>4, SessionsKept DEF IInv
<1>6. OwnedOnceOpen'
  BY OwnedKept DEF IInv, Turns, Moves, Elsewhere
<1> QED  BY <1>1, <1>2, <1>3, <1>5, <1>6 DEF IInv, Locals

LEMMA StoresStay ==
  ASSUME IInv, UNCHANGED <<mix, storeVars, redisVars, ownerVars, overlapped>>
  PROVE  Elsewhere
BY DEF IInv, TypeOK, Elsewhere, storeVars, redisVars, ownerVars

LEMMA ArriveTurns ==
  ASSUME IInv, NEW r \in Requests, At(r, "idle"), NEW n \in RequestStates,
         request' = [request EXCEPT ![r] = n],
         n.at \notin {"verify_index", "verify_expire", "revoke_each", "revoke_index"},
         n.settled = {}, Locals(n),
         n.at = "login_read" => row'[n.about].status # "absent"
  PROVE  Turns(r) /\ request'[r] = n
<1>1. request'[r] = n /\ Moves(r)
  BY RequestMoves DEF IInv, Moves
<1>2. request[r].conv = None /\ request[r].at = "idle"
  BY DEF IInv, Locals, At
<1> QED  BY <1>1, <1>2 DEF Turns, Bystander, Answers

LEMMA GoTurns ==
  ASSUME IInv, NEW r \in Requests, Moves(r), Locals(request'[r]),
         KeepsOutcome(request'[r], request[r]),
         request[r].at \notin {"verify_index", "verify_expire", "revoke_each", "revoke_index"},
         request'[r].at \notin {"verify_index", "verify_expire", "revoke_each", "revoke_index"},
         request'[r].at # "login_read",
         request[r].at = "open_own" => owner'[request[r].conv] # None
  PROVE  Turns(r)
BY DEF Turns, Bystander, Answers, KeepsOutcome

LEMMA DoneIsLocal ==
  ASSUME NEW q, q.at = "done"
  PROVE  Locals(q)
BY DEF Locals, AboutSteps, Orders

(* Where a request is, and what that says of its local variables. *)
LEMMA LocalsHere ==
  ASSUME IInv, NEW r \in Requests
  PROVE  TypeOK /\ Locals(request[r]) /\ request[r] \in RequestStates
BY RequestTypes DEF IInv

LEMMA LoginTurns ==
  ASSUME IInv, NEW r \in Requests, NEW o \in Operators, Login(r, o)
  PROVE  Turns(r) /\ Elsewhere /\ request'[r].at = "login_read" /\ request'[r].about = o
<1> DEFINE a == [Idle EXCEPT !.at = "login_read"]
           n == [a EXCEPT !.about = o]
<1>1. a \in RequestStates /\ a.at = "login_read" /\ a.settled = {} /\ a.conv = None
  BY IdleState DEF RequestStates, Steps
<1> HIDE DEF a
<1>2. n \in RequestStates /\ n.at = "login_read" /\ n.settled = {} /\ n.about = o
  BY <1>1 DEF RequestStates
<1>3. request' = [request EXCEPT ![r] = n] /\ row[o].status # "absent" /\ row' = row
      /\ At(r, "idle")
  BY DEF Login, a, storeVars
<1> HIDE DEF n
<1>4. Locals(n)
  BY <1>2 DEF Locals, AboutSteps, Orders
<1>5. Turns(r) /\ request'[r] = n
  BY <1>2, <1>3, <1>4, ArriveTurns
<1>6. Elsewhere
  BY StoresStay DEF Login
<1> QED  BY <1>2, <1>5, <1>6

LEMMA LoginReadTurns ==
  ASSUME IInv, NEW r \in Requests, LoginRead(r)
  PROVE  /\ Turns(r) /\ Elsewhere
         /\ request'[r].at \in {"done", "login_save", "login_pending"}
         /\ request'[r].at # "done" => /\ request'[r].about = request[r].about
                                       /\ request'[r].read = row[request[r].about]
                                       /\ row[request[r].about].status \in {"invited", "active"}
<1>1. /\ request[r].at = "login_read" /\ request[r].about \in Operators
      /\ row[request[r].about] \in Row /\ row[request[r].about].status # "absent"
  BY LocalsHere DEF LoginRead, At, Locals, AboutSteps, IInv, LoginsExist, TypeOK
<1>2. PICK o : o = row[request[r].about]
  OBVIOUS
<1>3. o.status \in {"invited", "active", "disabled", "suspended"}
  BY <1>1, <1>2 DEF Row, Statuses
<1>4. PICK step \in {"done", "login_save", "login_pending"} :
        ReadsRow(r, step) /\ (step # "done" => o.status \in {"invited", "active"})
  BY <1>2, <1>3 DEF LoginRead, ReadsRow
<1>5. /\ Moves(r) /\ request'[r].at = step /\ KeepsOutcome(request'[r], request[r])
      /\ step # "done" => request'[r].read = o /\ request'[r].about = request[r].about
  BY <1>1, <1>2, <1>4, LocalsHere, ReadMoves DEF Moves, Steps
<1>6. Locals(request'[r])
  BY <1>1, <1>4, <1>5 DEF Locals, AboutSteps, Orders
<1>7. Turns(r)
  BY <1>1, <1>4, <1>5, <1>6, GoTurns
<1>8. Elsewhere
  BY StoresStay DEF LoginRead
<1> QED  BY <1>2, <1>4, <1>5, <1>7, <1>8

LEMMA OnwardMoves ==
  ASSUME TypeOK, NEW r \in Requests, NEW q \in RequestStates, NEW step \in Steps,
         request' = [request EXCEPT ![r] = Onward(q, step)]
  PROVE  /\ Moves(r) /\ request'[r].at = step /\ KeepsOutcome(request'[r], q)
         /\ step # "done" => KeepsLocals(request'[r], q)
BY OnwardState, RequestMoves DEF Moves

LEMMA LoginSaveTurns ==
  ASSUME IInv, NEW r \in Requests, LoginSave(r)
  PROVE  /\ Turns(r) /\ Elsewhere /\ request[r].at = "login_save"
         /\ request[r].about \in Operators /\ request[r].read \in Row
         /\ request'[r].at = "login_pending" /\ request'[r].about = request[r].about
         /\ row'[request[r].about].role = request[r].read.role
         /\ row'[request[r].about].status = request[r].read.status
         /\ request[r].read.status \in {"invited", "active"}
         /\ \A o \in Operators \ {request[r].about} : row'[o] = row[o]
         /\ pending' = pending
<1>1. PICK o, read : o = request[r].about /\ read = request[r].read
  OBVIOUS
<1>2. /\ request[r].at = "login_save" /\ o \in Operators
      /\ read \in Row /\ read.status \in {"invited", "active"}
  BY <1>1, LocalsHere DEF LoginSave, At, Locals, AboutSteps, RequestStates
<1>3. Moves(r) /\ request'[r].at = "login_pending" /\ request'[r].about = o
      /\ KeepsOutcome(request'[r], request[r])
  BY <1>1, LocalsHere, AtMoves DEF LoginSave, Steps, KeepsLocals, Moves
<1>4. Locals(request'[r])
  BY <1>2, <1>3 DEF Locals, AboutSteps, Orders
<1>5. Turns(r)
  BY <1>2, <1>3, <1>4, GoTurns
<1>6. secrets' \in 0..MaxSecrets
  BY AccountsAssumption DEF LoginSave, IInv, TypeOK
<1>7. /\ [read EXCEPT !.secret = secrets'] \in Row
      /\ [read EXCEPT !.secret = secrets'].status = read.status
      /\ [read EXCEPT !.secret = secrets'].role = read.role
  BY <1>2, <1>6 DEF Row
<1>8. PICK new \in Row : /\ new.status = read.status /\ new.role = read.role
                         /\ row' = [row EXCEPT ![o] = new]
  BY <1>1, <1>7 DEF LoginSave
<1>9. /\ row' \in [Operators -> Row] /\ row'[o] = new
      /\ \A p \in Operators \ {o} : row'[p] = row[p]
  BY <1>2, <1>8 DEF IInv, TypeOK
<1>10. Elsewhere
  BY <1>2, <1>6, <1>8, <1>9 DEF Elsewhere, LoginSave, redisVars, ownerVars, IInv, TypeOK
<1> QED  BY <1>1, <1>2, <1>3, <1>5, <1>8, <1>9, <1>10 DEF LoginSave, redisVars

LEMMA LoginPendingTurns ==
  ASSUME IInv, NEW r \in Requests, LoginPending(r)
  PROVE  /\ Turns(r) /\ Elsewhere /\ request[r].at = "login_pending"
         /\ request[r].about \in Operators /\ request'[r].at = "done" /\ row' = row
         /\ \A p \in Pendings : pending'[p] = pending[p] \/ pending'[p] = request[r].about
<1>1. request[r].at = "login_pending" /\ request[r].about \in Operators
  BY LocalsHere DEF LoginPending, At, Locals, AboutSteps
<1>2. Moves(r) /\ request'[r].at = "done" /\ KeepsOutcome(request'[r], request[r])
  BY LocalsHere, GoMoves DEF LoginPending, Steps, Moves
<1>3. Turns(r)
  BY <1>1, <1>2, DoneIsLocal, GoTurns
<1>4. PICK p \in Pendings \ issued : /\ pending' = [pending EXCEPT ![p] = request[r].about]
                                     /\ issued' = issued \cup {p}
  BY DEF LoginPending
<1>5. Elsewhere
  BY <1>1, <1>4 DEF Elsewhere, LoginPending, storeVars, ownerVars, IInv, TypeOK
<1> QED  BY <1>1, <1>2, <1>3, <1>4, <1>5 DEF LoginPending, storeVars, IInv, TypeOK

LEMMA VerifyTurns ==
  ASSUME IInv, NEW r \in Requests, NEW p \in Pendings, Verify(r, p)
  PROVE  Turns(r) /\ Elsewhere /\ request'[r].at = "verify_pending"
<1> DEFINE a == [Idle EXCEPT !.at = "verify_pending"]
           n == [a EXCEPT !.pend = p]
<1>1. a \in RequestStates /\ a.at = "verify_pending" /\ a.settled = {}
  BY IdleState DEF RequestStates, Steps
<1> HIDE DEF a
<1>2. n \in RequestStates /\ n.at = "verify_pending" /\ n.settled = {} /\ n.pend = p
  BY <1>1 DEF RequestStates
<1>3. request' = [request EXCEPT ![r] = n] /\ At(r, "idle")
  BY DEF Verify, a
<1> HIDE DEF n
<1>4. Locals(n)
  BY <1>2 DEF Locals, AboutSteps, Orders
<1>5. Turns(r) /\ request'[r] = n
  BY <1>2, <1>3, <1>4, ArriveTurns
<1>6. Elsewhere
  BY StoresStay DEF Verify
<1> QED  BY <1>2, <1>5, <1>6

LEMMA VerifyPendingTurns ==
  ASSUME IInv, NEW r \in Requests, VerifyPending(r)
  PROVE  /\ Turns(r) /\ Elsewhere /\ request[r].at = "verify_pending"
         /\ request'[r].at \in {"done", "verify_read"}
         /\ request'[r].at = "verify_read" =>
              \E p \in Pendings : pending[p] = request'[r].about
<1>1. request[r].at = "verify_pending" /\ request[r].pend \in Pendings
      /\ request[r] \in RequestStates /\ TypeOK
  BY LocalsHere DEF VerifyPending, At, Locals
<1>2. PICK o : o = pending[request[r].pend]
  OBVIOUS
<1>3. o \in Operators \cup {None}
  BY <1>1, <1>2 DEF TypeOK
<1>4. PICK q : q = [request[r] EXCEPT !.about = o]
  OBVIOUS
<1>5. q \in RequestStates /\ q.about = o /\ q.pend = request[r].pend /\ KeepsOutcome(q, request[r])
  BY <1>1, <1>3, <1>4 DEF RequestStates, KeepsOutcome
<1>6. PICK step \in {"done", "verify_read"} :
        /\ request' = [request EXCEPT ![r] = Onward(q, step)]
        /\ step # "done" => o # None
  BY <1>2, <1>4 DEF VerifyPending
<1>7. /\ Moves(r) /\ request'[r].at = step /\ KeepsOutcome(request'[r], q)
      /\ step # "done" => request'[r].about = o /\ request'[r].pend = request[r].pend
  <2>1. step \in Steps /\ q \in RequestStates
    BY <1>5, <1>6 DEF Steps
  <2>2. /\ Moves(r) /\ request'[r].at = step /\ KeepsOutcome(request'[r], q)
        /\ step # "done" => KeepsLocals(request'[r], q)
    BY <1>1, <1>6, <2>1, OnwardMoves
  <2> QED  BY <1>5, <2>2 DEF KeepsLocals
<1>8. Locals(request'[r])
  BY <1>1, <1>3, <1>6, <1>7 DEF Locals, AboutSteps, Orders
<1>9. Turns(r)
  BY <1>1, <1>5, <1>6, <1>7, <1>8, GoTurns DEF KeepsOutcome
<1>10. Elsewhere
  BY StoresStay DEF VerifyPending
<1> QED  BY <1>1, <1>2, <1>6, <1>7, <1>9, <1>10

LEMMA VerifyReadTurns ==
  ASSUME IInv, NEW r \in Requests, VerifyRead(r)
  PROVE  /\ Turns(r) /\ Elsewhere
         /\ request[r].at = "verify_read" /\ request'[r].at \in {"done", "verify_consume"}
         /\ request'[r].at # "done" => /\ request'[r].about = request[r].about
                                       /\ request'[r].read = row[request[r].about]
<1>1. /\ request[r].at = "verify_read" /\ request[r].about \in Operators
  BY LocalsHere DEF VerifyRead, At, Locals, AboutSteps
<1>2. PICK step \in {"done", "verify_consume"} :
        ReadsRow(r, step) /\ (step # "done" => row[request[r].about].secret # 0)
  BY DEF VerifyRead, ReadsRow
<1>3. /\ Moves(r) /\ request'[r].at = step /\ KeepsOutcome(request'[r], request[r])
      /\ step # "done" => /\ request'[r].read = row[request[r].about]
                          /\ request'[r].about = request[r].about
  BY <1>1, <1>2, LocalsHere, ReadMoves DEF Moves, Steps
<1>4. request[r].pend \in Pendings /\ (step # "done" => request'[r].pend = request[r].pend)
  BY <1>1, <1>2, LocalsHere, ReadMoves DEF Locals, Steps
<1>5. Locals(request'[r])
  BY <1>1, <1>2, <1>3, <1>4 DEF Locals, AboutSteps, Orders
<1>6. Turns(r)
  BY <1>1, <1>2, <1>3, <1>5, GoTurns
<1>7. Elsewhere
  BY StoresStay DEF VerifyRead
<1> QED  BY <1>1, <1>2, <1>3, <1>6, <1>7

LEMMA VerifyConsumeTurns ==
  ASSUME IInv, NEW r \in Requests, VerifyConsume(r)
  PROVE  /\ Turns(r) /\ Elsewhere /\ row' = row
         /\ request[r].at = "verify_consume" /\ request'[r].at = "verify_set"
         /\ request'[r].about = request[r].about /\ request'[r].read = request[r].read
         /\ \A p \in Pendings : pending'[p] = pending[p] \/ pending'[p] = None
<1>1. /\ request[r].at = "verify_consume" /\ request[r].about \in Operators
      /\ request[r].pend \in Pendings
  BY LocalsHere DEF VerifyConsume, At, Locals, AboutSteps
<1>2. /\ Moves(r) /\ request'[r].at = "verify_set" /\ KeepsOutcome(request'[r], request[r])
      /\ request'[r].about = request[r].about /\ request'[r].read = request[r].read
  BY LocalsHere, GoMoves DEF VerifyConsume, Steps, Moves, KeepsLocals
<1>3. Locals(request'[r])
  BY <1>1, <1>2 DEF Locals, AboutSteps, Orders
<1>4. Turns(r)
  BY <1>1, <1>2, <1>3, GoTurns
<1>5. Elsewhere
  BY <1>1 DEF Elsewhere, VerifyConsume, storeVars, ownerVars, IInv, TypeOK
<1> QED  BY <1>1, <1>2, <1>4, <1>5 DEF VerifyConsume, storeVars, IInv, TypeOK

LEMMA VerifyActivateTurns ==
  ASSUME IInv, NEW r \in Requests, VerifyActivate(r)
  PROVE  /\ Turns(r) /\ Elsewhere /\ request'[r].at = "done" /\ pending' = pending
         /\ request[r].at = "verify_activate" /\ request[r].about \in Operators
         /\ request[r].read.status = "invited"
         /\ row'[request[r].about].role = request[r].read.role
         /\ row'[request[r].about].status = "active"
         /\ \A o \in Operators \ {request[r].about} : row'[o] = row[o]
<1>1. PICK o, read : o = request[r].about /\ read = request[r].read
  OBVIOUS
<1>2. /\ request[r].at = "verify_activate" /\ o \in Operators
      /\ read \in Row /\ read.status = "invited"
  BY <1>1, LocalsHere DEF VerifyActivate, At, Locals, AboutSteps, RequestStates
<1>3. Moves(r) /\ request'[r].at = "done" /\ KeepsOutcome(request'[r], request[r])
  BY LocalsHere, GoMoves DEF VerifyActivate, Steps, Moves
<1>4. Turns(r)
  BY <1>2, <1>3, DoneIsLocal, GoTurns
<1>5. PICK new \in Row : /\ new.status = "active" /\ new.role = read.role
                         /\ row' = [row EXCEPT ![o] = new]
  BY <1>1, <1>2 DEF VerifyActivate, Row, Statuses
<1>6. /\ row' \in [Operators -> Row] /\ row'[o] = new
      /\ \A p \in Operators \ {o} : row'[p] = row[p]
  BY <1>2, <1>5 DEF IInv, TypeOK
<1>7. Elsewhere
  BY <1>2, <1>5, <1>6 DEF Elsewhere, VerifyActivate, redisVars, ownerVars, IInv, TypeOK
<1> QED  BY <1>1, <1>2, <1>3, <1>4, <1>5, <1>6, <1>7 DEF VerifyActivate, redisVars

(* An admin's order names him and the operator it is about. *)
LEMMA OrderTurns ==
  ASSUME IInv, NEW r \in Requests, At(r, "idle"), NEW t \in Tokens, Authorised(t),
         NEW step \in {"create_insert", "update_read"}, NEW o \in Operators,
         NEW status \in PatchStatuses \cup {"same"}, NEW role \in Roles \cup {"same"},
         step = "create_insert" => role \in Roles,
         request' = [request EXCEPT ![r] =
           [[[As(t, step) EXCEPT !.about = o] EXCEPT !.status = status] EXCEPT !.newRole = role]]
  PROVE  /\ Turns(r) /\ request'[r].at = step /\ request'[r].about = o
         /\ request'[r].by = session[t].operator /\ session[t].operator \in Operators
<1>1. PICK by, q : by = session[t].operator /\ q = As(t, step)
  OBVIOUS
<1>2. /\ q \in RequestStates /\ q.at = step /\ q.by = by /\ by \in Operators
      /\ q.settled = {}
  <2>1. step \in Steps /\ TypeOK
    BY LocalsHere DEF Steps
  <2> QED  BY <1>1, <2>1, AsState
<1>3. PICK a : a = [q EXCEPT !.about = o]
  OBVIOUS
<1>4. a \in RequestStates /\ a.at = step /\ a.by = by /\ a.settled = {} /\ a.about = o
  BY <1>2, <1>3 DEF RequestStates
<1>5. PICK b : b = [a EXCEPT !.status = status]
  OBVIOUS
<1>6. b \in RequestStates /\ b.at = step /\ b.by = by /\ b.settled = {} /\ b.about = o
  BY <1>4, <1>5 DEF RequestStates
<1>7. PICK n : n = [b EXCEPT !.newRole = role]
  OBVIOUS
<1>8. /\ n \in RequestStates /\ n.at = step /\ n.by = by /\ n.settled = {} /\ n.about = o
      /\ n.newRole = role
  BY <1>6, <1>7 DEF RequestStates
<1>9. request' = [request EXCEPT ![r] = n]
  BY <1>1, <1>3, <1>5, <1>7
<1>10. Locals(n)
  BY <1>2, <1>8 DEF Locals, AboutSteps, Orders
<1>11. Turns(r) /\ request'[r] = n
  BY <1>8, <1>9, <1>10, ArriveTurns
<1> QED  BY <1>1, <1>2, <1>8, <1>11

LEMMA CreateOperatorTurns ==
  ASSUME IInv, NEW r \in Requests, NEW t \in Tokens, NEW o \in Operators, NEW role \in Roles,
         CreateOperator(r, t, o, role)
  PROVE  /\ Turns(r) /\ Elsewhere /\ request[r].at = "idle" /\ request'[r].at = "create_insert"
         /\ t \in Live /\ session[t].role = "admin"
         /\ request'[r].by = session[t].operator /\ session[t].operator \in Operators
         /\ request'[r].about = o
<1>1. At(r, "idle") /\ Authorised(t) /\ session[t].role = "admin"
  BY DEF CreateOperator
<1>2. As(t, "create_insert") \in RequestStates /\ As(t, "create_insert").status = "same"
  <2>1. "create_insert" \in Steps /\ TypeOK
    BY LocalsHere DEF Steps
  <2> QED  BY <1>1, <2>1, AsState
<1>3. [As(t, "create_insert") EXCEPT !.about = o, !.newRole = role]
        = [[[As(t, "create_insert") EXCEPT !.about = o] EXCEPT !.status = "same"] EXCEPT !.newRole = role]
  BY <1>2 DEF RequestStates
<1>4. request' = [request EXCEPT ![r] =
        [[[As(t, "create_insert") EXCEPT !.about = o] EXCEPT !.status = "same"] EXCEPT !.newRole = role]]
  BY <1>3 DEF CreateOperator
<1>5. /\ Turns(r) /\ request'[r].at = "create_insert" /\ request'[r].about = o
      /\ request'[r].by = session[t].operator /\ session[t].operator \in Operators
  BY <1>1, <1>4, OrderTurns
<1>6. Elsewhere
  BY StoresStay DEF CreateOperator
<1> QED  BY <1>1, <1>5, <1>6 DEF At, Authorised

LEMMA UpdateOperatorTurns ==
  ASSUME IInv, NEW r \in Requests, NEW t \in Tokens, NEW o \in Operators,
         NEW patch \in mix.patches, UpdateOperator(r, t, o, patch)
  PROVE  /\ Turns(r) /\ Elsewhere /\ request[r].at = "idle" /\ request'[r].at = "update_read"
         /\ t \in Live /\ session[t].role = "admin"
         /\ request'[r].by = session[t].operator /\ session[t].operator \in Operators
         /\ request'[r].about = o
<1>1. At(r, "idle") /\ Authorised(t) /\ session[t].role = "admin"
  BY DEF UpdateOperator
<1>2. patch.status \in PatchStatuses \cup {"same"} /\ patch.role \in Roles \cup {"same"}
  BY AccountsAssumption DEF IInv, TypeOK, Mix, Patch
<1>3. request' = [request EXCEPT ![r] =
        [[[As(t, "update_read") EXCEPT !.about = o] EXCEPT !.status = patch.status]
           EXCEPT !.newRole = patch.role]]
  BY DEF UpdateOperator
<1>4. /\ Turns(r) /\ request'[r].at = "update_read" /\ request'[r].about = o
      /\ request'[r].by = session[t].operator /\ session[t].operator \in Operators
  BY <1>1, <1>2, <1>3, OrderTurns
<1>5. Elsewhere
  BY StoresStay DEF UpdateOperator
<1> QED  BY <1>1, <1>4, <1>5 DEF At, Authorised

LEMMA CreateInsertTurns ==
  ASSUME IInv, NEW r \in Requests, CreateInsert(r)
  PROVE  /\ Turns(r) /\ Elsewhere /\ request[r].at = "create_insert" /\ request'[r].at = "done"
         /\ pending' = pending
         /\ \A o \in Operators \ {request[r].about} : row'[o] = row[o]
<1>1. PICK o, role : o = request[r].about /\ role = request[r].newRole
  OBVIOUS
<1>2. request[r].at = "create_insert" /\ o \in Operators /\ role \in Roles
  BY <1>1, LocalsHere DEF CreateInsert, At, Locals, AboutSteps
<1>3. Moves(r) /\ request'[r].at = "done" /\ KeepsOutcome(request'[r], request[r])
  BY LocalsHere, GoMoves DEF CreateInsert, Steps, Moves
<1>4. Turns(r)
  BY <1>2, <1>3, DoneIsLocal, GoTurns
<1>5. [status |-> "invited", role |-> role, secret |-> 0] \in Row
  BY <1>2, AccountsAssumption DEF Row, Statuses
<1>6. /\ row' \in [Operators -> Row]
      /\ \A p \in Operators \ {o} : row'[p] = row[p]
      /\ \A p \in Operators : row[p].status # "absent" => row'[p].status # "absent"
  BY <1>1, <1>2, <1>5 DEF CreateInsert, IInv, TypeOK
<1>7. Elsewhere
  BY <1>6 DEF Elsewhere, CreateInsert, redisVars, ownerVars, IInv, TypeOK
<1> QED  BY <1>1, <1>2, <1>3, <1>4, <1>6, <1>7 DEF CreateInsert, redisVars

LEMMA UpdateReadTurns ==
  ASSUME IInv, NEW r \in Requests, UpdateRead(r)
  PROVE  /\ Turns(r) /\ Elsewhere
         /\ request[r].at = "update_read" /\ request'[r].at \in {"done", "update_save"}
         /\ request'[r].at # "done" => /\ request'[r].about = request[r].about
                                       /\ request'[r].by = request[r].by
<1>1. /\ request[r].at = "update_read" /\ request[r].about \in Operators /\ request[r].by \in Operators
  BY LocalsHere DEF UpdateRead, At, Locals, AboutSteps, Orders
<1>2. PICK step \in {"done", "update_save"} :
        ReadsRow(r, step) /\ (step # "done" => row[request[r].about].status # "absent")
  BY DEF UpdateRead, ReadsRow
<1>3. /\ Moves(r) /\ request'[r].at = step /\ KeepsOutcome(request'[r], request[r])
      /\ step # "done" => /\ request'[r].read = row[request[r].about]
                          /\ request'[r].about = request[r].about
                          /\ request'[r].by = request[r].by
  BY <1>1, <1>2, LocalsHere, ReadMoves DEF Moves, Steps
<1>4. Locals(request'[r])
  BY <1>1, <1>2, <1>3 DEF Locals, AboutSteps, Orders
<1>5. Turns(r)
  BY <1>1, <1>2, <1>3, <1>4, GoTurns
<1>6. Elsewhere
  BY StoresStay DEF UpdateRead
<1> QED  BY <1>1, <1>2, <1>3, <1>5, <1>6

LEMMA UpdateSaveTurns ==
  ASSUME IInv, NEW r \in Requests, UpdateSave(r)
  PROVE  /\ Turns(r) /\ Elsewhere /\ request[r].at = "update_save"
         /\ request'[r].at \in {"done", "revoke_list"} /\ pending' = pending
         /\ \A o \in Operators \ {request[r].about} : row'[o] = row[o]
<1>1. PICK q : q = request[r]
  OBVIOUS
<1>2. /\ q.at = "update_save" /\ q.about \in Operators /\ q \in RequestStates
      /\ q.read.status # "absent"
  BY <1>1, LocalsHere DEF UpdateSave, At, Locals, AboutSteps
<1>3. PICK step \in {"done", "revoke_list"} : Go(r, step)
  BY DEF UpdateSave
<1>4. /\ Moves(r) /\ request'[r].at = step /\ KeepsOutcome(request'[r], request[r])
      /\ step # "done" => request'[r].about = q.about
  BY <1>1, <1>3, LocalsHere, GoMoves DEF Steps, Moves, KeepsLocals
<1>5. Locals(request'[r])
  BY <1>2, <1>4 DEF Locals, AboutSteps, Orders
<1>6. Turns(r)
  BY <1>1, <1>2, <1>3, <1>4, <1>5, GoTurns
<1>7. PICK new \in Row : new.status # "absent" /\ row' = [row EXCEPT ![q.about] = new]
  <2> DEFINE new == [status |-> IF q.status = "same" THEN q.read.status ELSE q.status,
                     role |-> IF q.newRole = "same" THEN q.read.role ELSE q.newRole,
                     secret |-> q.read.secret]
  <2>1. q.read \in Row /\ q.status \in PatchStatuses \cup {"same"} /\ q.newRole \in Roles \cup {"same"}
    BY <1>2 DEF RequestStates
  <2>2. new \in Row /\ new.status # "absent"
    BY <1>2, <2>1 DEF Row, Statuses, PatchStatuses, Roles
  <2> QED  BY <1>1, <2>2 DEF UpdateSave
<1>8. /\ row' \in [Operators -> Row]
      /\ \A p \in Operators \ {q.about} : row'[p] = row[p]
      /\ \A p \in Operators : row[p].status # "absent" => row'[p].status # "absent"
  BY <1>2, <1>7 DEF IInv, TypeOK
<1>9. Elsewhere
  BY <1>8 DEF Elsewhere, UpdateSave, redisVars, ownerVars, IInv, TypeOK
<1> QED  BY <1>1, <1>2, <1>3, <1>4, <1>6, <1>8, <1>9 DEF UpdateSave, redisVars

(* A step that changes nothing but its request and, maybe, an owner. *)
LEMMA OwnersChange ==
  ASSUME IInv, UNCHANGED <<mix, storeVars, redisVars, exists, overlapped>>,
         owner' = owner \/ \E s \in Sessions, o \in Operators : owner' = [owner EXCEPT ![s] = o]
  PROVE  Elsewhere
BY AccountsAssumption DEF IInv, TypeOK, Elsewhere, storeVars, redisVars

LEMMA ReassignListTurns ==
  ASSUME IInv, NEW r \in Requests, ReassignList(r)
  PROVE  Turns(r) /\ Elsewhere /\ request[r].at = "reassign_list" /\ request'[r].at = "reassign_find"
<1>1. PICK q, convs : q = request[r] /\ convs = {s \in exists : owner[s] = q.about}
  OBVIOUS
<1>2. q.at = "reassign_list" /\ q.about \in Operators /\ q \in RequestStates
  BY <1>1, LocalsHere DEF ReassignList, At, Locals, AboutSteps
<1>3. PICK a : a = [q EXCEPT !.at = "reassign_find"]
  OBVIOUS
<1>4. a \in RequestStates /\ a.at = "reassign_find" /\ a.about = q.about /\ KeepsOutcome(a, q)
  BY <1>2, <1>3 DEF RequestStates, KeepsOutcome, Steps
<1>5. convs \in SUBSET Sessions
  BY <1>1 DEF IInv, TypeOK
<1>6. PICK n : n = [a EXCEPT !.convs = convs]
  OBVIOUS
<1>7. n \in RequestStates /\ n.at = "reassign_find" /\ n.about = q.about /\ KeepsOutcome(n, q)
  BY <1>4, <1>5, <1>6 DEF RequestStates, KeepsOutcome
<1>8. request' = [request EXCEPT ![r] = n]
  BY <1>1, <1>3, <1>6 DEF ReassignList
<1>9. Moves(r) /\ request'[r] = n
  BY <1>7, <1>8, LocalsHere, RequestMoves DEF Moves
<1>10. Locals(n)
  BY <1>2, <1>7 DEF Locals, AboutSteps, Orders
<1>11. Turns(r)
  BY <1>1, <1>2, <1>7, <1>9, <1>10, GoTurns
<1>12. Elsewhere
  BY StoresStay DEF ReassignList
<1> QED  BY <1>1, <1>2, <1>7, <1>9, <1>11, <1>12

LEMMA ReassignFindTurns ==
  ASSUME IInv, NEW r \in Requests, ReassignFind(r)
  PROVE  /\ Turns(r) /\ Elsewhere /\ request[r].at = "reassign_find"
         /\ request'[r].at \in {"done", "reassign_each"}
<1>1. PICK q : q = request[r]
  OBVIOUS
<1>2. q.at = "reassign_find" /\ q.about \in Operators /\ q \in RequestStates
  BY <1>1, LocalsHere DEF ReassignFind, At, Locals, AboutSteps
<1>3. Elsewhere
  BY StoresStay DEF ReassignFind
<1>4. CASE ActiveAdmins = {}
  <2>1. Moves(r) /\ request'[r].at = "done" /\ KeepsOutcome(request'[r], q)
    BY <1>1, <1>4, LocalsHere, GoMoves DEF ReassignFind, Steps, Moves
  <2>2. Turns(r)
    BY <1>1, <1>2, <2>1, DoneIsLocal, GoTurns
  <2> QED  BY <1>1, <1>2, <1>3, <2>1, <2>2
<1>5. CASE ActiveAdmins # {}
  <2>1. PICK admin \in ActiveAdmins :
          request' = [request EXCEPT ![r].at = "reassign_each", ![r].admin = admin]
    BY <1>5 DEF ReassignFind
  <2>2. admin \in Operators
    BY DEF ActiveAdmins
  <2>3. PICK a : a = [q EXCEPT !.at = "reassign_each"]
    OBVIOUS
  <2>4. a \in RequestStates /\ a.at = "reassign_each" /\ a.about = q.about /\ KeepsOutcome(a, q)
    BY <1>2, <2>3 DEF RequestStates, KeepsOutcome, Steps
  <2>5. PICK n : n = [a EXCEPT !.admin = admin]
    OBVIOUS
  <2>6. n \in RequestStates /\ n.at = "reassign_each" /\ n.about = q.about /\ KeepsOutcome(n, q)
        /\ n.admin = admin
    BY <2>2, <2>4, <2>5 DEF RequestStates, KeepsOutcome
  <2>7. request' = [request EXCEPT ![r] = n]
    BY <1>1, <2>1, <2>3, <2>5
  <2>8. Moves(r) /\ request'[r] = n
    BY <2>6, <2>7, LocalsHere, RequestMoves DEF Moves
  <2>9. Locals(n)
    BY <1>2, <2>2, <2>6 DEF Locals, AboutSteps, Orders
  <2>10. Turns(r)
    BY <1>1, <1>2, <2>6, <2>8, <2>9, GoTurns
  <2> QED  BY <1>1, <1>2, <1>3, <2>6, <2>8, <2>10
<1> QED  BY <1>4, <1>5

LEMMA ReassignEachTurns ==
  ASSUME IInv, NEW r \in Requests, ReassignEach(r)
  PROVE  /\ Turns(r) /\ Elsewhere /\ request[r].at = "reassign_each"
         /\ request'[r].at \in {"done", "reassign_each"}
<1>1. PICK q : q = request[r]
  OBVIOUS
<1>2. q.at = "reassign_each" /\ q.about \in Operators /\ q \in RequestStates /\ q.admin \in Operators
  BY <1>1, LocalsHere DEF ReassignEach, At, Locals, AboutSteps
<1>3. CASE q.convs = {}
  <2>1. Moves(r) /\ request'[r].at = "done" /\ KeepsOutcome(request'[r], q)
    BY <1>1, <1>3, LocalsHere, GoMoves DEF ReassignEach, Steps, Moves
  <2>2. Turns(r)
    BY <1>1, <1>2, <2>1, DoneIsLocal, GoTurns
  <2>3. Elsewhere
    BY <1>1, <1>3, OwnersChange DEF ReassignEach
  <2> QED  BY <1>1, <1>2, <2>1, <2>2, <2>3
<1>4. CASE q.convs # {}
  <2>1. PICK s \in q.convs : /\ owner' = [owner EXCEPT ![s] = q.admin]
                             /\ request' = [request EXCEPT ![r].convs = q.convs \ {s}]
    BY <1>1, <1>4 DEF ReassignEach
  <2>2. s \in Sessions /\ q.convs \ {s} \in SUBSET Sessions
    BY <1>2 DEF RequestStates
  <2>3. PICK n : n = [q EXCEPT !.convs = q.convs \ {s}]
    OBVIOUS
  <2>4. n \in RequestStates /\ n.at = "reassign_each" /\ n.about = q.about /\ KeepsOutcome(n, q)
        /\ n.admin = q.admin
    BY <1>2, <2>2, <2>3 DEF RequestStates, KeepsOutcome
  <2>5. request' = [request EXCEPT ![r] = n]
    BY <1>1, <2>1, <2>3
  <2>6. Moves(r) /\ request'[r] = n
    BY <2>4, <2>5, LocalsHere, RequestMoves DEF Moves
  <2>7. Locals(n)
    BY <1>2, <2>4 DEF Locals, AboutSteps, Orders
  <2>8. Turns(r)
    BY <1>1, <1>2, <2>4, <2>6, <2>7, GoTurns
  <2>9. Elsewhere
    BY <1>2, <2>1, <2>2, OwnersChange DEF ReassignEach
  <2> QED  BY <1>1, <1>2, <2>4, <2>6, <2>8, <2>9
<1> QED  BY <1>3, <1>4

LEMMA OpenConversationTurns ==
  ASSUME IInv, NEW r \in Requests, NEW t \in Tokens, OpenConversation(r, t)
  PROVE  Turns(r) /\ Elsewhere /\ request[r].at = "idle" /\ request'[r].at = "open_insert"
<1>1. At(r, "idle") /\ Authorised(t) /\ "open_insert" \in Steps /\ TypeOK
  BY LocalsHere DEF OpenConversation, Steps
<1>2. PICK q, s : /\ q = As(t, "open_insert") /\ s \in Sessions
                  /\ request' = [request EXCEPT ![r] = [q EXCEPT !.conv = s]]
  BY DEF OpenConversation
<1>3. /\ q \in RequestStates /\ q.at = "open_insert" /\ q.by \in Operators
      /\ q.settled = {} /\ q.to = None
  BY <1>1, <1>2, AsState
<1>4. PICK n : n = [q EXCEPT !.conv = s]
  OBVIOUS
<1>5. /\ n \in RequestStates /\ n.at = "open_insert" /\ n.by \in Operators
      /\ n.settled = {} /\ n.to = None /\ n.conv = s
  BY <1>2, <1>3, <1>4 DEF RequestStates
<1>6. Locals(n)
  BY <1>2, <1>5 DEF Locals, AboutSteps, Orders
<1>7. Turns(r) /\ request'[r] = n
  BY <1>1, <1>2, <1>4, <1>5, <1>6, ArriveTurns
<1>8. Elsewhere
  BY StoresStay DEF OpenConversation
<1> QED  BY <1>1, <1>5, <1>7, <1>8 DEF At

LEMMA OpenOwnTurns ==
  ASSUME IInv, NEW r \in Requests, OpenOwn(r)
  PROVE  Turns(r) /\ Elsewhere /\ request[r].at = "open_own" /\ request'[r].at = "done"
<1>1. PICK q : q = request[r]
  OBVIOUS
<1>2. q.at = "open_own" /\ q.conv \in Sessions /\ q.by \in Operators /\ q.by # None
  BY <1>1, LocalsHere, AccountsAssumption DEF OpenOwn, At, Locals
<1>3. Moves(r) /\ request'[r].at = "done" /\ KeepsOutcome(request'[r], q)
  BY <1>1, LocalsHere, GoMoves DEF OpenOwn, Steps, Moves
<1>4. owner' = [owner EXCEPT ![q.conv] = q.by] /\ owner'[q.conv] = q.by
  BY <1>1, <1>2 DEF OpenOwn, IInv, TypeOK
<1>5. Turns(r)
  BY <1>1, <1>2, <1>3, <1>4, DoneIsLocal, GoTurns
<1>6. Elsewhere
  BY <1>2, <1>4, OwnersChange DEF OpenOwn
<1> QED  BY <1>1, <1>2, <1>3, <1>5, <1>6

LEMMA AssignOwnerTurns ==
  ASSUME IInv, NEW r \in Requests, NEW t \in Tokens, NEW s \in Sessions, NEW o \in Operators,
         AssignOwner(r, t, s, o)
  PROVE  Turns(r) /\ Elsewhere /\ request[r].at = "idle" /\ request'[r].at = "assign_read"
<1>1. At(r, "idle") /\ Authorised(t) /\ "assign_read" \in Steps /\ TypeOK
  BY LocalsHere DEF AssignOwner, Steps
<1>2. PICK q : q = As(t, "assign_read")
  OBVIOUS
<1>3. /\ q \in RequestStates /\ q.at = "assign_read" /\ q.settled = {}
  BY <1>1, <1>2, AsState
<1>4. PICK a : a = [q EXCEPT !.conv = s]
  OBVIOUS
<1>5. a \in RequestStates /\ a.at = "assign_read" /\ a.settled = {} /\ a.conv = s
  BY <1>3, <1>4 DEF RequestStates
<1>6. PICK n : n = [a EXCEPT !.to = o]
  OBVIOUS
<1>7. n \in RequestStates /\ n.at = "assign_read" /\ n.settled = {} /\ n.conv = s /\ n.to = o
  BY <1>5, <1>6 DEF RequestStates
<1>8. request' = [request EXCEPT ![r] = n]
  BY <1>2, <1>4, <1>6 DEF AssignOwner
<1>9. Locals(n)
  BY <1>7 DEF Locals, AboutSteps, Orders
<1>10. Turns(r) /\ request'[r] = n
  BY <1>1, <1>7, <1>8, <1>9, ArriveTurns
<1>11. Elsewhere
  BY StoresStay DEF AssignOwner
<1> QED  BY <1>1, <1>7, <1>10, <1>11 DEF At

LEMMA AssignReadTurns ==
  ASSUME IInv, NEW r \in Requests, AssignRead(r)
  PROVE  /\ Turns(r) /\ Elsewhere /\ request[r].at = "assign_read"
         /\ request'[r].at \in {"done", "assign_save"}
<1>1. PICK q, step : q = request[r] /\ step = IF CanAccess(r) THEN "assign_save" ELSE "done"
  OBVIOUS
<1>2. q.at = "assign_read" /\ q.conv \in Sessions /\ q.to \in Operators
  BY <1>1, LocalsHere DEF AssignRead, At, Locals
<1>3. step \in {"done", "assign_save"} /\ Go(r, step)
  BY <1>1 DEF AssignRead
<1>4. Moves(r) /\ request'[r].at = step /\ KeepsOutcome(request'[r], q)
  BY <1>1, <1>3, LocalsHere, GoMoves DEF Steps, Moves
<1>5. Locals(request'[r])
  BY <1>2, <1>3, <1>4 DEF Locals, AboutSteps, Orders, KeepsOutcome
<1>6. Turns(r)
  BY <1>1, <1>2, <1>3, <1>4, <1>5, GoTurns
<1>7. Elsewhere
  BY StoresStay DEF AssignRead
<1> QED  BY <1>1, <1>2, <1>3, <1>4, <1>6, <1>7

LEMMA AssignSaveTurns ==
  ASSUME IInv, NEW r \in Requests, AssignSave(r)
  PROVE  Turns(r) /\ Elsewhere /\ request[r].at = "assign_save" /\ request'[r].at = "done"
<1>1. PICK q : q = request[r]
  OBVIOUS
<1>2. q.at = "assign_save" /\ q.conv \in Sessions /\ q.to \in Operators
  BY <1>1, LocalsHere DEF AssignSave, At, Locals
<1>3. Moves(r) /\ request'[r].at = "done" /\ KeepsOutcome(request'[r], q)
  BY <1>1, LocalsHere, GoMoves DEF AssignSave, Steps, Moves
<1>4. Turns(r)
  BY <1>1, <1>2, <1>3, DoneIsLocal, GoTurns
<1>5. Elsewhere
  BY <1>1, <1>2, OwnersChange DEF AssignSave
<1> QED  BY <1>1, <1>2, <1>3, <1>4, <1>5

(***************************************************************************)
(* The steps that end sessions.                                            *)
(***************************************************************************)
LEMMA SessionEnds ==
  ASSUME IInv, NEW t \in Tokens, session' = [session EXCEPT ![t] = None]
  PROVE  /\ session' \in [Tokens -> SessionData \cup {None}] /\ session'[t] = None
         /\ \A u \in Tokens : session'[u] # None => session'[u] = session[u]
         /\ \A u \in Tokens \ {t} : session'[u] = session[u]
BY DEF IInv, TypeOK

LEMMA EndingKeeps ==
  ASSUME IInv, SessionsEnd, NEW r \in Requests, Moves(r), Locals(request'[r]), Answers(r),
         request'[r].at # "login_read",
         UNCHANGED <<mix, storeVars, pending, issued, ownerVars>>
  PROVE  IInv'
<1>1. TypeOK'
  BY DEF IInv, TypeOK, SessionsEnd, Moves, RequestStates, storeVars, ownerVars
<1>2. \A q \in Requests : Locals(request'[q])
  BY LocalsKept DEF IInv, Moves
<1>3. LoginsExist'
  BY LoginsKept DEF IInv, Moves, storeVars
<1>4. Indexed' /\ IssuedOnce' /\ Revocation'
  BY SessionsKept DEF IInv
<1>5. OwnedOnceOpen'
  BY OwnedKept DEF IInv, Moves, ownerVars
<1> QED  BY <1>1, <1>2, <1>3, <1>4, <1>5 DEF IInv, Locals

LEMMA LogoutKeeps ==
  ASSUME IInv, NEW r \in Requests, NEW t \in Tokens, Logout(r, t)
  PROVE  /\ IInv' /\ Moves(r) /\ request[r].at = "idle" /\ request'[r].at = "done"
         /\ row' = row /\ pending' = pending /\ session' = [session EXCEPT ![t] = None]
<1>1. At(r, "idle") /\ Authorised(t) /\ "done" \in Steps /\ TypeOK
  BY LocalsHere DEF Logout, Steps
<1>2. PICK n : n = As(t, "done")
  OBVIOUS
<1>3. n \in RequestStates /\ n.at = "done" /\ n.settled = {}
  BY <1>1, <1>2, AsState
<1>4. request' = [request EXCEPT ![r] = n] /\ session' = [session EXCEPT ![t] = None]
  BY <1>2 DEF Logout
<1>5. Moves(r) /\ request'[r] = n
  BY <1>1, <1>3, <1>4, RequestMoves DEF Moves
<1>6. Turns(r)
  BY <1>1, <1>3, <1>4, DoneIsLocal, ArriveTurns
<1>7. SessionsEnd
  BY <1>4, <1>6, SessionEnds DEF SessionsEnd, Turns, Moves, Others, Logout
<1>8. IInv'
  BY <1>3, <1>5, <1>6, <1>7, EndingKeeps DEF Logout, Turns
<1> QED  BY <1>1, <1>3, <1>4, <1>5, <1>8 DEF Logout, At, storeVars

LEMMA RevokeEachKeeps ==
  ASSUME IInv, NEW r \in Requests, RevokeEach(r)
  PROVE  /\ IInv' /\ Moves(r) /\ request[r].at = "revoke_each"
         /\ request'[r].at \in {"revoke_each", "revoke_index"}
         /\ row' = row /\ pending' = pending
         /\ session' = session \/ \E t \in Tokens : session' = [session EXCEPT ![t] = None]
<1>1. PICK q : q = request[r]
  OBVIOUS
<1>2. q.at = "revoke_each" /\ q.about \in Operators /\ q \in RequestStates /\ q.tokens \subseteq Tokens
  BY <1>1, LocalsHere DEF RevokeEach, At, Locals, AboutSteps, RequestStates
<1>3. /\ Moves(r) /\ request'[r].at \in {"revoke_each", "revoke_index"}
      /\ KeepsOutcome(request'[r], q) /\ request'[r].about = q.about
      /\ request'[r].at = "revoke_index" => request'[r].tokens = {}
      /\ session' = session \/ \E t \in Tokens : session' = [session EXCEPT ![t] = None]
      /\ session' \in [Tokens -> SessionData \cup {None}]
      /\ \A t \in Tokens : session'[t] # None => session'[t] = session[t]
      /\ \A t \in Tokens : t \in q.tokens /\ session'[t] # None => t \in request'[r].tokens
  <2>1. CASE q.tokens = {}
    <3>1. Go(r, "revoke_index") /\ session' = session
      BY <1>1, <2>1 DEF RevokeEach
    <3>2. /\ Moves(r) /\ request'[r].at = "revoke_index" /\ KeepsOutcome(request'[r], q)
          /\ request'[r].about = q.about /\ request'[r].tokens = q.tokens
      BY <1>1, <3>1, LocalsHere, GoMoves DEF Steps, Moves, KeepsLocals
    <3> QED  BY <2>1, <3>1, <3>2 DEF IInv, TypeOK
  <2>2. CASE q.tokens # {}
    <3>1. PICK t \in q.tokens : /\ session' = [session EXCEPT ![t] = None]
                                /\ request' = [request EXCEPT ![r].tokens = q.tokens \ {t}]
      BY <1>1, <2>2 DEF RevokeEach
    <3>2. PICK n : n = [q EXCEPT !.tokens = q.tokens \ {t}]
      OBVIOUS
    <3>3. /\ n \in RequestStates /\ n.at = "revoke_each" /\ n.about = q.about /\ KeepsOutcome(n, q)
          /\ n.tokens = q.tokens \ {t}
      BY <1>2, <3>2 DEF RequestStates, KeepsOutcome
    <3>4. request' = [request EXCEPT ![r] = n]
      BY <1>1, <3>1, <3>2
    <3>5. Moves(r) /\ request'[r] = n
      BY <3>3, <3>4, LocalsHere, RequestMoves DEF Moves
    <3>6. t \in Tokens
      BY <1>2
    <3> QED  BY <3>1, <3>3, <3>5, <3>6, SessionEnds
  <2> QED  BY <2>1, <2>2
<1>4. Locals(request'[r])
  BY <1>2, <1>3 DEF Locals, AboutSteps, Orders
<1>5. Answers(r)
  BY <1>1, <1>2, <1>3 DEF Answers, KeepsOutcome
<1>6. SessionsEnd
  <2>1. GoesThrough(r)
    BY <1>1, <1>2, <1>3 DEF GoesThrough, KeepsOutcome
  <2> QED  BY <1>3, <2>1 DEF SessionsEnd, Moves, Others, RevokeEach
<1>7. IInv'
  BY <1>3, <1>4, <1>5, <1>6, EndingKeeps DEF RevokeEach
<1> QED  BY <1>1, <1>2, <1>3, <1>7 DEF RevokeEach, storeVars

(* Nothing but Redis changes. *)
LEMMA RequestsStay ==
  ASSUME IInv, UNCHANGED <<mix, storeVars, ownerVars, request, issued>>,
         session' \in [Tokens -> SessionData \cup {None}], index' \in [Operators -> SUBSET Tokens],
         ttl' \in [Operators -> (SUBSET Tokens) \cup {None}],
         pending' \in [Pendings -> Operators \cup {None}], overlapped' \subseteq Tokens,
         Indexed', IssuedOnce', Revocation'
  PROVE  IInv'
<1>1. TypeOK'
  BY DEF IInv, TypeOK, storeVars, ownerVars
<1>2. LoginsExist' /\ OwnedOnceOpen' /\ \A q \in Requests : Locals(request'[q])
  BY DEF IInv, LoginsExist, OwnedOnceOpen, At, storeVars, ownerVars
<1> QED  BY <1>1, <1>2 DEF IInv, Locals

LEMMA SessionExpiresKeeps ==
  ASSUME IInv, NEW t \in Tokens, SessionExpires(t)
  PROVE  IInv'
<1>1. SessionsEnd
  BY SessionEnds DEF SessionsEnd, SessionExpires
<1>2. Indexed' /\ IssuedOnce' /\ Revocation'
  BY <1>1, SessionsKept DEF IInv
<1> QED  BY <1>1, <1>2, RequestsStay DEF SessionExpires, SessionsEnd, IInv, TypeOK

LEMMA PendingExpiresKeeps ==
  ASSUME IInv, NEW p \in Pendings, PendingExpires(p)
  PROVE  IInv'
<1>1. SessionsEnd
  BY DEF SessionsEnd, PendingExpires, IInv, TypeOK
<1>2. Indexed' /\ IssuedOnce' /\ Revocation'
  BY <1>1, SessionsKept DEF IInv
<1>3. pending' \in [Pendings -> Operators \cup {None}]
  BY DEF PendingExpires, IInv, TypeOK
<1> QED  BY <1>2, <1>3, RequestsStay DEF PendingExpires, IInv, TypeOK

(***************************************************************************)
(* The steps that create and revoke sessions.                              *)
(***************************************************************************)
LEMMA StepKeeps ==
  ASSUME IInv, NEW r \in Requests, Moves(r), Locals(request'[r]), Answers(r),
         request'[r].at # "login_read", UNCHANGED <<row, ownerVars>>,
         TypeOK', Indexed', IssuedOnce', Revocation'
  PROVE  IInv'
<1>1. \A q \in Requests : Locals(request'[q])
  BY LocalsKept DEF IInv, Moves
<1>2. LoginsExist'
  BY LoginsKept DEF IInv, Moves
<1>3. OwnedOnceOpen'
  BY OwnedKept DEF IInv, Moves, ownerVars
<1> QED  BY <1>1, <1>2, <1>3 DEF IInv, Locals

LEMMA OpenInsertKeeps ==
  ASSUME IInv, NEW r \in Requests, OpenInsert(r)
  PROVE  IInv' /\ Moves(r) /\ request[r].at = "open_insert" /\ request'[r].at = "open_own"
<1>1. PICK q : q = request[r]
  OBVIOUS
<1>2. q.at = "open_insert" /\ q.conv \in Sessions /\ q.by \in Operators /\ q.to = None
  BY <1>1, LocalsHere DEF OpenInsert, At, Locals
<1>3. /\ Moves(r) /\ request'[r].at = "open_own" /\ KeepsOutcome(request'[r], q)
      /\ request'[r].by = q.by
  BY <1>1, LocalsHere, GoMoves DEF OpenInsert, Steps, Moves, KeepsLocals
<1>4. Locals(request'[r])
  BY <1>2, <1>3 DEF Locals, AboutSteps, Orders, KeepsOutcome
<1>5. \A p \in Requests : Locals(request'[p])
  BY <1>3, <1>4, LocalsKept DEF IInv, Moves
<1>6. LoginsExist'
  BY <1>3, LoginsKept DEF IInv, Moves, OpenInsert, storeVars
<1>7. SessionsEnd
  <2>1. Bystander(r)
    BY <1>1, <1>2, <1>3 DEF Bystander, KeepsOutcome
  <2> QED  BY <1>3, <2>1 DEF IInv, TypeOK, SessionsEnd, OpenInsert, redisVars, Moves, Others
<1>8. Indexed' /\ IssuedOnce' /\ Revocation'
  BY <1>7, SessionsKept DEF IInv
<1>9. TypeOK'
  BY <1>1, <1>2, <1>3 DEF OpenInsert, IInv, TypeOK, Moves, RequestStates, storeVars, redisVars
<1>10. OwnedOnceOpen'
  <2> SUFFICES ASSUME NEW s \in exists', owner[s] = None
               PROVE  \E p \in Requests :
                        /\ request'[p].conv = s /\ request'[p].to = None
                        /\ request'[p].at = "open_own" \/ request'[p].failed
    BY DEF OwnedOnceOpen, At, OpenInsert
  <2>1. CASE s = q.conv
    BY <1>2, <1>3, <2>1 DEF KeepsOutcome
  <2>2. CASE s # q.conv
    <3>1. s \in exists
      BY <1>1, <2>2 DEF OpenInsert
    <3>2. PICK p \in Requests : /\ request[p].conv = s /\ request[p].to = None
                                /\ request[p].at = "open_own" \/ request[p].failed
      BY <3>1 DEF IInv, OwnedOnceOpen, At
    <3>3. p # r
      BY <1>1, <2>2, <3>2
    <3> QED  BY <1>3, <3>2, <3>3 DEF Moves, Others
  <2> QED  BY <2>1, <2>2
<1> QED  BY <1>1, <1>2, <1>3, <1>5, <1>6, <1>8, <1>9, <1>10 DEF IInv, Locals

LEMMA VerifySetKeeps ==
  ASSUME IInv, NEW r \in Requests, VerifySet(r)
  PROVE  /\ IInv' /\ Moves(r) /\ request[r].at = "verify_set" /\ request'[r].at = "verify_index"
         /\ request[r].about \in Operators /\ request[r].read \in Row
         /\ request'[r].about = request[r].about /\ request'[r].read = request[r].read
         /\ row' = row /\ pending' = pending
         /\ \E t \in Tokens \ Live :
              session' = [session EXCEPT ![t] = [operator |-> request[r].about,
                                                 role |-> request[r].read.role]]
<1>1. PICK q, o, role : q = request[r] /\ o = q.about /\ role = q.read.role
  OBVIOUS
<1>2. /\ q.at = "verify_set" /\ o \in Operators /\ q \in RequestStates /\ role \in Roles
      /\ q.read \in Row /\ TypeOK
  BY <1>1, LocalsHere DEF VerifySet, At, Locals, AboutSteps, RequestStates, Row
<1>3. PICK t \in Tokens \ issued :
        /\ session' = [session EXCEPT ![t] = [operator |-> o, role |-> role]]
        /\ issued' = issued \cup {t}
        /\ request' = [request EXCEPT ![r].at = "verify_index", ![r].token = t]
        /\ overlapped' = IF Revoking(o) THEN overlapped \cup {t} ELSE overlapped
        /\ UNCHANGED <<mix, storeVars, index, ttl, pending, ownerVars>>
  BY <1>1 DEF VerifySet
<1>4. PICK a : a = [q EXCEPT !.at = "verify_index"]
  OBVIOUS
<1>5. /\ a \in RequestStates /\ a.at = "verify_index" /\ a.about = o /\ a.read = q.read
      /\ KeepsOutcome(a, q)
  BY <1>1, <1>2, <1>4 DEF RequestStates, KeepsOutcome, Steps
<1>6. PICK n : n = [a EXCEPT !.token = t]
  OBVIOUS
<1>7. /\ n \in RequestStates /\ n.at = "verify_index" /\ n.about = o /\ n.read = q.read
      /\ n.conv = q.conv /\ n.to = q.to /\ n.failed = q.failed /\ n.settled = q.settled
      /\ n.token = t
  BY <1>5, <1>6 DEF RequestStates, KeepsOutcome
<1>8. Moves(r) /\ request'[r] = n
  <2>1. request' = [request EXCEPT ![r] = n]
    BY <1>1, <1>3, <1>4, <1>6
  <2> QED  BY <1>2, <1>7, <2>1, RequestMoves DEF Moves
<1>9. Locals(n)
  BY <1>2, <1>7 DEF Locals, AboutSteps, Orders
<1>10. Answers(r)
  BY <1>1, <1>2, <1>7, <1>8 DEF Answers
<1>11. /\ session' \in [Tokens -> SessionData \cup {None}]
       /\ session'[t] = [operator |-> o, role |-> role]
       /\ session'[t].operator = o /\ \A u \in Tokens \ {t} : session'[u] = session[u]
  BY <1>2, <1>3 DEF TypeOK, SessionData
<1>12. TypeOK'
  BY <1>2, <1>3, <1>8, <1>11 DEF TypeOK, Moves, RequestStates, storeVars, ownerVars
<1>13. \A p \in Requests : p # r => request'[p] = request[p]
  BY <1>8 DEF Moves, Others
<1>14. t \notin Live /\ \A p \in Requests : t \notin request[p].settled
  BY <1>3 DEF IInv, IssuedOnce
<1>15. ASSUME NEW p \in Operators, Revoking(p)'
       PROVE  Revoking(p)
  BY <1>1, <1>2, <1>7, <1>8, <1>13, <1>15 DEF Revoking
<1>16. ASSUME NEW u, NEW p, NEW steps, steps \subseteq {"verify_index", "verify_expire"},
              CreatingIn(request, u, p, steps)
       PROVE  CreatingIn(request', u, p, steps)
  BY <1>1, <1>2, <1>13, <1>16 DEF CreatingIn
<1>17. ASSUME NEW u \in Tokens, Fresh(u)', u # t
       PROVE  Fresh(u) /\ session'[u] = session[u]
  BY <1>3, <1>11, <1>17 DEF Fresh, Live
<1>18. Indexed'
  <2> SUFFICES ASSUME NEW u \in Tokens, Fresh(u)'
               PROVE  /\ u \in index'[session'[u].operator]
                         \/ CreatingIn(request', u, session'[u].operator, {"verify_index"})
                      /\ ttl'[session'[u].operator] # None =>
                           u \in ttl'[session'[u].operator]
                           \/ CreatingIn(request', u, session'[u].operator, {"verify_index", "verify_expire"})
    BY DEF Indexed, CreatingIn
  <2>1. CASE u = t
    <3>1. /\ CreatingIn(request', t, o, {"verify_index"})
          /\ CreatingIn(request', t, o, {"verify_index", "verify_expire"})
      BY <1>7, <1>8 DEF CreatingIn
    <3> QED  BY <1>11, <2>1, <3>1
  <2>2. CASE u # t
    <3>1. PICK p : p = session[u].operator
      OBVIOUS
    <3>2. Fresh(u) /\ session'[u].operator = p
      BY <1>17, <2>2, <3>1
    <3>3. u \in index[p] \/ CreatingIn(request, u, p, {"verify_index"})
      BY <3>1, <3>2 DEF IInv, Indexed
    <3>4. ttl[p] # None => u \in ttl[p] \/ CreatingIn(request, u, p, {"verify_index", "verify_expire"})
      BY <3>1, <3>2 DEF IInv, Indexed
    <3>5. u \in index[p] \/ CreatingIn(request', u, p, {"verify_index"})
      BY <3>3, <1>16
    <3>6. ttl[p] # None => u \in ttl[p] \/ CreatingIn(request', u, p, {"verify_index", "verify_expire"})
      BY <3>4, <1>16
    <3> QED  BY <1>3, <3>2, <3>5, <3>6
  <2> QED  BY <2>1, <2>2
<1>19. IssuedOnce'
  <2>1. (Live \subseteq issued)'
    BY <1>3, <1>11 DEF IInv, IssuedOnce, Live
  <2>2. ASSUME NEW p \in Requests
        PROVE  request'[p].settled \subseteq issued'
    BY <1>1, <1>3, <1>7, <1>8, <1>13 DEF IInv, IssuedOnce
  <2>3. ASSUME NEW p \in Requests, request'[p].at \in {"verify_index", "verify_expire"}
        PROVE  /\ request'[p].token \in issued'
               /\ request'[p].token \in Live' => session'[request'[p].token].operator = request'[p].about
               /\ \A x \in Requests : /\ request'[x].at \in {"revoke_each", "revoke_index"}
                                      /\ request'[x].about = request'[p].about
                                      => request'[p].token \in overlapped'
    <3>1. CASE p = r
      <4>1. ASSUME NEW x \in Requests, request'[x].at \in {"revoke_each", "revoke_index"},
                   request'[x].about = o
            PROVE  Revoking(o)
        BY <1>7, <1>8, <1>13, <4>1 DEF Revoking
      <4>2. Revoking(o) => t \in overlapped'
        BY <1>3
      <4>3. request'[p].token = t /\ request'[p].about = o /\ t \in issued'
        BY <1>3, <1>7, <1>8, <3>1
      <4> QED  BY <1>11, <4>1, <4>2, <4>3
    <3>2. CASE p # r
      <4>1. request'[p] = request[p] /\ request[p].about \in Operators /\ request[p].token \in Tokens
        BY <1>13, <2>3, <3>2 DEF IInv, Locals, AboutSteps
      <4>2. ASSUME NEW x \in Requests, request'[x].at \in {"revoke_each", "revoke_index"},
                   request'[x].about = request'[p].about
            PROVE  Revoking(request[p].about)
        BY <1>7, <1>8, <1>13, <4>1, <4>2 DEF Revoking
      <4>3. request[p].token \in issued /\ request[p].token # t
        BY <2>3, <4>1 DEF IInv, IssuedOnce
      <4>4. request[p].token \in Live' =>
              request[p].token \in Live /\ session'[request[p].token] = session[request[p].token]
        BY <1>11, <4>1, <4>3 DEF Live
      <4>5. Revoking(request[p].about) => request[p].token \in overlapped'
        BY <1>3, <2>3, <4>1 DEF IInv, IssuedOnce
      <4>6. request[p].token \in Live => session[request[p].token].operator = request[p].about
        BY <2>3, <4>1 DEF IInv, IssuedOnce
      <4>7. request'[p].token \in issued'
        BY <1>3, <4>1, <4>3
      <4>8. request'[p].token \in Live' => session'[request'[p].token].operator = request'[p].about
        BY <4>1, <4>4, <4>6
      <4>9. ASSUME NEW x \in Requests, request'[x].at \in {"revoke_each", "revoke_index"},
                   request'[x].about = request'[p].about
            PROVE  request'[p].token \in overlapped'
        BY <4>1, <4>2, <4>5, <4>9
      <4> QED  BY <4>7, <4>8, <4>9
    <3> QED  BY <3>1, <3>2
  <2> QED  BY <2>1, <2>2, <2>3 DEF IssuedOnce, Revoking
<1>20. Revocation'
  <2> SUFFICES ASSUME NEW p \in Requests
               PROVE  IF request'[p].at \in {"revoke_each", "revoke_index"}
                      THEN \A u \in Tokens : Fresh(u)' =>
                             /\ session'[u].operator = request'[p].about => u \in request'[p].tokens
                             /\ u \in request'[p].settled => session'[u].operator = request'[p].about
                      ELSE request'[p].settled \cap Live' \subseteq overlapped'
    BY DEF Revocation
  <2>1. CASE request'[p].at \in {"revoke_each", "revoke_index"}
    <3>1. request'[p] = request[p]
      BY <1>7, <1>8, <1>13, <2>1
    <3>2. ASSUME NEW u \in Tokens, Fresh(u)'
          PROVE  /\ session'[u].operator = request'[p].about => u \in request'[p].tokens
                 /\ u \in request'[p].settled => session'[u].operator = request'[p].about
      <4>1. CASE u = t
        <5>1. ~Revoking(o)
          BY <1>3, <3>2, <4>1 DEF Fresh
        <5>2. request[p].about # o
          BY <2>1, <3>1, <5>1 DEF Revoking
        <5> QED  BY <1>11, <1>14, <3>1, <4>1, <5>2
      <4>2. CASE u # t
        BY <1>17, <2>1, <3>1, <3>2, <4>2 DEF IInv, Revocation
      <4> QED  BY <4>1, <4>2
    <3> QED  BY <2>1, <3>2
  <2>2. CASE request'[p].at \notin {"revoke_each", "revoke_index"}
    <3>1. request'[p].settled = request[p].settled /\ request[p].at \notin {"revoke_each", "revoke_index"}
      BY <1>1, <1>2, <1>7, <1>8, <1>13, <2>2
    <3>2. request[p].settled \cap Live \subseteq overlapped
      BY <3>1 DEF IInv, Revocation
    <3>3. Live' \subseteq Live \cup {t} /\ overlapped \subseteq overlapped'
      BY <1>3, <1>11 DEF Live
    <3> QED  BY <1>14, <2>2, <3>1, <3>2, <3>3
  <2> QED  BY <2>1, <2>2
<1>21. IInv'
  BY <1>3, <1>7, <1>8, <1>9, <1>10, <1>12, <1>18, <1>19, <1>20, StepKeeps DEF storeVars
<1> QED  BY <1>1, <1>2, <1>3, <1>7, <1>8, <1>14, <1>21 DEF storeVars

(* A request goes on creating a session, or is done with it, or with a
   revocation that left none of the sessions it was to end. *)
Settles(q) ==
  /\ request'[q].at \notin {"revoke_each", "revoke_index"}
  /\ request'[q].settled \subseteq request[q].settled
  /\ request[q].at \in {"revoke_each", "revoke_index"} =>
       request'[q].settled \cap Live \subseteq overlapped'
  /\ request'[q].at \in {"verify_index", "verify_expire"} =>
       /\ request[q].at \in {"verify_index", "verify_expire"}
       /\ request'[q].token = request[q].token /\ request'[q].about = request[q].about
SettlingStep ==
  /\ session' = session /\ issued' = issued /\ overlapped \subseteq overlapped'
  /\ \A q \in Requests : request'[q] = request[q] \/ Settles(q)

LEMMA RevocationKept ==
  ASSUME IssuedOnce, Revocation, SettlingStep
  PROVE  IssuedOnce' /\ Revocation'
<1>1. Live' = Live /\ \A t : Fresh(t)' => Fresh(t)
  BY DEF SettlingStep, Live, Fresh
<1>2. IssuedOnce'
  <2>1. (Live \subseteq issued)'
    BY <1>1 DEF IssuedOnce, SettlingStep
  <2>2. ASSUME NEW q \in Requests
        PROVE  request'[q].settled \subseteq issued'
    BY DEF IssuedOnce, SettlingStep, Settles
  <2>3. ASSUME NEW q \in Requests, request'[q].at \in {"verify_index", "verify_expire"}
        PROVE  /\ request'[q].token \in issued'
               /\ request'[q].token \in Live' => session'[request'[q].token].operator = request'[q].about
               /\ \A x \in Requests : /\ request'[x].at \in {"revoke_each", "revoke_index"}
                                      /\ request'[x].about = request'[q].about
                                      => request'[q].token \in overlapped'
    <3>1. /\ request[q].at \in {"verify_index", "verify_expire"}
          /\ request'[q].token = request[q].token /\ request'[q].about = request[q].about
      BY <2>3 DEF SettlingStep, Settles
    <3>2. /\ request[q].token \in issued
          /\ request[q].token \in Live => session[request[q].token].operator = request[q].about
          /\ Revoking(request[q].about) => request[q].token \in overlapped
      BY <3>1 DEF IssuedOnce
    <3>3. ASSUME NEW x \in Requests, request'[x].at \in {"revoke_each", "revoke_index"},
                 request'[x].about = request'[q].about
          PROVE  Revoking(request[q].about)
      BY <3>1, <3>3 DEF SettlingStep, Settles, Revoking
    <3>4. ASSUME NEW x \in Requests, request'[x].at \in {"revoke_each", "revoke_index"},
                 request'[x].about = request'[q].about
          PROVE  request'[q].token \in overlapped'
      BY <3>1, <3>2, <3>3, <3>4 DEF SettlingStep
    <3> QED  BY <1>1, <3>1, <3>2, <3>4 DEF SettlingStep
  <2> QED  BY <2>1, <2>2, <2>3 DEF IssuedOnce, Revoking
<1>3. Revocation'
  <2> SUFFICES ASSUME NEW q \in Requests
               PROVE  IF request'[q].at \in {"revoke_each", "revoke_index"}
                      THEN \A t \in Tokens : Fresh(t)' =>
                             /\ session'[t].operator = request'[q].about => t \in request'[q].tokens
                             /\ t \in request'[q].settled => session'[t].operator = request'[q].about
                      ELSE request'[q].settled \cap Live' \subseteq overlapped'
    BY DEF Revocation
  <2>1. CASE request'[q].at \in {"revoke_each", "revoke_index"}
    <3>1. request'[q] = request[q] /\ session' = session
      BY <2>1 DEF SettlingStep, Settles
    <3> QED  BY <1>1, <2>1, <3>1 DEF Revocation
  <2>2. CASE request'[q].at \notin {"revoke_each", "revoke_index"}
    <3>1. CASE request[q].at \in {"revoke_each", "revoke_index"}
      <4>1. request'[q].settled \cap Live \subseteq overlapped'
        BY <2>2, <3>1 DEF SettlingStep, Settles
      <4> QED  BY <1>1, <2>2, <4>1
    <3>2. CASE request[q].at \notin {"revoke_each", "revoke_index"}
      <4>1. request'[q].settled \subseteq request[q].settled
        BY DEF SettlingStep, Settles
      <4>2. request[q].settled \cap Live \subseteq overlapped
        BY <3>2 DEF Revocation
      <4> QED  BY <1>1, <2>2, <4>1, <4>2 DEF SettlingStep
    <3> QED  BY <3>1, <3>2
  <2> QED  BY <2>1, <2>2
<1> QED  BY <1>2, <1>3

(* What Indexed asks of one session, before and after a step that leaves the
   sessions alone. *)
LEMMA IndexedKept ==
  ASSUME Indexed, session' = session, overlapped \subseteq overlapped',
         \A t \in Tokens, o \in Operators :
           /\ t \in Live /\ t \notin overlapped' /\ session[t].operator = o
           /\ t \in index[o] \/ CreatingIn(request, t, o, {"verify_index"})
           /\ ttl[o] # None =>
                t \in ttl[o] \/ CreatingIn(request, t, o, {"verify_index", "verify_expire"})
           => /\ t \in index'[o] \/ CreatingIn(request', t, o, {"verify_index"})
              /\ ttl'[o] # None =>
                   t \in ttl'[o] \/ CreatingIn(request', t, o, {"verify_index", "verify_expire"}),
         TypeOK
  PROVE  Indexed'
<1> SUFFICES ASSUME NEW t \in Tokens, Fresh(t)'
             PROVE  /\ t \in index'[session'[t].operator]
                       \/ CreatingIn(request', t, session'[t].operator, {"verify_index"})
                    /\ ttl'[session'[t].operator] # None =>
                         t \in ttl'[session'[t].operator]
                         \/ CreatingIn(request', t, session'[t].operator, {"verify_index", "verify_expire"})
  BY DEF Indexed, CreatingIn
<1>1. PICK o : o = session[t].operator
  OBVIOUS
<1>2. Fresh(t) /\ t \in Live /\ t \notin overlapped'
  BY DEF Fresh, Live
<1>3. o \in Operators
  BY <1>1, <1>2 DEF Live, TypeOK, SessionData
<1>4. t \in index[o] \/ CreatingIn(request, t, o, {"verify_index"})
  BY <1>1, <1>2 DEF Indexed
<1>5. ttl[o] # None =>
        t \in ttl[o] \/ CreatingIn(request, t, o, {"verify_index", "verify_expire"})
  BY <1>1, <1>2 DEF Indexed
<1>6. /\ t \in index'[o] \/ CreatingIn(request', t, o, {"verify_index"})
      /\ ttl'[o] # None =>
           t \in ttl'[o] \/ CreatingIn(request', t, o, {"verify_index", "verify_expire"})
  BY <1>1, <1>2, <1>3, <1>4, <1>5
<1> QED  BY <1>1, <1>6

LEMMA VerifyIndexKeeps ==
  ASSUME IInv, NEW r \in Requests, VerifyIndex(r)
  PROVE  /\ IInv' /\ Moves(r) /\ request[r].at = "verify_index" /\ request'[r].at = "verify_expire"
         /\ request'[r].about = request[r].about /\ request'[r].read = request[r].read
         /\ UNCHANGED <<row, pending, session>>
<1>1. PICK q, o, u : q = request[r] /\ o = q.about /\ u = q.token
  OBVIOUS
<1>2. q.at = "verify_index" /\ o \in Operators /\ u \in Tokens /\ q \in RequestStates /\ TypeOK
  BY <1>1, LocalsHere DEF VerifyIndex, At, Locals, AboutSteps
<1>3. /\ index' = [index EXCEPT ![o] = index[o] \cup {u}] /\ Go(r, "verify_expire")
      /\ UNCHANGED <<mix, storeVars, session, ttl, pending, issued, ownerVars, overlapped>>
  BY <1>1 DEF VerifyIndex
<1>4. /\ Moves(r) /\ request'[r].at = "verify_expire" /\ KeepsOutcome(request'[r], q)
      /\ request'[r].about = o /\ request'[r].read = q.read /\ request'[r].token = u
  BY <1>1, <1>2, <1>3, GoMoves DEF Steps, Moves, KeepsLocals, KeepsOutcome
<1>5. Locals(request'[r])
  BY <1>2, <1>4 DEF Locals, AboutSteps, Orders
<1>6. Answers(r)
  BY <1>1, <1>2, <1>4 DEF Answers, KeepsOutcome
<1>7. /\ index' \in [Operators -> SUBSET Tokens] /\ index'[o] = index[o] \cup {u}
      /\ \A p \in Operators \ {o} : index'[p] = index[p]
  BY <1>2, <1>3 DEF TypeOK
<1>8. TypeOK'
  BY <1>2, <1>3, <1>4, <1>7 DEF TypeOK, Moves, RequestStates, storeVars, ownerVars
<1>9. SettlingStep
  <2>1. Settles(r)
    BY <1>1, <1>2, <1>4 DEF Settles, KeepsOutcome
  <2> QED  BY <1>3, <1>4, <2>1 DEF SettlingStep, Moves, Others
<1>10. IssuedOnce' /\ Revocation'
  BY <1>9, RevocationKept DEF IInv
<1>11. Indexed'
  <2>1. ASSUME NEW t \in Tokens, NEW p \in Operators, CreatingIn(request, t, p, {"verify_index"})
        PROVE  CreatingIn(request', t, p, {"verify_index"}) \/ (t = u /\ p = o)
    BY <1>1, <1>4, <2>1 DEF CreatingIn, Moves, Others
  <2>2. ASSUME NEW t \in Tokens, NEW p \in Operators,
               CreatingIn(request, t, p, {"verify_index", "verify_expire"})
        PROVE  CreatingIn(request', t, p, {"verify_index", "verify_expire"})
    BY <1>1, <1>4, <2>2 DEF CreatingIn, Moves, Others
  <2> QED  BY <1>2, <1>3, <1>7, <2>1, <2>2, IndexedKept DEF IInv
<1>12. IInv'
  BY <1>3, <1>4, <1>5, <1>6, <1>8, <1>10, <1>11, StepKeeps DEF storeVars
<1> QED  BY <1>1, <1>2, <1>3, <1>4, <1>12 DEF storeVars

LEMMA VerifyExpireKeeps ==
  ASSUME IInv, NEW r \in Requests, VerifyExpire(r)
  PROVE  /\ IInv' /\ Moves(r) /\ request[r].at = "verify_expire"
         /\ request'[r].at = IF request[r].read.status = "invited" THEN "verify_activate" ELSE "done"
         /\ request'[r].at # "done" => /\ request'[r].about = request[r].about
                                       /\ request'[r].read = request[r].read
         /\ UNCHANGED <<row, pending, session>>
<1>1. PICK q, o, u, step :
        /\ q = request[r] /\ o = q.about /\ u = q.token
        /\ step = IF q.read.status = "invited" THEN "verify_activate" ELSE "done"
  OBVIOUS
<1>2. q.at = "verify_expire" /\ o \in Operators /\ u \in Tokens /\ q \in RequestStates /\ TypeOK
  BY <1>1, LocalsHere DEF VerifyExpire, At, Locals, AboutSteps
<1>3. /\ ttl' = (IF index[o] = {} THEN ttl ELSE [ttl EXCEPT ![o] = issued \cap Tokens])
      /\ Go(r, step)
      /\ UNCHANGED <<mix, storeVars, session, index, pending, issued, ownerVars, overlapped>>
  BY <1>1 DEF VerifyExpire
<1>4. /\ Moves(r) /\ request'[r].at = step /\ KeepsOutcome(request'[r], q)
      /\ step # "done" => request'[r].about = o /\ request'[r].read = q.read
      /\ step \in {"done", "verify_activate"}
  BY <1>1, <1>2, <1>3, GoMoves DEF Steps, Moves, KeepsLocals
<1>5. Locals(request'[r])
  BY <1>1, <1>2, <1>4 DEF Locals, AboutSteps, Orders
<1>6. Answers(r)
  BY <1>1, <1>2, <1>4 DEF Answers, KeepsOutcome
<1>7. /\ ttl' \in [Operators -> (SUBSET Tokens) \cup {None}]
      /\ index[o] # {} => ttl'[o] = issued \cap Tokens
      /\ index[o] = {} => ttl'[o] = ttl[o]
      /\ \A p \in Operators \ {o} : ttl'[p] = ttl[p]
  BY <1>2, <1>3 DEF TypeOK
<1>8. TypeOK'
  BY <1>2, <1>3, <1>4, <1>7 DEF TypeOK, Moves, RequestStates, storeVars, ownerVars
<1>9. SettlingStep
  <2>1. Settles(r)
    BY <1>1, <1>2, <1>4 DEF Settles, KeepsOutcome
  <2> QED  BY <1>3, <1>4, <2>1 DEF SettlingStep, Moves, Others
<1>10. IssuedOnce' /\ Revocation'
  BY <1>9, RevocationKept DEF IInv
<1>11. Indexed'
  <2>1. ASSUME NEW t \in Tokens, NEW p \in Operators, CreatingIn(request, t, p, {"verify_index"})
        PROVE  /\ CreatingIn(request', t, p, {"verify_index"})
               /\ CreatingIn(request', t, p, {"verify_index", "verify_expire"})
    BY <1>1, <1>2, <1>4, <2>1 DEF CreatingIn, Moves, Others
  <2>2. ASSUME NEW t \in Tokens, NEW p \in Operators,
               CreatingIn(request, t, p, {"verify_index", "verify_expire"})
        PROVE  CreatingIn(request', t, p, {"verify_index", "verify_expire"}) \/ p = o
    BY <1>1, <1>4, <2>2 DEF CreatingIn, Moves, Others
  <2>3. Live \subseteq issued \cap Tokens
    BY DEF IInv, IssuedOnce, Live
  <2>4. ASSUME NEW t \in Tokens, NEW p \in Operators, t \in Live,
               t \in index[p] \/ CreatingIn(request, t, p, {"verify_index"}),
               ttl[p] # None =>
                 t \in ttl[p] \/ CreatingIn(request, t, p, {"verify_index", "verify_expire"})
        PROVE  /\ t \in index'[p] \/ CreatingIn(request', t, p, {"verify_index"})
               /\ ttl'[p] # None =>
                    t \in ttl'[p] \/ CreatingIn(request', t, p, {"verify_index", "verify_expire"})
    <3>1. t \in index'[p] \/ CreatingIn(request', t, p, {"verify_index"})
      BY <1>3, <2>1, <2>4
    <3>2. CASE p # o
      BY <1>7, <2>2, <2>4, <3>1, <3>2
    <3>3. CASE p = o /\ index[o] # {}
      BY <1>7, <2>3, <2>4, <3>1, <3>3
    <3>4. CASE p = o /\ index[o] = {}
      BY <2>1, <2>4, <3>1, <3>4
    <3> QED  BY <3>2, <3>3, <3>4
  <2> QED  BY <1>2, <1>3, <2>4, IndexedKept DEF IInv
<1>12. IInv'
  BY <1>3, <1>4, <1>5, <1>6, <1>8, <1>10, <1>11, StepKeeps DEF storeVars
<1> QED  BY <1>1, <1>2, <1>3, <1>4, <1>12 DEF storeVars

LEMMA RevokeIndexKeeps ==
  ASSUME IInv, NEW r \in Requests, RevokeIndex(r)
  PROVE  /\ IInv' /\ Moves(r) /\ request[r].at = "revoke_index" /\ request'[r].at = "reassign_list"
         /\ UNCHANGED <<row, pending, session>>
<1>1. PICK q, o : q = request[r] /\ o = q.about
  OBVIOUS
<1>2. q.at = "revoke_index" /\ o \in Operators /\ q.tokens = {} /\ q \in RequestStates /\ TypeOK
  BY <1>1, LocalsHere DEF RevokeIndex, At, Locals, AboutSteps
<1>3. /\ index' = [index EXCEPT ![o] = {}] /\ ttl' = [ttl EXCEPT ![o] = None]
      /\ Go(r, "reassign_list")
      /\ UNCHANGED <<mix, storeVars, session, pending, issued, ownerVars, overlapped>>
  BY <1>1 DEF RevokeIndex
<1>4. /\ Moves(r) /\ request'[r].at = "reassign_list" /\ KeepsOutcome(request'[r], q)
      /\ request'[r].about = o
  BY <1>1, <1>2, <1>3, GoMoves DEF Steps, Moves, KeepsLocals
<1>5. Locals(request'[r])
  BY <1>2, <1>4 DEF Locals, AboutSteps, Orders
<1>6. Answers(r)
  BY <1>1, <1>2, <1>4 DEF Answers, KeepsOutcome
<1>7. /\ index' \in [Operators -> SUBSET Tokens] /\ ttl' \in [Operators -> (SUBSET Tokens) \cup {None}]
      /\ \A p \in Operators \ {o} : index'[p] = index[p] /\ ttl'[p] = ttl[p]
  BY <1>2, <1>3 DEF TypeOK
<1>8. TypeOK'
  BY <1>2, <1>3, <1>4, <1>7 DEF TypeOK, Moves, RequestStates, storeVars, ownerVars
<1>9. \A t \in Tokens : Fresh(t) => session[t].operator # o /\ t \notin q.settled
  BY <1>1, <1>2 DEF IInv, Revocation
<1>10. SettlingStep
  <2>1. Settles(r)
    <3>1. q.settled \cap Live \subseteq overlapped
      BY <1>9 DEF Fresh, Live
    <3> QED  BY <1>1, <1>2, <1>3, <1>4, <3>1 DEF Settles, KeepsOutcome
  <2> QED  BY <1>3, <1>4, <2>1 DEF SettlingStep, Moves, Others
<1>11. IssuedOnce' /\ Revocation'
  BY <1>10, RevocationKept DEF IInv
<1>12. Indexed'
  <2>1. ASSUME NEW t \in Tokens, NEW p \in Operators, NEW steps,
               steps \subseteq {"verify_index", "verify_expire"}, CreatingIn(request, t, p, steps)
        PROVE  CreatingIn(request', t, p, steps)
    BY <1>1, <1>2, <1>4, <2>1 DEF CreatingIn, Moves, Others
  <2>2. ASSUME NEW t \in Tokens, NEW p \in Operators, t \in Live, t \notin overlapped',
               session[t].operator = p,
               t \in index[p] \/ CreatingIn(request, t, p, {"verify_index"}),
               ttl[p] # None =>
                 t \in ttl[p] \/ CreatingIn(request, t, p, {"verify_index", "verify_expire"})
        PROVE  /\ t \in index'[p] \/ CreatingIn(request', t, p, {"verify_index"})
               /\ ttl'[p] # None =>
                    t \in ttl'[p] \/ CreatingIn(request', t, p, {"verify_index", "verify_expire"})
    <3>1. p # o
      BY <1>3, <1>9, <2>2 DEF Fresh
    <3>2. CreatingIn(request, t, p, {"verify_index"}) => CreatingIn(request', t, p, {"verify_index"})
      BY <2>1
    <3>3. CreatingIn(request, t, p, {"verify_index", "verify_expire"})
            => CreatingIn(request', t, p, {"verify_index", "verify_expire"})
      BY <2>1
    <3> QED  BY <1>7, <2>2, <3>1, <3>2, <3>3
  <2> QED  BY <1>2, <1>3, <2>2, IndexedKept DEF IInv
<1>13. IInv'
  BY <1>3, <1>4, <1>5, <1>6, <1>8, <1>11, <1>12, StepKeeps DEF storeVars
<1> QED  BY <1>1, <1>2, <1>3, <1>4, <1>13 DEF storeVars

LEMMA IndexExpiresKeeps ==
  ASSUME IInv, NEW o \in Operators, IndexExpires(o)
  PROVE  IInv'
<1>1. /\ ttl[o] # None /\ ttl[o] \cap LiveOf(o) = {}
      /\ index' = [index EXCEPT ![o] = {}] /\ ttl' = [ttl EXCEPT ![o] = None]
      /\ overlapped' = overlapped \cup Creating(o)
      /\ UNCHANGED <<mix, storeVars, session, pending, issued, ownerVars, request>>
  BY DEF IndexExpires
<1>2. /\ index' \in [Operators -> SUBSET Tokens] /\ ttl' \in [Operators -> (SUBSET Tokens) \cup {None}]
      /\ \A p \in Operators \ {o} : index'[p] = index[p] /\ ttl'[p] = ttl[p]
  BY <1>1 DEF IInv, TypeOK
<1>3. Creating(o) \subseteq Tokens
  BY DEF Creating, IInv, Locals
<1>4. IssuedOnce' /\ Revocation'
  <2>1. SettlingStep
    BY <1>1 DEF SettlingStep
  <2> QED  BY <2>1, RevocationKept DEF IInv
<1>5. Indexed'
  <2>1. ASSUME NEW t \in Tokens, t \in Live, t \notin overlapped', session[t].operator = o,
               t \in ttl[o] \/ CreatingIn(request, t, o, {"verify_index", "verify_expire"})
        PROVE  FALSE
    <3>1. t \in LiveOf(o)
      BY <2>1 DEF LiveOf
    <3>2. CreatingIn(request, t, o, {"verify_index", "verify_expire"}) => t \in Creating(o)
      BY DEF CreatingIn, Creating
    <3> QED  BY <1>1, <2>1, <3>1, <3>2
  <2>2. ASSUME NEW t \in Tokens, NEW p \in Operators, t \in Live, t \notin overlapped',
               session[t].operator = p,
               t \in index[p] \/ CreatingIn(request, t, p, {"verify_index"}),
               ttl[p] # None =>
                 t \in ttl[p] \/ CreatingIn(request, t, p, {"verify_index", "verify_expire"})
        PROVE  /\ t \in index'[p] \/ CreatingIn(request', t, p, {"verify_index"})
               /\ ttl'[p] # None =>
                    t \in ttl'[p] \/ CreatingIn(request', t, p, {"verify_index", "verify_expire"})
    <3>1. p # o
      BY <1>1, <2>1, <2>2
    <3> QED  BY <1>1, <1>2, <2>2, <3>1
  <2>3. session' = session /\ overlapped \subseteq overlapped'
    BY <1>1
  <2> QED  BY <2>2, <2>3, IndexedKept DEF IInv
<1> QED  BY <1>1, <1>2, <1>3, <1>4, <1>5, RequestsStay DEF IInv, TypeOK

LEMMA RevokeListKeeps ==
  ASSUME IInv, NEW r \in Requests, RevokeList(r)
  PROVE  /\ IInv' /\ Moves(r) /\ request[r].at = "revoke_list" /\ request'[r].at = "revoke_each"
         /\ UNCHANGED <<row, pending, session>>
<1>1. PICK q, o, tokens, settled :
        q = request[r] /\ o = q.about /\ tokens = index[o] /\ settled = LiveOf(o) \ Creating(o)
  OBVIOUS
<1>2. /\ q.at = "revoke_list" /\ o \in Operators /\ q \in RequestStates /\ TypeOK
      /\ tokens \in SUBSET Tokens /\ settled \in SUBSET Tokens
  BY <1>1, LocalsHere DEF RevokeList, At, Locals, AboutSteps, TypeOK, LiveOf, Live
<1>3. /\ request' = [request EXCEPT ![r].at = "revoke_each", ![r].tokens = tokens,
                                    ![r].settled = settled]
      /\ overlapped' = overlapped \cup Creating(o)
      /\ UNCHANGED <<mix, storeVars, redisVars, ownerVars>>
  BY <1>1 DEF RevokeList
<1>4. PICK a : a = [q EXCEPT !.at = "revoke_each"]
  OBVIOUS
<1>5. a \in RequestStates /\ a.at = "revoke_each" /\ a.about = o /\ KeepsOutcome(a, q)
  BY <1>1, <1>2, <1>4 DEF RequestStates, KeepsOutcome, Steps
<1>6. PICK b : b = [a EXCEPT !.tokens = tokens]
  OBVIOUS
<1>7. /\ b \in RequestStates /\ b.at = "revoke_each" /\ b.about = o /\ KeepsOutcome(b, q)
      /\ b.tokens = tokens
  BY <1>2, <1>5, <1>6 DEF RequestStates, KeepsOutcome
<1>8. PICK n : n = [b EXCEPT !.settled = settled]
  OBVIOUS
<1>9. /\ n \in RequestStates /\ n.at = "revoke_each" /\ n.about = o /\ n.tokens = tokens
      /\ n.settled = settled /\ n.conv = q.conv /\ n.to = q.to /\ n.failed = q.failed
  BY <1>2, <1>7, <1>8 DEF RequestStates, KeepsOutcome
<1>10. Moves(r) /\ request'[r] = n
  <2>1. request' = [request EXCEPT ![r] = n]
    BY <1>1, <1>3, <1>4, <1>6, <1>8
  <2> QED  BY <1>2, <1>9, <2>1, RequestMoves DEF Moves
<1>11. Locals(n)
  BY <1>2, <1>9 DEF Locals, AboutSteps, Orders
<1>12. Answers(r)
  BY <1>1, <1>2, <1>9, <1>10 DEF Answers
<1>13. /\ Creating(o) \subseteq Tokens /\ overlapped \subseteq overlapped'
       /\ session' = session /\ index' = index /\ ttl' = ttl /\ pending' = pending /\ issued' = issued
  BY <1>3 DEF Creating, IInv, Locals, redisVars
<1>14. TypeOK'
  BY <1>2, <1>3, <1>10, <1>13 DEF TypeOK, Moves, RequestStates, storeVars, ownerVars
<1>15. \A p \in Requests : p # r => request'[p] = request[p]
  BY <1>10 DEF Moves, Others
<1>16. ASSUME NEW t, NEW p, NEW steps, steps \subseteq {"verify_index", "verify_expire"},
              CreatingIn(request, t, p, steps)
       PROVE  CreatingIn(request', t, p, steps)
  BY <1>1, <1>2, <1>15, <1>16 DEF CreatingIn
<1>17. Indexed'
  <2>1. ASSUME NEW t \in Tokens, NEW p \in Operators
        PROVE  /\ CreatingIn(request, t, p, {"verify_index"})
                    => CreatingIn(request', t, p, {"verify_index"})
               /\ CreatingIn(request, t, p, {"verify_index", "verify_expire"})
                    => CreatingIn(request', t, p, {"verify_index", "verify_expire"})
    BY <1>16
  <2> QED  BY <1>13, <1>2, <2>1, IndexedKept DEF IInv
<1>18. ASSUME NEW t \in Tokens, Fresh(t)'
       PROVE  Fresh(t) /\ t \in Live /\ t \notin Creating(o)
  BY <1>3, <1>13, <1>18 DEF Fresh, Live
<1>19. IssuedOnce'
  <2>1. (Live \subseteq issued)'
    BY <1>13 DEF IInv, IssuedOnce, Live
  <2>2. ASSUME NEW p \in Requests
        PROVE  request'[p].settled \subseteq issued'
    <3>1. settled \subseteq issued
      BY <1>1 DEF IInv, IssuedOnce, LiveOf
    <3> QED  BY <1>9, <1>10, <1>13, <1>15, <3>1 DEF IInv, IssuedOnce
  <2>3. ASSUME NEW p \in Requests, request'[p].at \in {"verify_index", "verify_expire"}
        PROVE  /\ request'[p].token \in issued'
               /\ request'[p].token \in Live' => session'[request'[p].token].operator = request'[p].about
               /\ \A x \in Requests : /\ request'[x].at \in {"revoke_each", "revoke_index"}
                                      /\ request'[x].about = request'[p].about
                                      => request'[p].token \in overlapped'
    <3>1. request'[p] = request[p] /\ Live' = Live
      BY <1>9, <1>10, <1>13, <1>15, <2>3 DEF Live
    <3>2. /\ request[p].token \in issued
          /\ request[p].token \in Live => session[request[p].token].operator = request[p].about
          /\ Revoking(request[p].about) => request[p].token \in overlapped
      BY <2>3, <3>1 DEF IInv, IssuedOnce
    <3>3. ASSUME NEW x \in Requests, request'[x].at \in {"revoke_each", "revoke_index"},
                 request'[x].about = request'[p].about
          PROVE  request'[p].token \in overlapped'
      <4>1. CASE x = r
        <5>1. request[p].about = o
          BY <1>9, <1>10, <3>1, <3>3, <4>1
        <5>2. request[p].token \in Creating(o)
          BY <2>3, <3>1, <5>1 DEF Creating
        <5> QED  BY <1>3, <3>1, <5>2
      <4>2. CASE x # r
        <5>1. Revoking(request[p].about)
          BY <1>15, <3>1, <3>3, <4>2 DEF Revoking
        <5> QED  BY <1>13, <3>1, <3>2, <5>1
      <4> QED  BY <4>1, <4>2
    <3> QED  BY <1>13, <3>1, <3>2, <3>3
  <2> QED  BY <2>1, <2>2, <2>3 DEF IssuedOnce, Revoking
<1>20. Revocation'
  <2> SUFFICES ASSUME NEW p \in Requests
               PROVE  IF request'[p].at \in {"revoke_each", "revoke_index"}
                      THEN \A t \in Tokens : Fresh(t)' =>
                             /\ session'[t].operator = request'[p].about => t \in request'[p].tokens
                             /\ t \in request'[p].settled => session'[t].operator = request'[p].about
                      ELSE request'[p].settled \cap Live' \subseteq overlapped'
    BY DEF Revocation
  <2>1. CASE p = r
    <3>1. ASSUME NEW t \in Tokens, Fresh(t)'
          PROVE  /\ session[t].operator = o => t \in tokens
                 /\ t \in settled => session[t].operator = o
      <4>1. ASSUME session[t].operator = o
            PROVE  t \in tokens
        <5>1. t \in index[o] \/ CreatingIn(request, t, o, {"verify_index"})
          BY <1>18, <3>1, <4>1 DEF IInv, Indexed
        <5>2. CreatingIn(request, t, o, {"verify_index"}) => t \in Creating(o)
          BY DEF CreatingIn, Creating
        <5> QED  BY <1>1, <1>18, <3>1, <5>1, <5>2
      <4>2. t \in settled => session[t].operator = o
        BY <1>1 DEF LiveOf
      <4> QED  BY <4>1, <4>2
    <3> QED  BY <1>9, <1>10, <1>13, <2>1, <3>1
  <2>2. CASE p # r
    <3>1. request'[p] = request[p] /\ session' = session /\ Live' = Live
      BY <1>13, <1>15, <2>2 DEF Live
    <3>2. CASE request[p].at \in {"revoke_each", "revoke_index"}
      BY <1>18, <3>1, <3>2 DEF IInv, Revocation
    <3>3. CASE request[p].at \notin {"revoke_each", "revoke_index"}
      <4>1. request[p].settled \cap Live \subseteq overlapped
        BY <3>3 DEF IInv, Revocation
      <4> QED  BY <1>13, <3>1, <3>3, <4>1
    <3> QED  BY <3>2, <3>3
  <2> QED  BY <2>1, <2>2
<1>21. IInv'
  BY <1>3, <1>9, <1>10, <1>11, <1>12, <1>14, <1>17, <1>19, <1>20, StepKeeps DEF storeVars
<1> QED  BY <1>1, <1>2, <1>3, <1>9, <1>10, <1>13, <1>21 DEF storeVars

LEMMA FailKeeps ==
  ASSUME IInv, NEW r \in Requests, Fail(r)
  PROVE  /\ IInv' /\ Moves(r) /\ request[r].at \notin {"idle", "done"}
         /\ request'[r].at = OnError(request[r].at)
         /\ request'[r].at \in {"done", "reassign_list", "verify_set"}
         /\ request'[r].at = "verify_set" =>
              /\ request[r].at = "verify_consume" /\ request'[r].about = request[r].about
              /\ request'[r].read = request[r].read
         /\ UNCHANGED <<row, pending, session>>
<1>1. PICK q, step : q = request[r] /\ step = OnError(q.at)
  OBVIOUS
<1>2. /\ q.at \notin {"idle", "done"} /\ q \in RequestStates /\ TypeOK
      /\ Locals(q) /\ q.at \in Steps
  BY <1>1, LocalsHere DEF Fail, RequestStates
<1>3. /\ step \in {"done", "reassign_list", "verify_set"} /\ step \in Steps
      /\ step = "verify_set" => q.at = "verify_consume"
      /\ step = "reassign_list" => q.at \in {"revoke_list", "revoke_each", "revoke_index"}
  BY <1>1 DEF OnError, Steps
<1>4. PICK a : a = [q EXCEPT !.failed = TRUE]
  OBVIOUS
<1>5. /\ a \in RequestStates /\ a.at = q.at /\ a.failed = TRUE /\ a.about = q.about
      /\ a.read = q.read /\ a.token = q.token /\ a.conv = q.conv /\ a.to = q.to
  BY <1>2, <1>4 DEF RequestStates
<1>6. PICK b : b = [a EXCEPT !.settled = {}]
  OBVIOUS
<1>7. /\ b \in RequestStates /\ b.at = q.at /\ b.failed = TRUE /\ b.about = q.about
      /\ b.read = q.read /\ b.token = q.token /\ b.conv = q.conv /\ b.to = q.to
      /\ b.settled = {}
  BY <1>5, <1>6 DEF RequestStates
<1>8. /\ request' = [request EXCEPT ![r] =
           Onward(IF b.at \in {"verify_index", "verify_expire"} THEN [b EXCEPT !.token = None] ELSE b,
                  OnError(b.at))]
      /\ overlapped' = overlapped \cup
           IF b.at \in {"verify_index", "verify_expire"} THEN {b.token} ELSE {}
      /\ UNCHANGED <<mix, storeVars, redisVars, ownerVars>>
  BY <1>1, <1>4, <1>6 DEF Fail
<1>9. PICK c : c = IF q.at \in {"verify_index", "verify_expire"} THEN [b EXCEPT !.token = None] ELSE b
  OBVIOUS
<1>10. /\ c \in RequestStates /\ c.failed = TRUE /\ c.about = q.about /\ c.read = q.read
       /\ c.conv = q.conv /\ c.to = q.to /\ c.settled = {}
  BY <1>7, <1>9 DEF RequestStates
<1>11. /\ Moves(r) /\ request'[r].at = step /\ KeepsOutcome(request'[r], c)
       /\ step # "done" => request'[r].about = q.about /\ request'[r].read = q.read
  <2>1. request' = [request EXCEPT ![r] = Onward(c, step)]
    BY <1>1, <1>7, <1>8, <1>9
  <2>2. /\ Moves(r) /\ request'[r].at = step /\ KeepsOutcome(request'[r], c)
        /\ step # "done" => KeepsLocals(request'[r], c)
    BY <1>2, <1>3, <1>10, <2>1, OnwardMoves
  <2> QED  BY <1>10, <2>2 DEF KeepsLocals
<1>12. /\ request'[r].failed = TRUE /\ request'[r].conv = q.conv /\ request'[r].to = q.to
       /\ request'[r].settled = {}
  BY <1>10, <1>11 DEF KeepsOutcome
<1>13. Locals(request'[r])
  BY <1>2, <1>3, <1>11 DEF Locals, AboutSteps, Orders
<1>14. Answers(r)
  BY <1>1, <1>12 DEF Answers
<1>15. /\ overlapped' \subseteq Tokens /\ overlapped \subseteq overlapped'
       /\ q.at \in {"verify_index", "verify_expire"} => q.token \in overlapped'
       /\ session' = session /\ index' = index /\ ttl' = ttl /\ pending' = pending /\ issued' = issued
  BY <1>2, <1>7, <1>8 DEF Locals, TypeOK, redisVars
<1>16. TypeOK'
  BY <1>2, <1>8, <1>11, <1>15 DEF TypeOK, Moves, RequestStates, storeVars, ownerVars
<1>17. IssuedOnce' /\ Revocation'
  <2>1. Settles(r)
    BY <1>3, <1>11, <1>12 DEF Settles
  <2>2. SettlingStep
    BY <1>11, <1>15, <2>1 DEF SettlingStep, Moves, Others
  <2> QED  BY <2>2, RevocationKept DEF IInv
<1>18. Indexed'
  <2>1. ASSUME NEW t \in Tokens, NEW p \in Operators, t \notin overlapped', NEW steps,
               steps \subseteq {"verify_index", "verify_expire"}, CreatingIn(request, t, p, steps)
        PROVE  CreatingIn(request', t, p, steps)
    <3>1. PICK x \in Requests :
            request[x].at \in steps /\ request[x].about = p /\ request[x].token = t
      BY <2>1 DEF CreatingIn
    <3>2. x # r
      BY <1>1, <1>15, <2>1, <3>1
    <3> QED  BY <1>11, <3>1, <3>2 DEF CreatingIn, Moves, Others
  <2>2. ASSUME NEW t \in Tokens, NEW p \in Operators, t \notin overlapped'
        PROVE  /\ CreatingIn(request, t, p, {"verify_index"})
                    => CreatingIn(request', t, p, {"verify_index"})
               /\ CreatingIn(request, t, p, {"verify_index", "verify_expire"})
                    => CreatingIn(request', t, p, {"verify_index", "verify_expire"})
    BY <2>1, <2>2
  <2> QED  BY <1>2, <1>15, <2>2, IndexedKept DEF IInv
<1>19. IInv'
  BY <1>3, <1>8, <1>11, <1>13, <1>14, <1>16, <1>17, <1>18, StepKeeps DEF storeVars
<1> QED  BY <1>1, <1>2, <1>3, <1>8, <1>11, <1>15, <1>19 DEF storeVars

-------------------------------------------------------------------------------
(***************************************************************************)
(* The invariant.                                                          *)
(***************************************************************************)
LEMMA InitIInv ==
  ASSUME Init
  PROVE  IInv
<1>1. \A r \in Requests : request[r] = Idle
  BY DEF Init
<1>2. Seated \subseteq Tokens
  BY AccountsAssumption DEF Seated
<1>3. ASSUME NEW t \in Seated
      PROVE  /\ session[t] \in SessionData /\ session[t] # None
             /\ Seats[session[t].operator] = t
  <2>1. \E p \in Operators : Seats[p] = t
    BY <1>3 DEF Seated
  <2>2. PICK o : o = (CHOOSE p \in Operators : Seats[p] = t)
    OBVIOUS
  <2>3. o \in Operators /\ Seats[o] = t
    BY <2>1, <2>2
  <2>4. session[t] = [operator |-> o, role |-> Accounts[o].role]
    BY <1>2, <1>3, <2>2 DEF Init
  <2>5. Accounts[o].role \in Roles
    BY <2>3, AccountsAssumption DEF Row
  <2>6. session[t] \in SessionData /\ session[t].operator = o
    BY <2>3, <2>4, <2>5 DEF SessionData
  <2> QED  BY <2>3, <2>6, AccountsAssumption
<1>4. ASSUME NEW t \in Tokens
      PROVE  t \in Live <=> t \in Seated
  BY <1>3, <1>4 DEF Init, Live
<1>5. ASSUME NEW t \in Tokens, Fresh(t)
      PROVE  \E o \in Operators : /\ session[t].operator = o /\ Seats[o] = t
                                  /\ index[o] = {t} /\ t \in ttl[o]
  <2>1. t \in Seated /\ t # None
    BY <1>4, <1>5 DEF Fresh, Seated
  <2>2. PICK o \in Operators : session[t].operator = o /\ Seats[o] = t
    BY <1>3, <2>1 DEF SessionData
  <2> QED  BY <2>1, <2>2 DEF Init
<1>6. TypeOK
  <2> DEFINE secure == {o \in Operators : Accounts[o].secret # 0}
  <2>1. secrets \in 0..MaxSecrets
    <3>1. IsFiniteSet(secure)
      BY AccountsAssumption, FS_Subset
    <3>2. Cardinality(secure) \in Nat
      BY <3>1, FS_CardinalityType
    <3> QED  BY <3>2, AccountsAssumption DEF Init
  <2>2. session \in [Tokens -> SessionData \cup {None}]
    BY <1>3 DEF Init
  <2>3. \A o \in Operators : {Seats[o]} \ {None} \subseteq Tokens
    BY AccountsAssumption
  <2>4. /\ index \in [Operators -> SUBSET Tokens]
        /\ ttl \in [Operators -> (SUBSET Tokens) \cup {None}]
    BY <1>2, <2>3 DEF Init
  <2>5. request \in [Requests -> RequestStates]
    BY IdleState DEF Init
  <2> QED  BY <1>2, <2>1, <2>2, <2>4, <2>5, AccountsAssumption DEF Init, TypeOK, RequestStates
<1>7. \A r \in Requests : Locals(request[r])
  BY <1>1, IdleState DEF Locals, AboutSteps, Orders
<1>8. LoginsExist
  BY <1>1, IdleState DEF LoginsExist, At
<1>9. Indexed
  BY <1>5 DEF Indexed
<1>10. IssuedOnce
  <2>1. Live \subseteq issued
    BY <1>4 DEF Init, Live
  <2> QED  BY <1>1, <2>1, IdleState DEF IssuedOnce
<1>11. Revocation
  BY <1>1, IdleState DEF Revocation
<1>12. OwnedOnceOpen
  BY DEF Init, OwnedOnceOpen
<1> QED  BY <1>6, <1>7, <1>8, <1>9, <1>10, <1>11, <1>12 DEF IInv

LEMMA StayKeeps ==
  ASSUME IInv, UNCHANGED vars
  PROVE  IInv'
BY DEF IInv, TypeOK, Locals, LoginsExist, Indexed, IssuedOnce, Revocation, OwnedOnceOpen,
       CreatingIn, Fresh, Live, Revoking, At, vars, storeVars, redisVars, ownerVars

LEMMA NextKeeps ==
  ASSUME IInv, [Next]_vars
  PROVE  IInv'
<1>1. ASSUME NEW r \in Requests, Arrive(r)
      PROVE  IInv'
  <2>1. ASSUME NEW o \in Operators, Login(r, o)
        PROVE  IInv'
    BY <2>1, LoginTurns, ElsewhereKeeps
  <2>2. ASSUME NEW p \in Pendings, Verify(r, p)
        PROVE  IInv'
    BY <2>2, VerifyTurns, ElsewhereKeeps
  <2>3. ASSUME NEW t \in Tokens, Logout(r, t)
        PROVE  IInv'
    BY <2>3, LogoutKeeps
  <2>4. ASSUME NEW t \in Tokens, OpenConversation(r, t)
        PROVE  IInv'
    BY <2>4, OpenConversationTurns, ElsewhereKeeps
  <2>5. ASSUME NEW t \in Tokens, NEW i \in Invitations, CreateOperator(r, t, i[1], i[2])
        PROVE  IInv'
    <3>1. i[1] \in Operators /\ i[2] \in Roles
      BY AccountsAssumption
    <3> QED  BY <2>5, <3>1, CreateOperatorTurns, ElsewhereKeeps
  <2>6. ASSUME NEW t \in Tokens, NEW o \in Operators, NEW patch \in mix.patches,
               UpdateOperator(r, t, o, patch)
        PROVE  IInv'
    BY <2>6, UpdateOperatorTurns, ElsewhereKeeps
  <2>7. ASSUME NEW t \in Tokens, NEW o \in Operators, NEW s \in Sessions, AssignOwner(r, t, s, o)
        PROVE  IInv'
    BY <2>7, AssignOwnerTurns, ElsewhereKeeps
  <2> QED  BY <1>1, <2>1, <2>2, <2>3, <2>4, <2>5, <2>6, <2>7 DEF Arrive
<1>2. ASSUME NEW r \in Requests, Step(r)
      PROVE  IInv'
  <2>1. CASE LoginRead(r)
    BY <2>1, LoginReadTurns, ElsewhereKeeps
  <2>2. CASE LoginSave(r)
    BY <2>2, LoginSaveTurns, ElsewhereKeeps
  <2>3. CASE LoginPending(r)
    BY <2>3, LoginPendingTurns, ElsewhereKeeps
  <2>4. CASE VerifyPending(r)
    BY <2>4, VerifyPendingTurns, ElsewhereKeeps
  <2>5. CASE VerifyRead(r)
    BY <2>5, VerifyReadTurns, ElsewhereKeeps
  <2>6. CASE VerifyConsume(r)
    BY <2>6, VerifyConsumeTurns, ElsewhereKeeps
  <2>7. CASE VerifySet(r)
    BY <2>7, VerifySetKeeps
  <2>8. CASE VerifyIndex(r)
    BY <2>8, VerifyIndexKeeps
  <2>9. CASE VerifyExpire(r)
    BY <2>9, VerifyExpireKeeps
  <2>10. CASE VerifyActivate(r)
    BY <2>10, VerifyActivateTurns, ElsewhereKeeps
  <2>11. CASE CreateInsert(r)
    BY <2>11, CreateInsertTurns, ElsewhereKeeps
  <2>12. CASE UpdateRead(r)
    BY <2>12, UpdateReadTurns, ElsewhereKeeps
  <2>13. CASE UpdateSave(r)
    BY <2>13, UpdateSaveTurns, ElsewhereKeeps
  <2>14. CASE RevokeList(r)
    BY <2>14, RevokeListKeeps
  <2>15. CASE RevokeEach(r)
    BY <2>15, RevokeEachKeeps
  <2>16. CASE RevokeIndex(r)
    BY <2>16, RevokeIndexKeeps
  <2>17. CASE ReassignList(r)
    BY <2>17, ReassignListTurns, ElsewhereKeeps
  <2>18. CASE ReassignFind(r)
    BY <2>18, ReassignFindTurns, ElsewhereKeeps
  <2>19. CASE ReassignEach(r)
    BY <2>19, ReassignEachTurns, ElsewhereKeeps
  <2>20. CASE OpenInsert(r)
    BY <2>20, OpenInsertKeeps
  <2>21. CASE OpenOwn(r)
    BY <2>21, OpenOwnTurns, ElsewhereKeeps
  <2>22. CASE AssignRead(r)
    BY <2>22, AssignReadTurns, ElsewhereKeeps
  <2>23. CASE AssignSave(r)
    BY <2>23, AssignSaveTurns, ElsewhereKeeps
  <2> QED  BY <1>2, <2>1, <2>2, <2>3, <2>4, <2>5, <2>6, <2>7, <2>8, <2>9, <2>10, <2>11, <2>12,
              <2>13, <2>14, <2>15, <2>16, <2>17, <2>18, <2>19, <2>20, <2>21, <2>22, <2>23 DEF Step
<1>3. CASE Rest \/ UNCHANGED vars
  BY <1>3, StayKeeps DEF Rest
<1> QED  BY <1>1, <1>2, <1>3, FailKeeps, SessionExpiresKeeps, PendingExpiresKeeps,
            IndexExpiresKeeps DEF Next

(***************************************************************************)
(* The theorems.                                                           *)
(***************************************************************************)
(* The invariant holds throughout. *)
THEOREM AccountsInvariant == Spec => []IInv
<1>1. Init => IInv
  BY InitIInv
<1>2. IInv /\ [Next]_vars => IInv'
  BY NextKeeps
<1> QED  BY <1>1, <1>2, PTL DEF Spec

(* The stores and the local variables of every handler keep their types. *)
THEOREM AccountsTypeOK == Spec => []TypeOK
<1>1. IInv => TypeOK
  BY DEF IInv
<1> QED  BY <1>1, AccountsInvariant, PTL

(* A conversation has an owner once both statements that open it are over
   (sessions.go), whoever reassigns it meanwhile. *)
THEOREM AccountsOwnedOnceOpen == Spec => []OwnedOnceOpen
<1>1. IInv => OwnedOnceOpen
  BY DEF IInv
<1> QED  BY <1>1, AccountsInvariant, PTL

(* When a disable is over, no session is alive that was complete when the
   index was read and whose creation met no revocation or expiry of the index
   (auth/session.go). *)
THEOREM AccountsRevokedAreGone == Spec => []RevokedAreGone
<1>1. IInv => RevokedAreGone
  BY DEF IInv, Revocation, Revoked, RevokedAreGone
<1> QED  BY <1>1, AccountsInvariant, PTL

-------------------------------------------------------------------------------
(***************************************************************************)
(* Power (OperatorAccess).                                                 *)
(***************************************************************************)
Gives(q) == q.at \in {"login_save", "login_pending", "verify_read"} \/ Verified(q)
Power == [o \in Operators |-> Level(Standing(o))]
OrderOf(q) == IF q.at \in Orders THEN <<q.by, q.about>> ELSE None
Order == [r \in Requests |-> OrderOf(request[r])]

LEMMA LevelGrows ==
  ASSUME NEW A, NEW B, A \subseteq B
  PROVE  Level(A) \in {0, 1, 2} /\ Level(A) <= Level(B)
BY DEF Level

LEMMA StandingIs ==
  ASSUME NEW o, NEW x
  PROVE  x \in Standing(o) <=>
           \/ row[o].status \in {"invited", "active"} /\ x = row[o].role
           \/ \E t \in Tokens : session[t] # None /\ session[t].operator = o /\ x = session[t].role
           \/ \E p \in Pendings : pending[p] = o /\ x = row[o].role
           \/ \E r \in Requests : /\ request[r].about = o /\ x = row[o].role
                                  /\ request[r].at \in {"login_pending", "verify_read"}
           \/ \E r \in Requests : /\ request[r].about = o /\ x = request[r].read.role
                                  /\ request[r].at = "login_save" \/ Verified(request[r])
BY DEF Standing, LiveOf, Live

LEMMA StandingIsNext ==
  ASSUME NEW o, NEW x
  PROVE  x \in Standing(o)' <=>
           \/ row'[o].status \in {"invited", "active"} /\ x = row'[o].role
           \/ \E t \in Tokens : session'[t] # None /\ session'[t].operator = o /\ x = session'[t].role
           \/ \E p \in Pendings : pending'[p] = o /\ x = row'[o].role
           \/ \E r \in Requests : /\ request'[r].about = o /\ x = row'[o].role
                                  /\ request'[r].at \in {"login_pending", "verify_read"}
           \/ \E r \in Requests : /\ request'[r].about = o /\ x = request'[r].read.role
                                  /\ request'[r].at = "login_save" \/ Verified(request'[r])
BY DEF Standing, LiveOf, Live, Verified

(* Whatever stands after a step stood before it. *)
LEMMA StandingShrinks ==
  ASSUME NEW o,
         row'[o] = row[o] \/ row'[o].role \in Standing(o),
         \A t \in Tokens : session'[t] # None /\ session'[t].operator = o =>
           session'[t] = session[t] \/ session'[t].role \in Standing(o),
         \A p \in Pendings : pending'[p] = o => pending[p] = o \/ row'[o].role \in Standing(o),
         \A q \in Requests :
           \/ request'[q] = request[q] \/ ~Gives(request'[q]) \/ request'[q].about # o
           \/ /\ request'[q].at \in {"login_pending", "verify_read"} => row'[o].role \in Standing(o)
              /\ request'[q].at = "login_save" \/ Verified(request'[q]) =>
                   request'[q].read.role \in Standing(o)
  PROVE  Standing(o)' \subseteq Standing(o)
<1> SUFFICES ASSUME NEW x \in Standing(o)'
             PROVE  x \in Standing(o)
  OBVIOUS
<1>1. CASE row'[o].status \in {"invited", "active"} /\ x = row'[o].role
  BY <1>1, StandingIs
<1>2. CASE \E t \in Tokens : session'[t] # None /\ session'[t].operator = o /\ x = session'[t].role
  BY <1>2, StandingIs
<1>3. CASE \E p \in Pendings : pending'[p] = o /\ x = row'[o].role
  BY <1>3, StandingIs
<1>4. CASE \E r \in Requests : /\ request'[r].about = o /\ x = row'[o].role
                               /\ request'[r].at \in {"login_pending", "verify_read"}
  BY <1>4, StandingIs DEF Gives
<1>5. CASE \E r \in Requests : /\ request'[r].about = o /\ x = request'[r].read.role
                               /\ request'[r].at = "login_save" \/ Verified(request'[r])
  <2>1. PICK r \in Requests : /\ request'[r].about = o /\ x = request'[r].read.role
                              /\ request'[r].at = "login_save" \/ Verified(request'[r])
    BY <1>5
  <2>2. Gives(request'[r])
    BY <2>1 DEF Gives
  <2>3. CASE request'[r] = request[r]
    BY <2>1, <2>3, StandingIs
  <2>4. CASE request'[r] # request[r]
    BY <2>1, <2>2, <2>4
  <2> QED  BY <2>3, <2>4
<1> QED  BY <1>1, <1>2, <1>3, <1>4, <1>5, StandingIsNext

(* Nothing that gives an operator power is touched. *)
LEMMA StandingStays ==
  ASSUME NEW o, row'[o] = row[o], session' = session, pending' = pending,
         \A q \in Requests :
           request'[q] = request[q] \/ (~Gives(request'[q]) /\ ~Gives(request[q]))
  PROVE  Standing(o)' = Standing(o)
<1>1. ASSUME NEW x \in Standing(o)'
      PROVE  x \in Standing(o)
  BY <1>1, StandingShrinks
<1>2. ASSUME NEW x \in Standing(o)
      PROVE  x \in Standing(o)'
  <2>1. CASE \/ row[o].status \in {"invited", "active"} /\ x = row[o].role
             \/ \E t \in Tokens : session[t] # None /\ session[t].operator = o /\ x = session[t].role
             \/ \E p \in Pendings : pending[p] = o /\ x = row[o].role
    BY <2>1, StandingIsNext
  <2>2. CASE \E r \in Requests : /\ request[r].about = o /\ x = row[o].role
                                 /\ request[r].at \in {"login_pending", "verify_read"}
    BY <2>2, StandingIsNext DEF Gives
  <2>3. CASE \E r \in Requests : /\ request[r].about = o /\ x = request[r].read.role
                                 /\ request[r].at = "login_save" \/ Verified(request[r])
    BY <2>3, StandingIsNext DEF Gives
  <2> QED  BY <1>2, <2>1, <2>2, <2>3, StandingIs
<1> QED  BY <1>1, <1>2

LEMMA AccessIs ==
  /\ Access!vars = <<Power, Order>>
  /\ Access!Init <=> /\ Power \in [Operators -> {0, 1, 2}] /\ Order = [r \in Requests |-> None]
BY DEF Access!vars, Access!Init, Access!Levels, Access!Nothing, Access!Operating,
       Access!Administering, Power, Order, OrderOf

LEMMA Lapses ==
  ASSUME \A o \in Operators : Standing(o)' \subseteq Standing(o),
         \A r \in Requests : OrderOf(request'[r]) = OrderOf(request[r])
  PROVE  Access!Next
<1>1. Access!Lapse
  BY LevelGrows DEF Access!Lapse, Access!Levels, Access!Nothing, Access!Operating,
     Access!Administering, OrderOf
<1> QED  BY <1>1 DEF Access!Next

(* A step that gives nobody power, and is neither given nor carried out as an
   order. *)
LEMMA NoMorePower ==
  ASSUME IInv, NEW r \in Requests, Others(r), row' = row,
         \A t \in Tokens : session'[t] # None => session'[t] = session[t],
         \A p \in Pendings : pending'[p] = pending[p] \/ pending'[p] = None,
         request[r].at \notin Orders, request'[r].at \notin Orders,
         request'[r].at \notin {"login_save", "login_pending", "verify_read", "verify_consume",
                                "verify_set", "verify_index", "verify_expire", "verify_activate"}
  PROVE  Access!Next
<1>1. ~Gives(request'[r])
  BY DEF Gives, Verified
<1>2. \A q \in Requests : OrderOf(request'[q]) = OrderOf(request[q])
  BY DEF Others, OrderOf
<1>3. ASSUME NEW o \in Operators
      PROVE  Standing(o)' \subseteq Standing(o)
  <2>1. o # None
    BY AccountsAssumption
  <2> QED  BY <1>1, <2>1, StandingShrinks DEF Others
<1> QED  BY <1>2, <1>3, Lapses

(* A step that gives only what stands already. *)
LEMMA OwnPower ==
  ASSUME IInv, NEW r \in Requests, Others(r),
         request[r].at \notin Orders, request'[r].at \notin Orders,
         NEW o \in Operators,
         \A p \in Operators \ {o} : row'[p] = row[p],
         row'[o] = row[o] \/ row'[o].role \in Standing(o),
         \A t \in Tokens : \/ session'[t] = session[t]
                           \/ session'[t].operator = o /\ session'[t].role \in Standing(o),
         \A p \in Pendings : \/ pending'[p] = pending[p] \/ pending'[p] = None
                             \/ pending'[p] = o /\ row'[o].role \in Standing(o),
         Gives(request'[r]) =>
           /\ request'[r].about = o
           /\ request'[r].at \in {"login_pending", "verify_read"} => row'[o].role \in Standing(o)
           /\ request'[r].at = "login_save" \/ Verified(request'[r]) =>
                request'[r].read.role \in Standing(o)
  PROVE  Access!Next
<1>1. \A q \in Requests : OrderOf(request'[q]) = OrderOf(request[q])
  BY DEF Others, OrderOf
<1>2. ASSUME NEW p \in Operators
      PROVE  Standing(p)' \subseteq Standing(p)
  <2>1. p # None
    BY AccountsAssumption
  <2>2. CASE p = o
    BY <2>1, <2>2, StandingShrinks DEF Others
  <2>3. CASE p # o
    BY <2>1, <2>3, StandingShrinks DEF Others
  <2> QED  BY <2>2, <2>3
<1> QED  BY <1>1, <1>2, Lapses

(* An order an admin gives while his session stands. *)
LEMMA AdminOrders ==
  ASSUME IInv, NEW r \in Requests, Others(r), NEW t \in Live, session[t].role = "admin",
         row' = row, session' = session, pending' = pending,
         request[r].at = "idle", request'[r].at \in {"create_insert", "update_read"},
         request'[r].by = session[t].operator, session[t].operator \in Operators,
         request'[r].about \in Operators
  PROVE  Access!Next
<1>1. PICK a, o : a = session[t].operator /\ o = request'[r].about
  OBVIOUS
<1>2. ~Gives(request'[r]) /\ ~Gives(request[r])
  BY DEF Gives, Verified
<1>3. \A p \in Operators : Standing(p)' = Standing(p)
  BY <1>2, StandingStays DEF Others
<1>4. "admin" \in Standing(a)
  BY <1>1, StandingIs DEF Live
<1>5. OrderOf(request[r]) = None /\ OrderOf(request'[r]) = <<a, o>>
  BY <1>1 DEF OrderOf, Orders
<1>6. \A q \in Requests : q # r => OrderOf(request'[q]) = OrderOf(request[q])
  BY DEF Others
<1>7. Access!Give(r, a, o)
  <2>1. Order[r] = None /\ Order' = [Order EXCEPT ![r] = <<a, o>>]
    BY <1>5, <1>6 DEF Order, OrderOf
  <2>2. Power[a] = 2 /\ Power' = Power
    BY <1>1, <1>3, <1>4 DEF Power, Level
  <2> QED  BY <2>1, <2>2 DEF Access!Give, Access!Administering, Power, Order, OrderOf
<1> QED  BY <1>1, <1>7 DEF Access!Next

(* An order that is carried out, or fails. *)
LEMMA OrderEnds ==
  ASSUME IInv, NEW r \in Requests, Others(r), request[r].at \in Orders,
         request'[r].at \in {"done", "revoke_list"}, session' = session, pending' = pending,
         \A p \in Operators \ {request[r].about} : row'[p] = row[p]
  PROVE  Access!Next
<1>1. PICK a, o : a = request[r].by /\ o = request[r].about
  OBVIOUS
<1>2. a \in Operators /\ o \in Operators /\ <<a, o>> # None
  BY <1>1, LocalsHere, AccountsAssumption DEF Locals, Orders, AboutSteps
<1>3. ~Gives(request'[r]) /\ ~Gives(request[r])
  BY DEF Gives, Verified, Orders
<1>4. \A p \in Operators \ {o} : Standing(p)' = Standing(p)
  BY <1>1, <1>3, StandingStays DEF Others
<1>5. OrderOf(request[r]) = <<a, o>> /\ OrderOf(request'[r]) = None
  BY <1>1 DEF OrderOf, Orders
<1>6. \A q \in Requests : q # r => OrderOf(request'[q]) = OrderOf(request[q])
  BY DEF Others
<1>7. PICK l : l = Level(Standing(o)')
  OBVIOUS
<1>8. Access!CarryOut(r)
  <2>1. Order[r] = <<a, o>> /\ Order' = [Order EXCEPT ![r] = None]
    BY <1>5, <1>6 DEF Order, OrderOf
  <2>2. l \in {0, 1, 2}
    BY <1>7, LevelGrows
  <2>3. Power' = [Power EXCEPT ![o] = l]
    BY <1>2, <1>4, <1>7 DEF Power
  <2>4. Power' = [Power EXCEPT ![Order[r][2]] = l]
    BY <2>1, <2>3
  <2> QED  BY <1>2, <2>1, <2>2, <2>4 DEF Access!CarryOut, Access!Levels, Access!Nothing,
              Access!Operating, Access!Administering, Power, Order, OrderOf
<1> QED  BY <1>8 DEF Access!Next

LEMMA PowerOfArrival ==
  ASSUME IInv, NEW r \in Requests, Arrive(r)
  PROVE  Access!Next
<1>1. ASSUME NEW o \in Operators, Login(r, o)
      PROVE  Access!Next
  BY <1>1, LoginTurns, NoMorePower DEF Turns, Moves, Login, At, Orders, storeVars, redisVars
<1>2. ASSUME NEW p \in Pendings, Verify(r, p)
      PROVE  Access!Next
  BY <1>2, VerifyTurns, NoMorePower DEF Turns, Moves, Verify, At, Orders, storeVars, redisVars
<1>3. ASSUME NEW t \in Tokens, Logout(r, t)
      PROVE  Access!Next
  BY <1>3, LogoutKeeps, SessionEnds, NoMorePower DEF Moves, Orders
<1>4. ASSUME NEW t \in Tokens, OpenConversation(r, t)
      PROVE  Access!Next
  BY <1>4, OpenConversationTurns, NoMorePower
     DEF Turns, Moves, OpenConversation, Orders, storeVars, redisVars
<1>5. ASSUME NEW t \in Tokens, NEW i \in Invitations, CreateOperator(r, t, i[1], i[2])
      PROVE  Access!Next
  <2>1. i[1] \in Operators /\ i[2] \in Roles
    BY AccountsAssumption
  <2>2. UNCHANGED <<row, session, pending>>
    BY <1>5 DEF CreateOperator, storeVars, redisVars
  <2> QED  BY <1>5, <2>1, <2>2, CreateOperatorTurns, AdminOrders DEF Turns, Moves
<1>6. ASSUME NEW t \in Tokens, NEW o \in Operators, NEW patch \in mix.patches,
             UpdateOperator(r, t, o, patch)
      PROVE  Access!Next
  <2>1. UNCHANGED <<row, session, pending>>
    BY <1>6 DEF UpdateOperator, storeVars, redisVars
  <2> QED  BY <1>6, <2>1, UpdateOperatorTurns, AdminOrders DEF Turns, Moves
<1>7. ASSUME NEW t \in Tokens, NEW o \in Operators, NEW s \in Sessions, AssignOwner(r, t, s, o)
      PROVE  Access!Next
  BY <1>7, AssignOwnerTurns, NoMorePower DEF Turns, Moves, AssignOwner, Orders, storeVars, redisVars
<1> QED  BY <1>1, <1>2, <1>3, <1>4, <1>5, <1>6, <1>7 DEF Arrive

(* Logging in gives an operator no power he did not have: at every step
   something that carries the same role is still there. *)
LEMMA PowerOfLogin ==
  ASSUME IInv, NEW r \in Requests,
         LoginRead(r) \/ LoginSave(r) \/ LoginPending(r)
  PROVE  Access!Next
<1>1. CASE LoginRead(r)
  <2>1. /\ request[r].at = "login_read" /\ UNCHANGED <<row, session, pending>>
        /\ request[r].about \in Operators
    BY <1>1, LocalsHere DEF LoginRead, At, storeVars, redisVars, Locals, AboutSteps
  <2>2. PICK o \in Operators : o = request[r].about
    BY <2>1
  <2>3. request'[r].at # "done" => row[o].role \in Standing(o)
    BY <1>1, <2>2, LoginReadTurns, StandingIs
  <2>4. Gives(request'[r]) => /\ request'[r].about = o /\ request'[r].read = row[o]
                              /\ row[o].role \in Standing(o)
    BY <1>1, <2>2, <2>3, LoginReadTurns DEF Gives, Verified
  <2> QED  BY <1>1, <2>1, <2>4, LoginReadTurns, OwnPower DEF Turns, Moves, Orders
<1>2. CASE LoginSave(r)
  <2>1. PICK o \in Operators : o = request[r].about
    BY <1>2, LoginSaveTurns
  <2>2. request[r].read.role \in Standing(o)
    BY <1>2, <2>1, LoginSaveTurns, StandingIs
  <2>3. session' = session
    BY <1>2 DEF LoginSave, redisVars
  <2>4. request'[r].at = "login_pending" /\ request'[r].about = o /\ row'[o].role \in Standing(o)
    BY <1>2, <2>1, <2>2, LoginSaveTurns
  <2> QED  BY <1>2, <2>1, <2>3, <2>4, LoginSaveTurns, OwnPower DEF Turns, Moves, Orders, Verified
<1>3. CASE LoginPending(r)
  <2>1. PICK o \in Operators : o = request[r].about
    BY <1>3, LoginPendingTurns
  <2>2. row[o].role \in Standing(o)
    BY <1>3, <2>1, LoginPendingTurns, StandingIs
  <2>3. session' = session
    BY <1>3 DEF LoginPending
  <2>4. ~Gives(request'[r])
    BY <1>3, LoginPendingTurns DEF Gives, Verified
  <2> QED  BY <1>3, <2>1, <2>2, <2>3, <2>4, LoginPendingTurns, OwnPower DEF Turns, Moves, Orders
<1> QED  BY <1>1, <1>2, <1>3

LEMMA PowerOfVerification ==
  ASSUME IInv, NEW r \in Requests,
         \/ VerifyPending(r) \/ VerifyRead(r) \/ VerifyConsume(r) \/ VerifySet(r)
         \/ VerifyIndex(r) \/ VerifyExpire(r) \/ VerifyActivate(r)
  PROVE  Access!Next
<1>1. CASE VerifyPending(r)
  <2>1. UNCHANGED <<row, session, pending>>
    BY <1>1 DEF VerifyPending, storeVars, redisVars
  <2>2. CASE request'[r].at = "done"
    BY <1>1, <2>1, <2>2, VerifyPendingTurns, NoMorePower DEF Turns, Moves, Orders
  <2>3. CASE request'[r].at = "verify_read"
    <3>1. PICK o : o = request'[r].about
      OBVIOUS
    <3>2. o \in Operators
      BY <1>1, <2>3, <3>1, VerifyPendingTurns DEF Turns, Locals, AboutSteps
    <3>3. row[o].role \in Standing(o)
      BY <1>1, <2>3, <3>1, VerifyPendingTurns, StandingIs
    <3> QED  BY <1>1, <2>1, <2>3, <3>1, <3>2, <3>3, VerifyPendingTurns, OwnPower
             DEF Turns, Moves, Orders, Verified
  <2> QED  BY <1>1, <2>2, <2>3, VerifyPendingTurns
<1>2. CASE VerifyRead(r)
  <2>1. UNCHANGED <<row, session, pending>> /\ request[r].about \in Operators
    BY <1>2, LocalsHere, VerifyReadTurns DEF VerifyRead, storeVars, redisVars, Locals, AboutSteps
  <2>2. PICK o \in Operators : o = request[r].about
    BY <2>1
  <2>3. row[o].role \in Standing(o)
    BY <1>2, <2>2, VerifyReadTurns, StandingIs
  <2>4. Gives(request'[r]) => /\ request'[r].about = o /\ request'[r].read = row[o]
                              /\ request'[r].at = "verify_consume"
    BY <1>2, <2>2, VerifyReadTurns DEF Gives, Verified
  <2> QED  BY <1>2, <2>1, <2>3, <2>4, VerifyReadTurns, OwnPower DEF Turns, Moves, Orders
<1>3. CASE VerifyConsume(r)
  <2>1. session' = session /\ request[r].about \in Operators
    BY <1>3, LocalsHere, VerifyConsumeTurns DEF VerifyConsume, Locals, AboutSteps
  <2>2. PICK o \in Operators : o = request[r].about
    BY <2>1
  <2>3. request[r].read.role \in Standing(o)
    BY <1>3, <2>2, VerifyConsumeTurns, StandingIs DEF Verified
  <2> QED  BY <1>3, <2>1, <2>2, <2>3, VerifyConsumeTurns, OwnPower DEF Turns, Moves, Orders
<1>4. CASE VerifySet(r)
  <2>1. PICK o, role : o \in Operators /\ o = request[r].about /\ role = request[r].read.role
    BY <1>4, VerifySetKeeps
  <2>2. role \in Standing(o)
    BY <1>4, <2>1, VerifySetKeeps, StandingIs DEF Verified
  <2>3. \A t \in Tokens : session'[t] = session[t]
                          \/ (session'[t].operator = o /\ session'[t].role \in Standing(o))
    <3>1. PICK t \in Tokens : session' = [session EXCEPT ![t] = [operator |-> o, role |-> role]]
      BY <1>4, <2>1, VerifySetKeeps
    <3> QED  BY <2>2, <3>1 DEF IInv, TypeOK
  <2> QED  BY <1>4, <2>1, <2>2, <2>3, VerifySetKeeps, OwnPower DEF Moves, Orders
<1>5. CASE VerifyIndex(r)
  <2>1. request[r].about \in Operators
    BY <1>5, LocalsHere, VerifyIndexKeeps DEF Locals, AboutSteps
  <2>2. PICK o \in Operators : o = request[r].about
    BY <2>1
  <2>3. Verified(request'[r]) => request[r].read.role \in Standing(o)
    BY <1>5, <2>2, VerifyIndexKeeps, StandingIs DEF Verified
  <2>4. /\ request'[r].about = o /\ request'[r].read = request[r].read
        /\ request'[r].at = "verify_expire" /\ request[r].at = "verify_index"
        /\ Others(r) /\ UNCHANGED <<row, session, pending>>
    BY <1>5, <2>2, VerifyIndexKeeps DEF Moves
  <2> QED  BY <2>3, <2>4, OwnPower DEF Orders
<1>6. CASE VerifyExpire(r)
  <2>1. request[r].about \in Operators
    BY <1>6, LocalsHere, VerifyExpireKeeps DEF Locals, AboutSteps
  <2>2. PICK o \in Operators : o = request[r].about
    BY <2>1
  <2>3. /\ request[r].at = "verify_expire" /\ request'[r].at \in {"done", "verify_activate"}
        /\ Others(r) /\ UNCHANGED <<row, session, pending>>
    BY <1>6, VerifyExpireKeeps DEF Moves
  <2>4. CASE request'[r].at = "done"
    BY <2>3, <2>4, NoMorePower DEF Orders
  <2>5. CASE request'[r].at = "verify_activate"
    <3>1. /\ request[r].read.status = "invited"
          /\ request'[r].about = o /\ request'[r].read = request[r].read
      BY <1>6, <2>2, <2>5, VerifyExpireKeeps
    <3>2. request[r].read.role \in Standing(o)
      BY <2>2, <2>3, <3>1, StandingIs DEF Verified
    <3> QED  BY <2>3, <2>5, <3>1, <3>2, OwnPower DEF Orders
  <2> QED  BY <2>3, <2>4, <2>5
<1>7. CASE VerifyActivate(r)
  <2>1. PICK o \in Operators : o = request[r].about
    BY <1>7, VerifyActivateTurns
  <2>2. row'[o].role \in Standing(o)
    BY <1>7, <2>1, VerifyActivateTurns, StandingIs DEF Verified
  <2>3. session' = session /\ ~Gives(request'[r])
    BY <1>7, VerifyActivateTurns DEF VerifyActivate, redisVars, Gives, Verified
  <2> QED  BY <1>7, <2>1, <2>2, <2>3, VerifyActivateTurns, OwnPower DEF Turns, Moves, Orders
<1> QED  BY <1>1, <1>2, <1>3, <1>4, <1>5, <1>6, <1>7

LEMMA PowerOfAdministration ==
  ASSUME IInv, NEW r \in Requests,
         \/ CreateInsert(r) \/ UpdateRead(r) \/ UpdateSave(r)
         \/ RevokeList(r) \/ RevokeEach(r) \/ RevokeIndex(r)
         \/ ReassignList(r) \/ ReassignFind(r) \/ ReassignEach(r)
  PROVE  Access!Next
<1>1. CASE CreateInsert(r)
  BY <1>1, CreateInsertTurns, OrderEnds DEF Turns, Moves, Orders, CreateInsert, redisVars
<1>2. CASE UpdateRead(r)
  <2>1. UNCHANGED <<row, session, pending>>
    BY <1>2 DEF UpdateRead, storeVars, redisVars
  <2>2. CASE request'[r].at = "done"
    BY <1>2, <2>1, <2>2, UpdateReadTurns, OrderEnds DEF Turns, Moves, Orders
  <2>3. CASE request'[r].at = "update_save"
    <3>1. /\ ~Gives(request'[r]) /\ ~Gives(request[r]) /\ Others(r)
          /\ OrderOf(request'[r]) = OrderOf(request[r])
      BY <1>2, <2>3, UpdateReadTurns DEF Turns, Moves, Gives, Verified, OrderOf, Orders
    <3>2. \A o \in Operators : Standing(o)' = Standing(o)
      BY <2>1, <3>1, StandingStays DEF Others
    <3>3. \A q \in Requests : OrderOf(request'[q]) = OrderOf(request[q])
      BY <3>1 DEF Others
    <3> QED  BY <3>2, <3>3, Lapses
  <2> QED  BY <1>2, <2>2, <2>3, UpdateReadTurns
<1>3. CASE UpdateSave(r)
  BY <1>3, UpdateSaveTurns, OrderEnds DEF Turns, Moves, Orders, UpdateSave, redisVars
<1>4. CASE RevokeList(r)
  BY <1>4, RevokeListKeeps, NoMorePower DEF Moves, Orders
<1>5. CASE RevokeEach(r)
  BY <1>5, RevokeEachKeeps, SessionEnds, NoMorePower DEF Moves, Orders
<1>6. CASE RevokeIndex(r)
  BY <1>6, RevokeIndexKeeps, NoMorePower DEF Moves, Orders
<1>7. CASE ReassignList(r)
  BY <1>7, ReassignListTurns, NoMorePower DEF Turns, Moves, ReassignList, Orders, storeVars, redisVars
<1>8. CASE ReassignFind(r)
  BY <1>8, ReassignFindTurns, NoMorePower DEF Turns, Moves, ReassignFind, Orders, storeVars, redisVars
<1>9. CASE ReassignEach(r)
  BY <1>9, ReassignEachTurns, NoMorePower DEF Turns, Moves, ReassignEach, Orders, storeVars, redisVars
<1> QED  BY <1>1, <1>2, <1>3, <1>4, <1>5, <1>6, <1>7, <1>8, <1>9

LEMMA PowerOfConversations ==
  ASSUME IInv, NEW r \in Requests,
         OpenInsert(r) \/ OpenOwn(r) \/ AssignRead(r) \/ AssignSave(r)
  PROVE  Access!Next
<1>1. CASE OpenInsert(r)
  BY <1>1, OpenInsertKeeps, NoMorePower DEF Moves, OpenInsert, Orders, storeVars, redisVars
<1>2. CASE OpenOwn(r)
  BY <1>2, OpenOwnTurns, NoMorePower DEF Turns, Moves, OpenOwn, Orders, storeVars, redisVars
<1>3. CASE AssignRead(r)
  BY <1>3, AssignReadTurns, NoMorePower DEF Turns, Moves, AssignRead, Orders, storeVars, redisVars
<1>4. CASE AssignSave(r)
  BY <1>4, AssignSaveTurns, NoMorePower DEF Turns, Moves, AssignSave, Orders, storeVars, redisVars
<1> QED  BY <1>1, <1>2, <1>3, <1>4

LEMMA PowerOfFailure ==
  ASSUME IInv, NEW r \in Requests, Fail(r)
  PROVE  Access!Next
<1>1. /\ Others(r) /\ UNCHANGED <<row, session, pending>>
      /\ request'[r].at \in {"done", "reassign_list", "verify_set"}
  BY FailKeeps DEF Moves
<1>2. CASE request[r].at \in Orders
  <2>1. request'[r].at = "done"
    BY <1>2, FailKeeps DEF OnError, Orders
  <2> QED  BY <1>1, <1>2, <2>1, OrderEnds
<1>3. CASE request[r].at \notin Orders /\ request'[r].at # "verify_set"
  BY <1>1, <1>3, NoMorePower DEF Orders
<1>4. CASE request'[r].at = "verify_set"
  <2>1. /\ request[r].at = "verify_consume" /\ request'[r].about = request[r].about
        /\ request'[r].read = request[r].read /\ request[r].about \in Operators
    BY <1>4, FailKeeps, LocalsHere DEF Locals, AboutSteps
  <2>2. PICK o \in Operators : o = request[r].about
    BY <2>1
  <2>3. request[r].read.role \in Standing(o)
    BY <2>1, <2>2, StandingIs DEF Verified
  <2> QED  BY <1>1, <1>4, <2>1, <2>2, <2>3, OwnPower DEF Orders
<1> QED  BY <1>2, <1>3, <1>4

LEMMA PowerOfExpiry ==
  ASSUME IInv,
         \/ \E t \in Tokens : SessionExpires(t)
         \/ \E p \in Pendings : PendingExpires(p)
         \/ \E o \in Operators : IndexExpires(o)
         \/ UNCHANGED vars
  PROVE  Access!Next
<1>1. /\ row' = row /\ request' = request
      /\ \A t \in Tokens : session'[t] # None => session'[t] = session[t]
      /\ \A p \in Pendings : pending'[p] = pending[p] \/ pending'[p] = None
  <2>1. ASSUME NEW t \in Tokens, SessionExpires(t)
        PROVE  /\ UNCHANGED <<row, request, pending>>
               /\ \A u \in Tokens : session'[u] # None => session'[u] = session[u]
    BY <2>1, SessionEnds DEF SessionExpires, storeVars
  <2>2. ASSUME NEW p \in Pendings, PendingExpires(p)
        PROVE  /\ UNCHANGED <<row, request, session>>
               /\ \A x \in Pendings : pending'[x] = pending[x] \/ pending'[x] = None
    BY <2>2 DEF PendingExpires, storeVars, IInv, TypeOK
  <2>3. ASSUME NEW o \in Operators, IndexExpires(o)
        PROVE  UNCHANGED <<row, request, session, pending>>
    BY <2>3 DEF IndexExpires, storeVars
  <2>4. UNCHANGED vars => UNCHANGED <<row, request, session, pending>>
    BY DEF vars, storeVars, redisVars
  <2> QED  BY <2>1, <2>2, <2>3, <2>4
<1>2. ASSUME NEW o \in Operators
      PROVE  Standing(o)' \subseteq Standing(o)
  <2>1. o # None
    BY AccountsAssumption
  <2> QED  BY <1>1, <2>1, StandingShrinks
<1> QED  BY <1>1, <1>2, Lapses

(* Every step of the accounts is a step of OperatorAccess, or none. *)
LEMMA StepImplementsAccess ==
  ASSUME IInv, [Next]_vars
  PROVE  Access!Next
<1>1. ASSUME NEW r \in Requests, Step(r)
      PROVE  Access!Next
  BY <1>1, PowerOfLogin, PowerOfVerification, PowerOfAdministration, PowerOfConversations DEF Step
<1>2. CASE Rest
  BY <1>2, PowerOfExpiry DEF Rest
<1> QED  BY <1>1, <1>2, PowerOfArrival, PowerOfFailure, PowerOfExpiry DEF Next

(* Operators' accounts implement OperatorAccess: an operator gains power only
   by an order that an admin gave while his session stood (auth.go,
   operators.go, middleware.go). *)
THEOREM AccountsImplementAccess == Spec => ImplementsAccess
<1>1. Init => Access!Init
  <2> SUFFICES ASSUME Init
               PROVE  Access!Init
    OBVIOUS
  <2>1. Power \in [Operators -> {0, 1, 2}]
    BY LevelGrows DEF Power
  <2>2. Order = [r \in Requests |-> None]
    BY IdleState DEF Init, Order, OrderOf, Orders
  <2> QED  BY <2>1, <2>2, AccessIs
<1>2. IInv /\ [Next]_vars => [Access!Next]_(Access!vars)
  BY StepImplementsAccess
<1> QED  BY <1>1, <1>2, AccountsInvariant, PTL DEF Spec, Access!Spec, ImplementsAccess
=============================================================================
