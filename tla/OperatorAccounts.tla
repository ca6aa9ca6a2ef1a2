--------------------------- MODULE OperatorAccounts ---------------------------
(***************************************************************************)
(* Operators' accounts, their sessions of the panel and the conversations  *)
(* they own (backend/internal/api/auth.go, operators.go, middleware.go, the*)
(* owner handlers of sessions.go, auth/session.go, operator_repository.go).*)
(*                                                                         *)
(* An operator is a row of Postgres, always written whole; a session of    *)
(* the panel is a token in Redis, listed in an index of its operator.  The *)
(* two stores share no transaction: a handler is a chain of statements and *)
(* commands, one action each, and the handlers of concurrent requests      *)
(* interleave between them.                                                *)
(*                                                                         *)
(* Names, passwords and codes are left out: a wrong one ends the request   *)
(* and changes nothing.  The audit entries these handlers end with, which  *)
(* nothing here reads, are left out as well.                               *)
(***************************************************************************)
EXTENDS Naturals, FiniteSets

CONSTANTS
  Operators,   \* rows of the operators table
  Accounts,    \* the rows at the start
  Seats,       \* the session token each operator is logged in with at the start
  Awaiting,    \* the operator of each pending token at the start
  Invitations, \* the accounts admins create, as <<operator, role>>
  Tokens,      \* session tokens, each issued at most once
  Pendings,    \* pending tokens of the first login step, each issued at most once
  Sessions,    \* conversations
  Requests,    \* requests made, each a slot of its own
  MaxSecrets,  \* how many TOTP secrets are generated
  Mixes,       \* bound: what happens in one behaviour (see Mix)
  None

Kinds == {"login", "verify", "logout", "create", "update", "open", "assign"}
Roles == {"admin", "operator"}
Statuses == {"invited", "active", "suspended", "disabled"}
PatchStatuses == {"active", "suspended", "disabled"}
Row == [status : Statuses \cup {"absent"}, role : Roles, secret : 0..MaxSecrets]
Absent == [status |-> "absent", role |-> "operator", secret |-> 0]
(* What a behaviour consists of: the kinds of request made, the changes admins
   ask for ("same" for a field left out), in how many requests a statement or
   command fails, and whether keys of Redis expire. *)
Patch == [status : PatchStatuses \cup {"same"}, role : Roles \cup {"same"}]
Mix == [kinds : SUBSET Kinds, patches : SUBSET Patch, failures : Nat, expiries : BOOLEAN]
SessionData == [operator : Operators, role : Roles]

ASSUME AccountsAssumption ==
  /\ MaxSecrets \in Nat /\ Mixes \subseteq Mix
  /\ None \notin Operators \cup Tokens \cup Pendings \cup Sessions
  /\ None \notin SessionData /\ None \notin Operators \X Operators
  /\ Accounts \in [Operators -> Row] /\ IsFiniteSet(Operators)
  /\ Cardinality({o \in Operators : Accounts[o].secret # 0}) <= MaxSecrets
  /\ Seats \in [Operators -> Tokens \cup {None}]
  /\ Awaiting \in [Pendings -> Operators \cup {None}]
  /\ Invitations \subseteq Operators \X Roles
  /\ \A o, p \in Operators : o # p /\ Seats[o] # None => Seats[o] # Seats[p]

VARIABLES
  row,      \* the operators table; secret 0 is NULL
  secrets,  \* TOTP secrets generated so far
  session,  \* Redis: what each session token is worth, None if nothing
  index,    \* Redis: the set of tokens kept for each operator
  ttl,      \* the tokens issued before the index's last EXPIRE, None if it has no TTL
  pending,  \* Redis: the operator of each pending token, None if nothing
  issued,   \* tokens generated so far, of either kind
  exists,   \* conversations created
  owner,    \* owner_operator_id of each conversation
  request,  \* the requests
  mix,      \* what may happen
  overlapped \* history: tokens during whose creation their operator's index was
             \* being revoked or expired, or whose creation failed half-way

storeVars == <<row, secrets>>
redisVars == <<session, index, ttl, pending, issued>>
ownerVars == <<exists, owner>>
vars == <<mix, storeVars, redisVars, ownerVars, request, overlapped>>

Steps == {"idle", "login_read", "login_save", "login_pending",
          "verify_pending", "verify_read", "verify_consume", "verify_set", "verify_index",
          "verify_expire", "verify_activate",
          "create_insert", "update_read", "update_save", "revoke_list", "revoke_each", "revoke_index",
          "reassign_list", "reassign_find", "reassign_each",
          "open_insert", "open_own", "assign_read", "assign_save", "done"}

(***************************************************************************)
(* A request keeps the local variables of its handler: who makes it (the   *)
(* SessionData requireAuth found), whom it is about, the row it read, the  *)
(* tokens and conversations still to be worked through, and so on.         *)
(***************************************************************************)
Idle == [at |-> "idle", by |-> None, role |-> "operator", about |-> None, read |-> Absent,
         token |-> None, pend |-> None, status |-> "same", newRole |-> "same",
         tokens |-> {}, convs |-> {}, admin |-> None, conv |-> None, to |-> None,
         settled |-> {}, failed |-> FALSE]

TypeOK ==
  /\ mix \in Mixes
  /\ row \in [Operators -> Row] /\ secrets \in 0..MaxSecrets
  /\ session \in [Tokens -> SessionData \cup {None}]
  /\ index \in [Operators -> SUBSET Tokens]
  /\ ttl \in [Operators -> (SUBSET Tokens) \cup {None}]
  /\ pending \in [Pendings -> Operators \cup {None}]
  /\ issued \subseteq Tokens \cup Pendings
  /\ exists \subseteq Sessions /\ owner \in [Sessions -> Operators \cup {None}]
  /\ overlapped \subseteq Tokens
  /\ request \in [Requests ->
       [at : Steps, by : Operators \cup {None}, role : Roles, about : Operators \cup {None},
        read : Row, token : Tokens \cup {None}, pend : Pendings \cup {None},
        status : PatchStatuses \cup {"same"}, newRole : Roles \cup {"same"},
        tokens : SUBSET Tokens, convs : SUBSET Sessions, admin : Operators \cup {None},
        conv : Sessions \cup {None}, to : Operators \cup {None},
        settled : SUBSET Tokens, failed : BOOLEAN]]

Seated == {Seats[o] : o \in Operators} \ {None}

(* Some operators are logged in, some have given their password. *)
Init ==
  /\ row = Accounts /\ secrets = Cardinality({o \in Operators : Accounts[o].secret # 0})
  /\ session = [t \in Tokens |->
       IF t \in Seated
       THEN LET o == CHOOSE p \in Operators : Seats[p] = t
            IN [operator |-> o, role |-> Accounts[o].role]
       ELSE None]
  /\ index = [o \in Operators |-> {Seats[o]} \ {None}]
  /\ ttl = [o \in Operators |-> IF Seats[o] = None THEN None ELSE Seated]
  /\ pending = Awaiting /\ issued = Seated \cup {p \in Pendings : Awaiting[p] # None}
  /\ exists = {} /\ owner = [s \in Sessions |-> None]
  /\ request = [r \in Requests |-> Idle] /\ mix \in Mixes
  /\ overlapped = {}

At(r, step) == request[r].at = step
(* What a request leaves behind: its session token, the conversation it opened
   or was to hand over, and what the properties remember of it. *)
Over(q) == [Idle EXCEPT !.at = "done", !.token = q.token, !.conv = q.conv, !.to = q.to,
                        !.settled = q.settled, !.failed = q.failed]
Onward(q, step) == IF step = "done" THEN Over(q) ELSE [q EXCEPT !.at = step]
Go(r, step) == request' = [request EXCEPT ![r] = Onward(@, step)]
Live == {t \in Tokens : session[t] # None}
LiveOf(o) == {t \in Live : session[t].operator = o}
(* A session token is being created for o / the index of o is being revoked. *)
Creating(o) == {request[r].token : r \in {q \in Requests :
                  /\ request[q].at \in {"verify_index", "verify_expire"}
                  /\ request[q].about = o}}
Revoking(o) == \E r \in Requests :
                  request[r].at \in {"revoke_each", "revoke_index"} /\ request[r].about = o

-------------------------------------------------------------------------------
(***************************************************************************)
(* Login: password, then code (auth.go).                                   *)
(***************************************************************************)
Login(r, o) ==
  /\ "login" \in mix.kinds /\ At(r, "idle") /\ row[o].status # "absent"
  /\ request' = [request EXCEPT ![r] = [Idle EXCEPT !.at = "login_read", !.about = o]]
  /\ UNCHANGED <<mix, storeVars, redisVars, ownerVars, overlapped>>

LoginReadAnyStatus(r) ==  \* mutant
  /\ At(r, "login_read")
  /\ LET o == row[request[r].about] IN
     request' = [request EXCEPT ![r] = Onward([@ EXCEPT !.read = o],
       IF o.secret = 0 THEN "login_save" ELSE "login_pending")]
  /\ UNCHANGED <<mix, storeVars, redisVars, ownerVars, overlapped>>

LoginRead(r) ==
  /\ At(r, "login_read")
  /\ LET o == row[request[r].about] IN
     request' = [request EXCEPT ![r] = Onward([@ EXCEPT !.read = o],
       IF o.status \in {"disabled", "suspended"} THEN "done"
       ELSE IF o.secret = 0 THEN "login_save" ELSE "login_pending")]
  /\ UNCHANGED <<mix, storeVars, redisVars, ownerVars, overlapped>>

(* A secret is generated and the row read above is written back with it. *)
LoginSave(r) ==
  /\ At(r, "login_save") /\ secrets < MaxSecrets
  /\ secrets' = secrets + 1
  /\ row' = [row EXCEPT ![request[r].about] = [request[r].read EXCEPT !.secret = secrets']]
  /\ request' = [request EXCEPT ![r].at = "login_pending"]
  /\ UNCHANGED <<mix, redisVars, ownerVars, overlapped>>

LoginPending(r) ==
  /\ At(r, "login_pending")
  /\ \E p \in Pendings \ issued :
       /\ pending' = [pending EXCEPT ![p] = request[r].about]
       /\ issued' = issued \cup {p}
  /\ Go(r, "done")
  /\ UNCHANGED <<mix, storeVars, session, index, ttl, ownerVars, overlapped>>

Verify(r, p) ==
  /\ "verify" \in mix.kinds /\ At(r, "idle") /\ p \in issued
  /\ request' = [request EXCEPT ![r] = [Idle EXCEPT !.at = "verify_pending", !.pend = p]]
  /\ UNCHANGED <<mix, storeVars, redisVars, ownerVars, overlapped>>

VerifyPending(r) ==
  /\ At(r, "verify_pending")
  /\ LET o == pending[request[r].pend] IN
     request' = [request EXCEPT ![r] = Onward([@ EXCEPT !.about = o],
       IF o = None THEN "done" ELSE "verify_read")]
  /\ UNCHANGED <<mix, storeVars, redisVars, ownerVars, overlapped>>

VerifyRead(r) ==
  /\ At(r, "verify_read")
  /\ LET o == row[request[r].about] IN
     request' = [request EXCEPT ![r] = Onward([@ EXCEPT !.read = o],
       IF o.secret = 0 THEN "done" ELSE "verify_consume")]
  /\ UNCHANGED <<mix, storeVars, redisVars, ownerVars, overlapped>>

VerifyConsume(r) ==
  /\ At(r, "verify_consume")
  /\ pending' = [pending EXCEPT ![request[r].pend] = None]
  /\ Go(r, "verify_set")
  /\ UNCHANGED <<mix, storeVars, session, index, ttl, issued, ownerVars, overlapped>>

VerifySet(r) ==
  /\ At(r, "verify_set")
  /\ \E t \in Tokens \ issued :
       /\ session' = [session EXCEPT ![t] = [operator |-> request[r].about,
                                             role |-> request[r].read.role]]
       /\ issued' = issued \cup {t}
       /\ request' = [request EXCEPT ![r].at = "verify_index", ![r].token = t]
       /\ overlapped' = IF Revoking(request[r].about) THEN overlapped \cup {t} ELSE overlapped
  /\ UNCHANGED <<mix, storeVars, index, ttl, pending, ownerVars>>

VerifyIndex(r) ==
  /\ At(r, "verify_index")
  /\ index' = [index EXCEPT ![request[r].about] = @ \cup {request[r].token}]
  /\ Go(r, "verify_expire")
  /\ UNCHANGED <<mix, storeVars, session, ttl, pending, issued, ownerVars, overlapped>>

(* EXPIRE does nothing to a key that does not exist. *)
VerifyExpire(r) ==
  /\ At(r, "verify_expire")
  /\ LET o == request[r].about IN
     ttl' = IF index[o] = {} THEN ttl ELSE [ttl EXCEPT ![o] = issued \cap Tokens]
  /\ Go(r, IF request[r].read.status = "invited" THEN "verify_activate" ELSE "done")
  /\ UNCHANGED <<mix, storeVars, session, index, pending, issued, ownerVars, overlapped>>

(* The row read before the code was checked is written back as active. *)
VerifyActivate(r) ==
  /\ At(r, "verify_activate")
  /\ row' = [row EXCEPT ![request[r].about] = [request[r].read EXCEPT !.status = "active"]]
  /\ Go(r, "done")
  /\ UNCHANGED <<mix, secrets, redisVars, ownerVars, overlapped>>

(* The tokens their operators know: those a request has answered with. *)
Granted == (Seated \cup {request[r].token : r \in {q \in Requests : At(q, "done")}}) \ {None}

(* requireAuth: the request carries a live session and copies its data. *)
Authorised(t) == t \in Live \cap Granted
As(t, step) == [Idle EXCEPT !.at = step, !.by = session[t].operator, !.role = session[t].role]

Logout(r, t) ==
  /\ "logout" \in mix.kinds /\ At(r, "idle") /\ Authorised(t)
  /\ session' = [session EXCEPT ![t] = None]
  /\ request' = [request EXCEPT ![r] = As(t, "done")]
  /\ UNCHANGED <<mix, storeVars, index, ttl, pending, issued, ownerVars, overlapped>>

-------------------------------------------------------------------------------
(***************************************************************************)
(* Administration of accounts (operators.go), behind requireAdmin.         *)
(***************************************************************************)
CreateOperator(r, t, o, role) ==
  /\ "create" \in mix.kinds /\ At(r, "idle") /\ Authorised(t) /\ session[t].role = "admin"
  /\ request' = [request EXCEPT ![r] = [As(t, "create_insert") EXCEPT !.about = o, !.newRole = role]]
  /\ UNCHANGED <<mix, storeVars, redisVars, ownerVars, overlapped>>

(* The login is unique: the INSERT of one that exists fails. *)
CreateInsert(r) ==
  /\ At(r, "create_insert")
  /\ LET o == request[r].about IN
     row' = IF row[o].status # "absent" THEN row
            ELSE [row EXCEPT ![o] = [status |-> "invited", role |-> request[r].newRole, secret |-> 0]]
  /\ Go(r, "done")
  /\ UNCHANGED <<mix, secrets, redisVars, ownerVars, overlapped>>

UpdateOperator(r, t, o, patch) ==
  /\ "update" \in mix.kinds /\ At(r, "idle") /\ Authorised(t) /\ session[t].role = "admin"
  /\ request' = [request EXCEPT ![r] = [As(t, "update_read") EXCEPT
                   !.about = o, !.status = patch.status, !.newRole = patch.role]]
  /\ UNCHANGED <<mix, storeVars, redisVars, ownerVars, overlapped>>

UpdateRead(r) ==
  /\ At(r, "update_read")
  /\ LET o == row[request[r].about] IN
     request' = [request EXCEPT ![r] = Onward([@ EXCEPT !.read = o],
       IF o.status = "absent" THEN "done" ELSE "update_save")]
  /\ UNCHANGED <<mix, storeVars, redisVars, ownerVars, overlapped>>

UpdateSaveOmitted(r) ==  \* mutant
  /\ At(r, "update_save")
  /\ LET q == request[r]
     IN /\ row' = [row EXCEPT ![q.about] =
                     [status |-> q.status, role |-> q.newRole, secret |-> q.read.secret]]
        /\ Go(r, IF q.status = "disabled" THEN "revoke_list" ELSE "done")
  /\ UNCHANGED <<mix, secrets, redisVars, ownerVars, overlapped>>

UpdateSave(r) ==
  /\ At(r, "update_save")
  /\ LET q == request[r]
         disabling == q.status = "disabled" /\ q.read.status # "disabled"
     IN /\ row' = [row EXCEPT ![q.about] =
                     [status |-> IF q.status = "same" THEN q.read.status ELSE q.status,
                      role |-> IF q.newRole = "same" THEN q.read.role ELSE q.newRole,
                      secret |-> q.read.secret]]
        /\ Go(r, IF disabling THEN "revoke_list" ELSE "done")
  /\ UNCHANGED <<mix, secrets, redisVars, ownerVars, overlapped>>

(* SMEMBERS.  "settled" remembers the sessions whose creation was over. *)
RevokeList(r) ==
  /\ At(r, "revoke_list")
  /\ LET o == request[r].about IN
     /\ request' = [request EXCEPT ![r].at = "revoke_each", ![r].tokens = index[o],
                                   ![r].settled = LiveOf(o) \ Creating(o)]
     /\ overlapped' = overlapped \cup Creating(o)
  /\ UNCHANGED <<mix, storeVars, redisVars, ownerVars>>

RevokeFirstOnly(r) ==  \* mutant
  /\ At(r, "revoke_each")
  /\ IF request[r].tokens = {}
     THEN Go(r, "revoke_index") /\ UNCHANGED session
     ELSE \E t \in request[r].tokens :
            /\ session' = [session EXCEPT ![t] = None]
            /\ Go(r, "revoke_index")
  /\ UNCHANGED <<mix, storeVars, index, ttl, pending, issued, ownerVars, overlapped>>

RevokeEach(r) ==
  /\ At(r, "revoke_each")
  /\ IF request[r].tokens = {}
     THEN Go(r, "revoke_index") /\ UNCHANGED session
     ELSE \E t \in request[r].tokens :
            /\ session' = [session EXCEPT ![t] = None]
            /\ request' = [request EXCEPT ![r].tokens = @ \ {t}]
  /\ UNCHANGED <<mix, storeVars, index, ttl, pending, issued, ownerVars, overlapped>>

RevokeIndex(r) ==
  /\ At(r, "revoke_index")
  /\ index' = [index EXCEPT ![request[r].about] = {}]
  /\ ttl' = [ttl EXCEPT ![request[r].about] = None]
  /\ Go(r, "reassign_list")
  /\ UNCHANGED <<mix, storeVars, session, pending, issued, ownerVars, overlapped>>

ReassignList(r) ==
  /\ At(r, "reassign_list")
  /\ request' = [request EXCEPT ![r].at = "reassign_find",
                                ![r].convs = {s \in exists : owner[s] = request[r].about}]
  /\ UNCHANGED <<mix, storeVars, redisVars, ownerVars, overlapped>>

ActiveAdmins == {o \in Operators : row[o].role = "admin" /\ row[o].status = "active"}

ReassignToNobody(r) ==  \* mutant
  /\ At(r, "reassign_find")
  /\ \E a \in IF ActiveAdmins = {} THEN {None} ELSE ActiveAdmins :
       request' = [request EXCEPT ![r].at = "reassign_each", ![r].admin = a]
  /\ UNCHANGED <<mix, storeVars, redisVars, ownerVars, overlapped>>

(* The rows come newest first; any active admin may be the first of them. *)
ReassignFind(r) ==
  /\ At(r, "reassign_find")
  /\ IF ActiveAdmins = {} THEN Go(r, "done")
     ELSE \E a \in ActiveAdmins :
            request' = [request EXCEPT ![r].at = "reassign_each", ![r].admin = a]
  /\ UNCHANGED <<mix, storeVars, redisVars, ownerVars, overlapped>>

ReassignEach(r) ==
  /\ At(r, "reassign_each")
  /\ IF request[r].convs = {}
     THEN Go(r, "done") /\ UNCHANGED owner
     ELSE \E s \in request[r].convs :
            /\ owner' = [owner EXCEPT ![s] = request[r].admin]
            /\ request' = [request EXCEPT ![r].convs = @ \ {s}]
  /\ UNCHANGED <<mix, storeVars, redisVars, exists, overlapped>>

-------------------------------------------------------------------------------
(***************************************************************************)
(* Conversations and their owners (sessions.go).                           *)
(***************************************************************************)
OpenConversation(r, t) ==
  /\ "open" \in mix.kinds /\ At(r, "idle") /\ Authorised(t)
  /\ \E s \in Sessions \ (exists \cup {request[q].conv : q \in Requests}) :
       request' = [request EXCEPT ![r] = [As(t, "open_insert") EXCEPT !.conv = s]]
  /\ UNCHANGED <<mix, storeVars, redisVars, ownerVars, overlapped>>

OpenInsert(r) ==
  /\ At(r, "open_insert")
  /\ exists' = exists \cup {request[r].conv}
  /\ Go(r, "open_own")
  /\ UNCHANGED <<mix, storeVars, redisVars, owner, overlapped>>

OpenOwn(r) ==
  /\ At(r, "open_own")
  /\ owner' = [owner EXCEPT ![request[r].conv] = request[r].by]
  /\ Go(r, "done")
  /\ UNCHANGED <<mix, storeVars, redisVars, exists, overlapped>>

AssignOwner(r, t, s, o) ==
  /\ "assign" \in mix.kinds /\ At(r, "idle") /\ Authorised(t)
  /\ s \in exists /\ row[o].status # "absent"
  /\ request' = [request EXCEPT ![r] = [As(t, "assign_read") EXCEPT !.conv = s, !.to = o]]
  /\ UNCHANGED <<mix, storeVars, redisVars, ownerVars, overlapped>>

CanAccess(r) == request[r].role = "admin" \/ owner[request[r].conv] = request[r].by

AssignRead(r) ==
  /\ At(r, "assign_read")
  /\ Go(r, IF CanAccess(r) THEN "assign_save" ELSE "done")
  /\ UNCHANGED <<mix, storeVars, redisVars, ownerVars, overlapped>>

AssignSave(r) ==
  /\ At(r, "assign_save")
  /\ owner' = [owner EXCEPT ![request[r].conv] = request[r].to]
  /\ Go(r, "done")
  /\ UNCHANGED <<mix, storeVars, redisVars, exists, overlapped>>

-------------------------------------------------------------------------------
(***************************************************************************)
(* Failures and expiries.                                                  *)
(***************************************************************************)

(* Where a handler goes on when the statement or command of a step fails:
   some errors are only logged. *)
OnError(step) ==
  CASE step = "verify_consume" -> "verify_set"
    [] step \in {"revoke_list", "revoke_each", "revoke_index"} -> "reassign_list"
    [] OTHER -> "done"

Fail(r) ==
  /\ request[r].at \notin {"idle", "done"}
  /\ Cardinality({q \in Requests \ {r} : request[q].failed}) < mix.failures
  /\ LET q == [request[r] EXCEPT !.failed = TRUE, !.settled = {}]
         incomplete == q.at \in {"verify_index", "verify_expire"}
     IN /\ request' = [request EXCEPT ![r] =
                Onward(IF incomplete THEN [q EXCEPT !.token = None] ELSE q, OnError(q.at))]
        /\ overlapped' = overlapped \cup IF incomplete THEN {q.token} ELSE {}
  /\ UNCHANGED <<mix, storeVars, redisVars, ownerVars>>

SessionExpires(t) ==
  /\ mix.expiries /\ t \in Live
  /\ session' = [session EXCEPT ![t] = None]
  /\ UNCHANGED <<mix, storeVars, index, ttl, pending, issued, ownerVars, request, overlapped>>

PendingExpires(p) ==
  /\ mix.expiries /\ pending[p] # None
  /\ pending' = [pending EXCEPT ![p] = None]
  /\ UNCHANGED <<mix, storeVars, session, index, ttl, issued, ownerVars, request, overlapped>>

(* The index and a session live equally long: the index goes only after every
   session that was issued before its TTL was last set. *)
IndexExpires(o) ==
  /\ mix.expiries /\ ttl[o] # None
  /\ ttl[o] \cap LiveOf(o) = {}
  /\ index' = [index EXCEPT ![o] = {}]
  /\ ttl' = [ttl EXCEPT ![o] = None]
  /\ overlapped' = overlapped \cup Creating(o)
  /\ UNCHANGED <<mix, storeVars, session, pending, issued, ownerVars, request>>

Step(r) ==
  \/ LoginRead(r) \/ LoginSave(r) \/ LoginPending(r)
  \/ VerifyPending(r) \/ VerifyRead(r) \/ VerifyConsume(r) \/ VerifySet(r)
  \/ VerifyIndex(r) \/ VerifyExpire(r) \/ VerifyActivate(r)
  \/ CreateInsert(r) \/ UpdateRead(r) \/ UpdateSave(r)
  \/ RevokeList(r) \/ RevokeEach(r) \/ RevokeIndex(r)
  \/ ReassignList(r) \/ ReassignFind(r) \/ ReassignEach(r)
  \/ OpenInsert(r) \/ OpenOwn(r) \/ AssignRead(r) \/ AssignSave(r)

Arrive(r) ==
  \/ \E o \in Operators : Login(r, o)
  \/ \E p \in Pendings : Verify(r, p)
  \/ \E t \in Tokens :
       \/ Logout(r, t) \/ OpenConversation(r, t)
       \/ \E i \in Invitations : CreateOperator(r, t, i[1], i[2])
       \/ \E o \in Operators :
            \/ \E patch \in mix.patches : UpdateOperator(r, t, o, patch)
            \/ \E s \in Sessions : AssignOwner(r, t, s, o)

(* The bounds on secrets and tokens stop a request. *)
Spent(r) ==
  \/ At(r, "login_save") /\ secrets = MaxSecrets
  \/ At(r, "login_pending") /\ Pendings \subseteq issued
  \/ At(r, "verify_set") /\ Tokens \subseteq issued

(* Nobody asks for anything, and what has begun is over. *)
Rest ==
  /\ \A r \in Requests : request[r].at \in {"idle", "done"} \/ Spent(r)
  /\ UNCHANGED vars

Next ==
  \/ \E r \in Requests : Arrive(r) \/ Step(r) \/ Fail(r)
  \/ \E t \in Tokens : SessionExpires(t)
  \/ \E p \in Pendings : PendingExpires(p)
  \/ \E o \in Operators : IndexExpires(o)
  \/ Rest

Spec == Init /\ [][Next]_vars
-------------------------------------------------------------------------------
(***************************************************************************)
(* Properties                                                              *)
(***************************************************************************)
Revoked(r) ==
  /\ request[r].at \in {"reassign_list", "reassign_find", "reassign_each", "done"}
  /\ ~request[r].failed

(* Disabling an operator leaves none of his sessions alive whose creation was
   over when the index was read and met neither a revocation nor the expiry of
   the index (session.go:88-106 against session.go:37-61). *)
RevokedAreGone ==
  \A r \in Requests : Revoked(r) => request[r].settled \cap Live \subseteq overlapped

(***************************************************************************)
(* What still stands for operator o, and the role it would give him: a row *)
(* that lets him log in; a live session; a first login step that is over,  *)
(* which is not asked again whether he is disabled; and a row read before  *)
(* that will be written back whole (LoginSave, VerifyActivate).            *)
(***************************************************************************)
Verified(q) == q.at \in {"verify_consume", "verify_set"}
               \/ (q.read.status = "invited" /\ q.at \in {"verify_index", "verify_expire", "verify_activate"})
Standing(o) ==
  {row[x].role : x \in {y \in {o} : row[y].status \in {"invited", "active"}}}
  \cup {session[t].role : t \in LiveOf(o)}
  \cup {row[o].role : p \in {x \in Pendings : pending[x] = o}}
  \cup {row[o].role : r \in {x \in Requests :
         request[x].about = o /\ request[x].at \in {"login_pending", "verify_read"}}}
  \cup {request[r].read.role : r \in {x \in Requests :
         request[x].about = o /\ (request[x].at = "login_save" \/ Verified(request[x]))}}

Level(roles) == IF "admin" \in roles THEN 2 ELSE IF "operator" \in roles THEN 1 ELSE 0
Orders == {"create_insert", "update_read", "update_save"}

Access == INSTANCE OperatorAccess WITH
  Nobody <- None,
  power <- [o \in Operators |-> Level(Standing(o))],
  order <- [r \in Requests |-> IF request[r].at \in Orders
                               THEN <<request[r].by, request[r].about>> ELSE None]

(* Whatever an operator may still do, by his row, a session that outlived it,
   a half-finished login or a stale copy of the row about to be written back,
   it becomes more only by an update or creation that an admin asked for while
   his session stood (see OperatorAccess). *)
ImplementsAccess == Access!Spec

(* A conversation is without an owner only between the two statements that
   open it, or when the second failed (sessions.go:339-347). *)
OwnedOnceOpen ==
  \A s \in exists : owner[s] = None =>
    \E r \in Requests :
      /\ request[r].conv = s /\ request[r].to = None
      /\ At(r, "open_own") \/ request[r].failed

=============================================================================
