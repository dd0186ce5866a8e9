--------------------------- MODULE SessionControl ---------------------------
(***************************************************************************)
(* SessionControl: the request handlers that drive SessionRepository, the  *)
(* Redis revocation keys they write after each commit, the access tokens   *)
(* they hand out, and the two places that accept those tokens (the API's   *)
(* authenticate and the Go gateway's checkRevocation).                     *)
(*                                                                         *)
(* A handler commits to PostgreSQL first and then issues its Redis calls   *)
(* one at a time, in order; other handlers run in between.  It may fail at *)
(* any point (crash, lost connection, Redis error): what was committed     *)
(* stays, the calls it still owed are never made, and nothing is returned. *)
(***************************************************************************)
EXTENDS SessionRepository

CONSTANTS
  AccessTTL,   \* ACCESS_TTL_SECONDS
  MaxLogins,   \* bound: session_ready workflows available to each user
  MaxFailures  \* bound: handlers that fail

ASSUME ControlAssumption ==
  /\ AccessTTL \in Nat \ {0}
  /\ MaxLogins \in Nat
  /\ MaxFailures \in Nat
  /\ IsFiniteSet(Fids)

VARIABLES
  userState,   \* users.state
  ready,       \* session_ready workflows of each user still in Redis
  req,         \* the handler each process is running
  access,      \* unexpired access tokens in the hands of clients
  held,        \* how many refresh tokens of a family its client received
  deniedJti,   \* auth:revocation:jti keys, with the time they expire
  deniedFamily,\* auth:revocation:family keys
  userRevoked, \* auth:revocation:user keys: issued-before time, or None
  orgRevoked,  \* auth:revocation:org keys: issued-before time, or None
  failures,    \* handlers that failed so far
  lost         \* observer: the Redis calls they still owed

faults == <<failures, lost>>
redis == <<deniedJti, deniedFamily, userRevoked, orgRevoked, faults>>
allVars == <<vars, userState, ready, req, access, held, redis>>

-----------------------------------------------------------------------------
(***************************************************************************)
(* Access tokens.  jti is the session-local access_jti, iat the handler's  *)
(* clock reading, org the workspace claim.                                 *)
(***************************************************************************)
AccessToken == [f : Fids, jti : Nat, iat : Nat, org : Orgs \cup {None}]

Owner(f) == family[f].user

\* The signature is valid and exp is in the future.
Unexpired(a) == clock < a.iat + AccessTTL

\* checkRevocation of the Go verifier, for a token of user u.
NotRevoked(a, u) ==
  /\ ~\E d \in deniedJti : d.f = a.f /\ d.jti = a.jti
  /\ a.f \notin deniedFamily
  /\ userRevoked[u] # None => a.iat > userRevoked[u]
  /\ a.org # None => (orgRevoked[u][a.org] # None => a.iat > orgRevoked[u][a.org])

GatewayAccepts(a) == Unexpired(a) /\ NotRevoked(a, Owner(a.f))

\* SessionControl.authenticate also asks the database.
ApiAccepts(a) == GatewayAccepts(a) /\ SessionIsActive(a.f, clock)

-----------------------------------------------------------------------------
(***************************************************************************)
(* Requests.  todo is the sequence of Redis calls still to make, grant the *)
(* access token to return and refreshed the refresh token that goes with   *)
(* it (its position in the family).                                        *)
(***************************************************************************)
Call ==
  [call : {"revoke_access_token"}, f : Fids, jti : Nat]
    \cup [call : {"revoke_family"}, f : Fids]
    \cup [call : {"revoke_user"}, user : Users, at : Nat]
    \cup [call : {"revoke_organization"}, user : Users, org : Orgs]

Request ==
  [pc : {"idle", "create", "creating", "logout", "revoke_selected", "logout_all",
         "logging_out", "suspended", "suspending", "scope", "redis"},
   user : Users \cup {None}, f : Fids \cup {None}, now : Nat, todo : Seq(Call),
   grant : AccessToken \cup {None}, refreshed : Nat]

Idle == [pc |-> "idle", user |-> None, f |-> None, now |-> 0, todo |-> << >>,
         grant |-> None, refreshed |-> 0]

DenyJti(f, jti) == [call |-> "revoke_access_token", f |-> f, jti |-> jti]
DenyFamily(f) == [call |-> "revoke_family", f |-> f]
DenyUser(u, at) == [call |-> "revoke_user", user |-> u, at |-> at]
DenyOrg(u, o) == [call |-> "revoke_organization", user |-> u, org |-> o]

Orderings(S) ==
  {s \in [1..Cardinality(S) -> S] : \A i, j \in DOMAIN s : i # j => s[i] # s[j]}

\* Mutant: the Redis calls are forgotten.
NoRevocation(order) == << >>

\* _apply_revocation for the families of a result, one after the other; the
\* database decides the order of the rows.
ApplyRevocation(order) ==
  [k \in 1..(2 * Len(order)) |->
     LET f == order[(k + 1) \div 2]
     IN  IF k % 2 = 1 THEN DenyJti(f, session[f].access_jti) ELSE DenyFamily(f)]

\* The handler has committed and owes the calls of todo before it returns grant.
Committed(p, todo, grant, refreshed) ==
  req' = [req EXCEPT ![p] = [@ EXCEPT !.pc = "redis", !.todo = todo, !.grant = grant,
                                      !.refreshed = refreshed]]

-----------------------------------------------------------------------------
(***************************************************************************)
(* create_session: consume the workflow, check the user, then create.      *)
(***************************************************************************)
CreateBegin(p, u) ==
  /\ req[p].pc = "idle"
  /\ ready[u] > 0
  /\ ready' = [ready EXCEPT ![u] = @ - 1]
  /\ req' = IF userState[u] = "active"
            THEN [req EXCEPT ![p] = [Idle EXCEPT !.pc = "create", !.user = u, !.now = clock]]
            ELSE req
  /\ UNCHANGED <<vars, userState, access, held, redis>>

CreateSelect(p) ==
  /\ req[p].pc = "create"
  /\ CreateSessionSelect(p, req[p].user, req[p].now)
  /\ req' = [req EXCEPT ![p] = [@ EXCEPT !.pc = "creating"]]
  /\ UNCHANGED <<userState, ready, access, held, redis>>

CreateCommit(p) ==
  /\ req[p].pc = "creating"
  /\ \E f \in Fids, d \in Devices, E \in SUBSET Fids :
       /\ CreateSessionCommit(p, f, d, E)
       /\ \E order \in Orderings(E) :
            Committed(p, ApplyRevocation(order),
                      [f |-> f, jti |-> 1, iat |-> req[p].now, org |-> None], 1)
  /\ UNCHANGED <<userState, ready, access, held, redis>>

(***************************************************************************)
(* refresh, with the i-th refresh token of f, presented by its client or   *)
(* by someone who copied it.  An INVALID token changes nothing.            *)
(***************************************************************************)
\* Mutant: the access token denied is the new one.
RefreshDeniesNew(p, f, i, d, n) ==
  /\ req[p].pc = "idle"
  /\ i <= held[f]
  /\ RotateRefreshToken(f, i, d, n)
  /\ Committed(p, << DenyJti(f, session[f].access_jti + 1) >>,
               [f |-> f, jti |-> session[f].access_jti + 1, iat |-> n, org |-> None],
               Len(token[f]) + 1)
  /\ UNCHANGED <<userState, ready, access, held, redis>>

Refresh(p, f, i, d, n) ==
  /\ req[p].pc = "idle"
  /\ i <= held[f]
  /\ \/ /\ RotateRefreshToken(f, i, d, n)
        /\ Committed(p, << DenyJti(f, session[f].access_jti) >>,
                     [f |-> f, jti |-> session[f].access_jti + 1, iat |-> n, org |-> None],
                     Len(token[f]) + 1)
     \/ /\ RefuseRotation(f, i, d, n)
        /\ Committed(p, ApplyRevocation(<< f >>), None, 0)
  /\ UNCHANGED <<userState, ready, access, held, redis>>

(***************************************************************************)
(* The authenticated handlers: authenticate first, act later.              *)
(***************************************************************************)
Authenticated == {"logout", "revoke_selected", "logout_all", "scope"}

Authenticate(p, a, handler) ==
  /\ req[p].pc = "idle"
  /\ ApiAccepts(a)
  /\ req' = [req EXCEPT ![p] = [Idle EXCEPT !.pc = handler, !.user = Owner(a.f), !.f = a.f]]
  /\ UNCHANGED <<vars, userState, ready, access, held, redis>>

Logout(p) ==
  /\ req[p].pc = "logout"
  /\ RevokeSession(req[p].f, "logout")
  /\ Committed(p, ApplyRevocation(<< req[p].f >>), None, 0)
  /\ UNCHANGED <<userState, ready, access, held, redis>>

\* revoke_selected ends the request when the session is not the caller's.
RevokeSelected(p, f) ==
  /\ req[p].pc = "revoke_selected"
  /\ \/ /\ Owner(f) = req[p].user
        /\ RevokeSession(f, "user_selected")
        /\ Committed(p, ApplyRevocation(<< f >>), None, 0)
     \/ /\ ~Exists(f) \/ Owner(f) # req[p].user
        /\ req' = [req EXCEPT ![p] = Idle]
        /\ UNCHANGED vars
  /\ UNCHANGED <<userState, ready, access, held, redis>>

\* logout_all, and revoke_user_access after a suspension.
RevokeUserSelect(p) ==
  /\ req[p].pc \in {"logout_all", "suspended"}
  /\ RevokeAllSelect(p, req[p].user)
  /\ req' = [req EXCEPT ![p] = [@ EXCEPT
                !.now = clock,
                !.pc = IF req[p].pc = "logout_all" THEN "logging_out" ELSE "suspending"]]
  /\ UNCHANGED <<userState, ready, access, held, redis>>

RevokeUserCommit(p) ==
  /\ req[p].pc \in {"logging_out", "suspending"}
  /\ RevokeAllCommit(p, IF req[p].pc = "logging_out" THEN "logout_all" ELSE "account_suspended")
  /\ \E order \in Orderings(RevokeAllRows(p)) :
       Committed(p, << DenyUser(req[p].user, req[p].now) >> \o ApplyRevocation(order), None, 0)
  /\ UNCHANGED <<userState, ready, access, held, redis>>

\* issue_workspace_scope; a session that is no longer active ends the request.
Scope(p, o, n) ==
  LET f == req[p].f IN
  /\ req[p].pc = "scope"
  /\ \/ /\ ScopeSession(f, o, n)
        /\ Committed(p, << DenyJti(f, session[f].access_jti) >>,
                     [f |-> f, jti |-> session[f].access_jti + 1, iat |-> n, org |-> o], 0)
     \/ /\ ~SessionIsActive(f, n)
        /\ req' = [req EXCEPT ![p] = Idle]
        /\ UNCHANGED vars
  /\ UNCHANGED <<userState, ready, access, held, redis>>

(***************************************************************************)
(* Handlers of other people: suspend_user, and offboard_member of the      *)
(* workspace control with revoke_organization_access after it.             *)
(***************************************************************************)
Suspend(p, u) ==
  /\ req[p].pc = "idle"
  /\ userState' = [userState EXCEPT ![u] = "suspended"]
  /\ req' = [req EXCEPT ![p] = [Idle EXCEPT !.pc = "suspended", !.user = u]]
  /\ UNCHANGED <<vars, ready, access, held, redis>>

\* Mutant: the organization key is relied on alone.
OffboardByKeyOnly(p, u, o) ==
  /\ req[p].pc = "idle"
  /\ OffboardSessions(u, o, clock)
  /\ Committed(p, << DenyOrg(u, o) >>, None, 0)
  /\ UNCHANGED <<userState, ready, access, held, redis>>

Offboard(p, u, o) ==
  /\ req[p].pc = "idle"
  /\ OffboardSessions(u, o, clock)
  /\ \E order \in Orderings(ScopedTo(u, o)) :
       Committed(p, << DenyOrg(u, o) >> \o
                    [k \in 1..Len(order) |-> DenyJti(order[k], session[order[k]].access_jti)],
                 None, 0)
  /\ UNCHANGED <<userState, ready, access, held, redis>>

\* restore_organization_access, after an accepted invitation.
Restore(u, o) ==
  /\ orgRevoked' = [orgRevoked EXCEPT ![u][o] = None]
  /\ UNCHANGED <<vars, userState, ready, req, access, held, deniedJti, deniedFamily, userRevoked,
                 faults>>

-----------------------------------------------------------------------------
(***************************************************************************)
(* The Redis calls.  Family, user and organization keys live 30 days, far  *)
(* longer than any token they match, so only jti keys expire here.         *)
(* revoke_organization_access reads the clock as it makes its first call.  *)
(***************************************************************************)
RedisCall(p) ==
  /\ req[p].pc = "redis"
  /\ req[p].todo # << >>
  /\ LET c == Head(req[p].todo) IN
     /\ deniedJti' = IF c.call = "revoke_access_token"
                     THEN {d \in deniedJti : d.f # c.f \/ d.jti # c.jti}
                          \cup {[f |-> c.f, jti |-> c.jti, until |-> clock + AccessTTL]}
                     ELSE deniedJti
     /\ deniedFamily' = IF c.call = "revoke_family" THEN deniedFamily \cup {c.f}
                                                    ELSE deniedFamily
     /\ userRevoked' = IF c.call = "revoke_user" THEN [userRevoked EXCEPT ![c.user] = c.at]
                                                 ELSE userRevoked
     /\ orgRevoked' = IF c.call = "revoke_organization"
                      THEN [orgRevoked EXCEPT ![c.user][c.org] = clock] ELSE orgRevoked
  /\ req' = [req EXCEPT ![p] = [@ EXCEPT !.todo = Tail(req[p].todo)]]
  /\ UNCHANGED <<vars, userState, ready, access, held, faults>>

Reply(p) ==
  /\ req[p].pc = "redis"
  /\ req[p].todo = << >>
  /\ access' = IF req[p].grant # None /\ Unexpired(req[p].grant)
               THEN access \cup {req[p].grant} ELSE access
  /\ held' = IF req[p].refreshed > 0 THEN [held EXCEPT ![req[p].grant.f] = req[p].refreshed]
                                     ELSE held
  /\ req' = [req EXCEPT ![p] = Idle]
  /\ UNCHANGED <<vars, userState, ready, redis>>

Fail(p) ==
  /\ failures < MaxFailures
  /\ req[p].pc # "idle"
  /\ req' = [req EXCEPT ![p] = Idle]
  /\ IF tx[p].op # "idle" THEN Rollback(p) ELSE UNCHANGED vars
  /\ failures' = failures + 1
  /\ lost' = lost \cup {req[p].todo[k] : k \in DOMAIN req[p].todo}
  /\ UNCHANGED <<userState, ready, access, held, deniedJti, deniedFamily, userRevoked, orgRevoked>>

\* Time passes: tokens and jti keys that expire are forgotten.  MaxLag bounds how
\* long a creation waits between its clock reading and its transaction.
Pass ==
  /\ Tick
  /\ \A p \in Txs : req[p].pc = "create" => clock < req[p].now + MaxLag
  /\ access' = {a \in access : clock' < a.iat + AccessTTL}
  /\ deniedJti' = {d \in deniedJti : clock' < d.until}
  /\ UNCHANGED <<userState, ready, req, held, deniedFamily, userRevoked, orgRevoked, faults>>

-----------------------------------------------------------------------------
ControlInit ==
  /\ Init
  /\ userState = [u \in Users |-> "active"]
  /\ ready = [u \in Users |-> MaxLogins]
  /\ req = [p \in Txs |-> Idle]
  /\ access = {}
  /\ held = [f \in Fids |-> 0]
  /\ deniedJti = {}
  /\ deniedFamily = {}
  /\ userRevoked = [u \in Users |-> None]
  /\ orgRevoked = [u \in Users |-> [o \in Orgs |-> None]]
  /\ failures = 0
  /\ lost = {}

Begin(p) ==
  \/ \E u \in Users : CreateBegin(p, u)
  \/ \E f \in Fids : \E i \in DOMAIN token[f], d \in Devices, n \in CallerNow :
       Refresh(p, f, i, d, n)
  \/ \E a \in access, h \in Authenticated : Authenticate(p, a, h)
  \/ \E u \in Users : Suspend(p, u)
  \/ \E u \in Users, o \in Orgs : Offboard(p, u, o)

\* The steps a handler takes once it has started.
Continue(p) ==
  \/ CreateSelect(p)
  \/ CreateCommit(p)
  \/ Logout(p)
  \/ \E f \in Fids : RevokeSelected(p, f)
  \/ RevokeUserSelect(p)
  \/ RevokeUserCommit(p)
  \/ \E o \in Orgs, n \in CallerNow : Scope(p, o, n)
  \/ RedisCall(p)
  \/ Reply(p)

ControlNext ==
  \/ \E p \in Txs : Begin(p) \/ Continue(p) \/ Fail(p)
  \/ \E u \in Users, o \in Orgs : Restore(u, o)
  \/ Pass

ControlSpec == ControlInit /\ [][ControlNext]_allVars

\* A started handler keeps running: the event loop resumes it after every await.
FairControlSpec == ControlSpec /\ \A p \in Txs : WF_allVars(Continue(p))

-----------------------------------------------------------------------------
ControlTypeOK ==
  /\ userState \in [Users -> {"active", "suspended"}]
  /\ ready \in [Users -> 0..MaxLogins]
  /\ access \subseteq AccessToken
  /\ held \in [Fids -> Nat]
  /\ deniedJti \subseteq [f : Fids, jti : Nat, until : Nat]
  /\ deniedFamily \subseteq Fids
  /\ userRevoked \in [Users -> Nat \cup {None}]
  /\ orgRevoked \in [Users -> [Orgs -> Nat \cup {None}]]
  /\ req \in [Txs -> Request]
  /\ failures \in 0..MaxFailures
  /\ lost \subseteq Call

\* Some handler still owes the Redis call that refuses a.
DenialPending(a) ==
  \E p \in Txs : \E k \in DOMAIN req[p].todo :
    req[p].todo[k] = DenyJti(a.f, a.jti) \/ req[p].todo[k] = DenyFamily(a.f)

\* A handler failed before it made that call.
DenialLost(a) == {DenyJti(a.f, a.jti), DenyFamily(a.f)} \cap lost # {}

\* A token whose session was revoked, rotated, rescoped or offboarded is refused by
\* the gateway, or a handler that is still running is about to make it so, or a handler
\* failed between its commit and the call that would have: nothing else lets a dead token
\* through, and the jti key lasts at least as long as the token.
DeadTokensAreDenied ==
  \A a \in access :
    GatewayAccepts(a) =>
      \/ Live(a.f) /\ session[a.f].access_jti = a.jti
      \/ DenialPending(a)
      \/ DenialLost(a)

\* The keys that name a family or a token never deny what the database still honours:
\* none of them, and no call still owed, refuses a live family or the current access token
\* of one.  The keys of a user or an organization go by the time of issue instead.  They do
\* refuse tokens of live sessions, the ones issued in the second of the revocation or
\* before it (iat <= revoked_at); but no key and no call is dated later than now, so that
\* nothing issued after the revocation is refused.
NoFalseDenial ==
  /\ \A f \in Fids : Live(f) =>
       /\ f \notin deniedFamily
       /\ \A d \in deniedJti : d.f = f => d.jti < session[f].access_jti
       /\ \A p \in Txs : \A k \in DOMAIN req[p].todo :
            /\ req[p].todo[k] # DenyFamily(f)
            /\ req[p].todo[k] # DenyJti(f, session[f].access_jti)
  /\ \A u \in Users :
       /\ userRevoked[u] # None => userRevoked[u] <= clock
       /\ \A o \in Orgs : orgRevoked[u][o] # None => orgRevoked[u][o] <= clock
       /\ \A p \in Txs : \A k \in DOMAIN req[p].todo :
            req[p].todo[k].call = "revoke_user" => req[p].todo[k].at <= clock

\* Once a family is revoked the gateway comes to refuse all its access tokens, the
\* ones still being returned by other handlers included, and stays so; unless a handler
\* failed before a call it owed.
RevocationReachesGateway ==
  \/ \A f \in Fids :
       family[f].status = "revoked" ~> [](\A a \in access : a.f = f => ~GatewayAccepts(a))
  \/ <>(lost # {})

\* With no request running, a suspended user has no session that could be used.
SuspendedIsLockedOut ==
  (\A p \in Txs : req[p].pc = "idle") =>
    \A u \in Users : userState[u] = "suspended" => Unrevoked(u) = {}
=============================================================================
