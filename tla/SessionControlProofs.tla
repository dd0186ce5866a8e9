------------------------ MODULE SessionControlProofs ------------------------
(***************************************************************************)
(* The handlers of SessionControl only ever move the database by the       *)
(* transactions of SessionRepository, so everything proved about the       *)
(* repository holds under them, with any number of concurrent and failing  *)
(* handlers.                                                               *)
(***************************************************************************)
EXTENDS SessionControl, SessionRepositoryProofs

CarriesUser == {"create", "creating", "logout_all", "logging_out", "suspended", "suspending"}

\* What a request carries between its steps, at time c: the user or the session it
\* was started for, and a clock reading at most MaxLag old.
GoodRequest(r, c) ==
  /\ r \in Request
  /\ r.pc \in CarriesUser => r.user \in Users
  /\ r.pc \in {"logout", "scope"} => r.f \in Fids
  /\ r.pc = "create" => r.now \in 0..c /\ r.now + MaxLag >= c

\* Every family, and every creation that is open, has an owner.
Owners ==
  /\ \A f \in Fids : Exists(f) => family[f].user \in Users
  /\ \A t \in Txs : tx[t].op = "create_session" => tx[t].user \in Users

GoodRequests ==
  /\ DOMAIN req = Txs /\ req = [p \in Txs |-> req[p]]
  /\ \A p \in Txs : GoodRequest(req[p], clock)

ControlInv ==
  /\ Owners
  /\ access \subseteq AccessToken
  /\ GoodRequests

\* Every step of a handler is a step of the repository or leaves it alone.
LEMMA HandlersUseTransactions ==
  RowsInv /\ ControlInv /\ [ControlNext]_allVars => [Next]_vars
<1> SUFFICES ASSUME RowsInv, ControlInv, [ControlNext]_allVars PROVE [Next]_vars
  OBVIOUS
<1>1. clock \in CallerNow
  BY LimitsAssumption DEF CallerNow, RowsInv, TypeOK
<1>2. ASSUME NEW p \in Txs, Begin(p) PROVE [Next]_vars
  <2>1. ASSUME NEW u \in Users, CreateBegin(p, u) PROVE [Next]_vars
    BY <2>1 DEF CreateBegin
  <2>2. ASSUME NEW f \in Fids, NEW i \in DOMAIN token[f], NEW d \in Devices,
               NEW n \in CallerNow, Refresh(p, f, i, d, n)
        PROVE  [Next]_vars
    BY <2>2 DEF Refresh, Next, Rotate
  <2>3. ASSUME NEW a \in access, NEW h \in Authenticated, Authenticate(p, a, h)
        PROVE  [Next]_vars
    BY <2>3 DEF Authenticate
  <2>4. ASSUME NEW u \in Users, Suspend(p, u) PROVE [Next]_vars
    BY <2>4 DEF Suspend
  <2>5. ASSUME NEW u \in Users, NEW o \in Orgs, Offboard(p, u, o)
        PROVE  [Next]_vars
    BY <1>1, <2>5 DEF Offboard, Next, Rescope
  <2>6. QED
    BY <1>2, <2>1, <2>2, <2>3, <2>4, <2>5 DEF Begin
<1>3. ASSUME NEW p \in Txs, Continue(p) PROVE [Next]_vars
  <2>1. CASE CreateSelect(p)
    <3>1. req[p].user \in Users /\ req[p].now \in CallerNow
      BY <2>1 DEF CreateSelect, ControlInv, GoodRequests, GoodRequest, CarriesUser, CallerNow
    <3>2. CreateSessionSelect(p, req[p].user, req[p].now)
      BY <2>1 DEF CreateSelect
    <3>3. QED
      BY <3>1, <3>2 DEF Next, Create
  <2>2. CASE CreateCommit(p)
    BY <2>2 DEF CreateCommit, Next, Create
  <2>3. CASE Logout(p)
    <3>1. req[p].f \in Fids /\ RevokeSession(req[p].f, "logout")
      BY <2>3 DEF Logout, ControlInv, GoodRequests, GoodRequest
    <3>2. QED
      BY <3>1 DEF Next, Revoke
  <2>4. ASSUME NEW f \in Fids, RevokeSelected(p, f) PROVE [Next]_vars
    BY <2>4 DEF RevokeSelected, Next, Revoke
  <2>5. CASE RevokeUserSelect(p)
    <3>1. req[p].user \in Users /\ RevokeAllSelect(p, req[p].user)
      BY <2>5 DEF RevokeUserSelect, ControlInv, GoodRequests, GoodRequest, CarriesUser
    <3>2. QED
      BY <3>1 DEF Next, Revoke
  <2>6. CASE RevokeUserCommit(p)
    <3>1. \E r \in {"logout_all", "account_suspended"} : RevokeAllCommit(p, r)
      BY <2>6 DEF RevokeUserCommit
    <3>2. QED
      BY <3>1 DEF Next, Revoke
  <2>7. ASSUME NEW o \in Orgs, NEW n \in CallerNow, Scope(p, o, n) PROVE [Next]_vars
    <3>1. CASE UNCHANGED vars
      BY <3>1
    <3>2. CASE ScopeSession(req[p].f, o, n)
      <4>1. req[p].f \in Fids
        BY <2>7 DEF Scope, ControlInv, GoodRequests, GoodRequest
      <4>2. QED
        BY <3>2, <4>1 DEF Next, Rescope
    <3>3. QED
      BY <2>7, <3>1, <3>2 DEF Scope
  <2>8. CASE RedisCall(p)
    BY <2>8 DEF RedisCall
  <2>9. CASE Reply(p)
    BY <2>9 DEF Reply
  <2>10. QED
    BY <1>3, <2>1, <2>2, <2>3, <2>4, <2>5, <2>6, <2>7, <2>8, <2>9 DEF Continue
<1>4. ASSUME NEW p \in Txs, Fail(p) PROVE [Next]_vars
  BY <1>4 DEF Fail, Next, Abort
<1>5. ASSUME NEW u \in Users, NEW o \in Orgs, Restore(u, o) PROVE [Next]_vars
  BY <1>5 DEF Restore
<1>6. CASE Pass
  BY <1>6 DEF Pass, Next
<1>7. CASE UNCHANGED allVars
  BY <1>7 DEF allVars
<1>8. QED
  BY <1>2, <1>3, <1>4, <1>5, <1>6, <1>7 DEF ControlNext

-----------------------------------------------------------------------------
\* The calls owed after a revocation are calls.
LEMMA ApplyRevocationType ==
  ASSUME RowsInv, NEW order \in Seq(Fids)
  PROVE  ApplyRevocation(order) \in Seq(Call)
<1>1. Len(order) \in Nat
  OBVIOUS
<1>2. ASSUME NEW k \in 1..(2 * Len(order))
      PROVE  ApplyRevocation(order)[k] \in Call
  <2>1. (k + 1) \div 2 \in 1..Len(order)
    BY <1>1
  <2>2. order[(k + 1) \div 2] \in Fids
    BY <2>1
  <2>3. session[order[(k + 1) \div 2]].access_jti \in Nat
    BY <2>2 DEF RowsInv, TypeOK, SessionRow
  <2>4. QED
    BY <2>2, <2>3 DEF ApplyRevocation, DenyJti, DenyFamily, Call
<1>3. ApplyRevocation(order) = [k \in 1..(2 * Len(order)) |-> ApplyRevocation(order)[k]]
  BY DEF ApplyRevocation
<1>4. 2 * Len(order) \in Nat
  BY <1>1
<1>5. QED
  BY <1>2, <1>3, <1>4

\* An ordering of a set of families is a sequence of families.
LEMMA OrderingType ==
  ASSUME NEW S \in SUBSET Fids, NEW order \in Orderings(S)
  PROVE  order \in Seq(Fids)
<1>1. IsFiniteSet(S)
  BY FS_Subset, ControlAssumption
<1>2. Cardinality(S) \in Nat
  BY <1>1, FS_CardinalityType
<1>3. order \in [1..Cardinality(S) -> S]
  BY DEF Orderings
<1>4. QED
  BY <1>2, <1>3

\* _revoke_locked changes no owner.
LEMMA RevokeLockedOwners ==
  ASSUME RowsInv, NEW F \in SUBSET Fids, NEW reason \in Reasons,
         \A f \in F : Exists(f), RevokeLocked(F, reason)
  PROVE  \A f \in Fids : /\ family'[f].user = family[f].user
                         /\ family'[f].status = family[f].status \/ Exists(f)
<1>1. \A row \in FamilyRow : RevokedFamily(row, reason).user = row.user
  BY DEF RevokedFamily, FamilyRow
<1>2. family \in [Fids -> FamilyRow]
  BY DEF RowsInv, TypeOK
<1>3. QED
  BY <1>1, <1>2 DEF RevokeLocked

\* Rows are inserted for a known user and never change hands.
LEMMA OwnersNext == RowsInv /\ Owners /\ [Next]_vars => Owners'
<1> SUFFICES ASSUME RowsInv, Owners, [Next]_vars PROVE Owners'
  OBVIOUS
<1>1. /\ family \in [Fids -> FamilyRow]
      /\ token \in [Fids -> Seq(TokenRow)]
      /\ tx \in [Txs -> TxState]
  BY DEF RowsInv, TypeOK
<1>2. NoTx.op = "idle"
  BY DEF NoTx
<1>3. CASE Create
  <2>1. ASSUME NEW t \in Txs, NEW u \in Users, NEW n \in CallerNow,
               CreateSessionSelect(t, u, n)
        PROVE  Owners'
    BY <1>1, <2>1 DEF CreateSessionSelect, Owners, Exists
  <2>2. ASSUME NEW t \in Txs, NEW f \in Fids, NEW d \in Devices, NEW E \in SUBSET Fids,
               CreateSessionCommit(t, f, d, E)
        PROVE  Owners'
    <3>1. tx[t].user \in Users
      BY <2>2 DEF CreateSessionCommit, Owners
    <3>2. \A g \in E : Exists(g)
      BY <2>2 DEF CreateSessionCommit, IsOldest, LockedRows, Countable, Live, Exists
    <3>3. \A row \in FamilyRow : RevokedFamily(row, "session_cap").user = row.user
      BY DEF RevokedFamily, FamilyRow
    <3>4. family'[f].user \in Users
      BY <2>2, <3>1 DEF CreateSessionCommit
    <3>5. \A g \in Fids \ {f} : /\ family'[g].user = family[g].user
                                /\ family'[g] = family[g] \/ Exists(g)
      BY <1>1, <2>2, <3>2, <3>3 DEF CreateSessionCommit
    <3>6. \A g \in Fids : Exists(g)' => family'[g].user \in Users
      BY <3>4, <3>5 DEF Owners, Exists
    <3>7. \A s \in Txs : tx'[s].op = "create_session" => tx'[s].user \in Users
      BY <1>1, <1>2, <2>2 DEF CreateSessionCommit, Owners
    <3>8. QED
      BY <3>6, <3>7 DEF Owners
  <2>3. QED
    BY <1>3, <2>1, <2>2 DEF Create
<1>4. CASE Rotate
  <2>1. PICK f \in Fids : \E i \in DOMAIN token[f], d \in Devices, n \in CallerNow :
          RotateRefreshToken(f, i, d, n) \/ RefuseRotation(f, i, d, n)
    BY <1>4 DEF Rotate
  <2>2. PICK i \in DOMAIN token[f], d \in Devices, n \in CallerNow :
          RotateRefreshToken(f, i, d, n) \/ RefuseRotation(f, i, d, n)
    BY <2>1
  <2>3. CASE RotateRefreshToken(f, i, d, n)
    BY <2>3 DEF RotateRefreshToken, Owners, Exists
  <2>4. CASE RefuseRotation(f, i, d, n)
    <3> DEFINE status == RotationStatus(f, i, d, n)
    <3>1. /\ status \in {"REUSED", "EXPIRED", "CLIENT_MISMATCH"}
          /\ RevokeLocked({f}, RefusalReason[status])
          /\ UNCHANGED <<clock, tx>>
      BY <2>4 DEF RefuseRotation, RefusalReason
    <3> HIDE DEF status
    <3>2. RefusalReason[status] \in Reasons
      BY <3>1 DEF RefusalReason, Reasons
    <3>3. token[f] # << >>
      BY <1>1
    <3>4. \A g \in {f} : Exists(g)
      BY <1>1, <3>3 DEF RowsInv, GoodRows, Exists, FamilyRow
    <3>5. \A g \in Fids : /\ family'[g].user = family[g].user
                          /\ family'[g].status = family[g].status \/ Exists(g)
      BY <3>1, <3>2, <3>4, RevokeLockedOwners
    <3>6. QED
      BY <3>1, <3>5 DEF Owners, Exists
  <2>5. QED
    BY <2>2, <2>3, <2>4
<1>5. CASE Revoke
  <2>1. ASSUME NEW f \in Fids, NEW r \in {"logout", "user_selected"}, RevokeSession(f, r)
        PROVE  Owners'
    <3>1. /\ r \in Reasons
          /\ \A g \in {f} : Exists(g)
          /\ RevokeLocked({f}, r)
          /\ UNCHANGED tx
      BY <2>1 DEF RevokeSession, Reasons
    <3>2. \A g \in Fids : /\ family'[g].user = family[g].user
                          /\ family'[g].status = family[g].status \/ Exists(g)
      BY <3>1, RevokeLockedOwners
    <3>3. QED
      BY <3>1, <3>2 DEF Owners, Exists
  <2>2. ASSUME NEW t \in Txs, NEW u \in Users, RevokeAllSelect(t, u) PROVE Owners'
    BY <1>1, <2>2 DEF RevokeAllSelect, Owners, Exists
  <2>3. ASSUME NEW t \in Txs, NEW r \in {"logout_all", "account_suspended"},
               RevokeAllCommit(t, r)
        PROVE  Owners'
    <3>1. /\ r \in Reasons
          /\ RevokeAllRows(t) \in SUBSET Fids
          /\ \A g \in RevokeAllRows(t) : Exists(g)
          /\ RevokeLocked(RevokeAllRows(t), r)
      BY <2>3 DEF RevokeAllCommit, Reasons, RevokeAllRows, Unrevoked, Live, Exists
    <3>2. \A g \in Fids : /\ family'[g].user = family[g].user
                          /\ family'[g].status = family[g].status \/ Exists(g)
      BY <3>1, RevokeLockedOwners
    <3>3. \A s \in Txs : tx'[s].op = "create_session" => tx'[s].user \in Users
      BY <1>1, <1>2, <2>3 DEF RevokeAllCommit, Owners
    <3>4. QED
      BY <3>2, <3>3 DEF Owners, Exists
  <2>4. QED
    BY <1>5, <2>1, <2>2, <2>3 DEF Revoke
<1>6. CASE Rescope
  BY <1>6 DEF Rescope, ScopeSession, OffboardSessions, Owners, Exists
<1>7. CASE Erase
  <2>1. PICK u \in Users : DeleteFamilies(u)
    BY <1>7 DEF Erase
  <2>2. \A f \in Fids : family'[f] = family[f] \/ family'[f].status = "deleted"
    BY <2>1 DEF DeleteFamilies, NoFamily
  <2>3. UNCHANGED tx
    BY <2>1 DEF DeleteFamilies
  <2>4. QED
    BY <2>2, <2>3 DEF Owners, Exists
<1>8. CASE Abort
  BY <1>1, <1>2, <1>8 DEF Abort, Rollback, Owners, Exists
<1>9. CASE Tick
  BY <1>9 DEF Tick, Owners, Exists
<1>10. CASE UNCHANGED vars
  BY <1>10 DEF vars, Owners, Exists
<1>11. QED
  BY <1>3, <1>4, <1>5, <1>6, <1>7, <1>8, <1>9, <1>10 DEF Next

-----------------------------------------------------------------------------
\* Replacing one request by a good one keeps all of them good.
LEMMA OneRequestChanges ==
  ASSUME GoodRequests, NEW p \in Txs, NEW r, GoodRequest(r, clock),
         req' = [req EXCEPT ![p] = r], clock' = clock
  PROVE  GoodRequests'
<1>1. DOMAIN req' = Txs /\ req' = [q \in Txs |-> req'[q]]
  BY DEF GoodRequests
<1>2. \A q \in Txs : req'[q] = IF q = p THEN r ELSE req[q]
  BY DEF GoodRequests
<1>3. \A q \in Txs : GoodRequest(req'[q], clock')
  BY <1>2 DEF GoodRequests
<1>4. QED
  BY <1>1, <1>3 DEF GoodRequests

\* An idle process carries nothing.
LEMMA IdleIsRequest == Idle \in Request
  BY DEF Idle, Request

\* No step asks anything of an idle process.
LEMMA IdleIsGood == \A c : GoodRequest(Idle, c)
<1>1. Idle \in Request
  BY IdleIsRequest
<1>2. QED
  BY <1>1 DEF GoodRequest, Idle, CarriesUser

\* A handler that has committed owes calls and may owe a token.
LEMMA CommittedIsGood ==
  ASSUME GoodRequests, NEW p \in Txs, NEW todo \in Seq(Call),
         NEW grant \in AccessToken \cup {None}, NEW refreshed \in Nat,
         Committed(p, todo, grant, refreshed), clock' = clock
  PROVE  GoodRequests'
<1> DEFINE r == [req[p] EXCEPT !.pc = "redis", !.todo = todo, !.grant = grant,
                               !.refreshed = refreshed]
<1>1. req[p] \in Request
  BY DEF GoodRequests, GoodRequest
<1>2. r \in Request /\ r.pc = "redis"
  BY <1>1 DEF Request
<1>3. GoodRequest(r, clock)
  BY <1>2 DEF GoodRequest, CarriesUser
<1>4. req' = [req EXCEPT ![p] = r]
  BY DEF Committed
<1> HIDE DEF r
<1>5. QED
  BY <1>3, <1>4, OneRequestChanges

-----------------------------------------------------------------------------
\* A denial of session f's current access token, alone or for several sessions.
LEMMA DenyJtiType ==
  ASSUME RowsInv
  PROVE  \A f \in Fids : /\ DenyJti(f, session[f].access_jti) \in Call
                         /\ << DenyJti(f, session[f].access_jti) >> \in Seq(Call)
                         /\ session[f].access_jti + 1 \in Nat
<1>1. \A f \in Fids : session[f].access_jti \in Nat
  BY DEF RowsInv, TypeOK, SessionRow
<1>2. \A f \in Fids : DenyJti(f, session[f].access_jti) \in Call
  BY <1>1 DEF DenyJti, Call
<1>3. QED
  BY <1>1, <1>2

\* A started handler carries its user, its session and its clock reading.
LEMMA BeginKeepsRequests ==
  ASSUME RowsInv, ControlInv, NEW p \in Txs, Begin(p)
  PROVE  GoodRequests' /\ access' = access
<1>1. GoodRequests /\ clock \in Nat /\ MaxLag \in Nat
  BY LimitsAssumption DEF ControlInv, RowsInv, TypeOK
<1>2. ASSUME NEW u \in Users, CreateBegin(p, u)
      PROVE  GoodRequests' /\ access' = access
  <2> DEFINE r == [Idle EXCEPT !.pc = "create", !.user = u, !.now = clock]
  <2>1. clock' = clock /\ access' = access
    BY <1>2 DEF CreateBegin, vars
  <2>2. CASE req' = req
    BY <1>1, <2>1, <2>2 DEF GoodRequests
  <2>3. CASE req' = [req EXCEPT ![p] = r]
    <3>1. r \in Request /\ r.pc = "create" /\ r.user = u /\ r.now = clock
      BY <1>1, IdleIsRequest DEF Request
    <3>2. GoodRequest(r, clock)
      BY <1>1, <3>1 DEF GoodRequest, CarriesUser
    <3> HIDE DEF r
    <3>3. QED
      BY <1>1, <2>1, <2>3, <3>2, OneRequestChanges
  <2>4. QED
    BY <1>2, <2>2, <2>3 DEF CreateBegin
<1>3. ASSUME NEW f \in Fids, NEW i \in DOMAIN token[f], NEW d \in Devices,
             NEW n \in CallerNow, Refresh(p, f, i, d, n)
      PROVE  GoodRequests' /\ access' = access
  <2>1. access' = access /\ clock' = clock
    BY <1>3 DEF Refresh, RotateRefreshToken, RefuseRotation
  <2>2. n \in Nat
    BY DEF CallerNow
  <2>3. token[f] \in Seq(TokenRow)
    BY DEF RowsInv, TypeOK
  <2>4. CASE Committed(p, << DenyJti(f, session[f].access_jti) >>,
                  [f |-> f, jti |-> session[f].access_jti + 1, iat |-> n, org |-> None],
                  Len(token[f]) + 1)
    <3>1. [f |-> f, jti |-> session[f].access_jti + 1, iat |-> n, org |-> None] \in AccessToken
      BY <2>2, DenyJtiType DEF AccessToken
    <3>2. Len(token[f]) + 1 \in Nat
      BY <2>3
    <3>3. << DenyJti(f, session[f].access_jti) >> \in Seq(Call)
      BY DenyJtiType
    <3>4. QED
      BY <1>1, <2>1, <2>4, <3>1, <3>2, <3>3, CommittedIsGood
  <2>5. CASE Committed(p, ApplyRevocation(<< f >>), None, 0)
    <3>1. << f >> \in Seq(Fids)
      OBVIOUS
    <3>2. ApplyRevocation(<< f >>) \in Seq(Call)
      BY <3>1, ApplyRevocationType
    <3>3. QED
      BY <1>1, <2>1, <2>5, <3>2, CommittedIsGood
  <2>6. QED
    BY <1>3, <2>4, <2>5 DEF Refresh
<1>4. ASSUME NEW a \in access, NEW h \in Authenticated, Authenticate(p, a, h)
      PROVE  GoodRequests' /\ access' = access
  <2> DEFINE r == [Idle EXCEPT !.pc = h, !.user = Owner(a.f), !.f = a.f]
  <2>1. clock' = clock /\ access' = access /\ req' = [req EXCEPT ![p] = r]
    BY <1>4 DEF Authenticate, vars
  <2>2. a.f \in Fids
    BY DEF ControlInv, AccessToken
  <2>3. Owner(a.f) \in Users
    BY <1>4, <2>2 DEF Authenticate, ApiAccepts, SessionIsActive, Live, Owner,
                      ControlInv, Owners, Exists
  <2>4. r \in Request /\ r.pc = h /\ r.user = Owner(a.f) /\ r.f = a.f
    BY <2>2, <2>3, IdleIsRequest DEF Request, Authenticated
  <2>5. GoodRequest(r, clock)
    BY <2>2, <2>3, <2>4 DEF GoodRequest, CarriesUser, Authenticated
  <2> HIDE DEF r
  <2>6. QED
    BY <1>1, <2>1, <2>5, OneRequestChanges
<1>5. ASSUME NEW u \in Users, Suspend(p, u)
      PROVE  GoodRequests' /\ access' = access
  <2> DEFINE r == [Idle EXCEPT !.pc = "suspended", !.user = u]
  <2>1. clock' = clock /\ access' = access /\ req' = [req EXCEPT ![p] = r]
    BY <1>5 DEF Suspend, vars
  <2>2. r \in Request /\ r.pc = "suspended" /\ r.user = u
    BY IdleIsRequest DEF Request
  <2>3. GoodRequest(r, clock)
    BY <2>2 DEF GoodRequest, CarriesUser
  <2> HIDE DEF r
  <2>4. QED
    BY <1>1, <2>1, <2>3, OneRequestChanges
<1>6. ASSUME NEW u \in Users, NEW o \in Orgs, Offboard(p, u, o)
      PROVE  GoodRequests' /\ access' = access
  <2>1. clock' = clock /\ access' = access
    BY <1>6 DEF Offboard, OffboardSessions
  <2>2. PICK order \in Orderings(ScopedTo(u, o)) :
          Committed(p, << DenyOrg(u, o) >> \o
                    [k \in 1..Len(order) |-> DenyJti(order[k], session[order[k]].access_jti)],
                 None, 0)
    BY <1>6 DEF Offboard
  <2>3. ScopedTo(u, o) \in SUBSET Fids
    BY DEF ScopedTo
  <2>4. order \in Seq(Fids)
    BY <2>3, OrderingType
  <2> DEFINE jtis == [k \in 1..Len(order) |-> DenyJti(order[k], session[order[k]].access_jti)]
  <2>5. \A k \in 1..Len(order) : DenyJti(order[k], session[order[k]].access_jti) \in Call
    BY <2>4, DenyJtiType
  <2>6. jtis \in Seq(Call)
    BY <2>4, <2>5
  <2>7. << DenyOrg(u, o) >> \in Seq(Call)
    BY DEF DenyOrg, Call
  <2> HIDE DEF jtis
  <2>8. << DenyOrg(u, o) >> \o jtis \in Seq(Call)
    BY <2>6, <2>7
  <2>9. Committed(p, << DenyOrg(u, o) >> \o jtis, None, 0)
    BY <2>2 DEF jtis
  <2>10. QED
    BY <1>1, <2>1, <2>8, <2>9, CommittedIsGood
<1>7. QED
  BY <1>2, <1>3, <1>4, <1>5, <1>6 DEF Begin

\* Every later step of a handler keeps what the request carries.
LEMMA ContinueKeepsRequests ==
  ASSUME RowsInv, ControlInv, NEW p \in Txs, Continue(p)
  PROVE  GoodRequests' /\ access' \subseteq AccessToken
<1>1. /\ GoodRequests
      /\ access \subseteq AccessToken
      /\ clock \in Nat
  BY DEF ControlInv, RowsInv, TypeOK
<1>2. /\ req[p] \in Request
      /\ req[p].pc \in CarriesUser => req[p].user \in Users
      /\ req[p].pc \in {"logout", "scope"} => req[p].f \in Fids
      /\ req[p].pc = "create" => req[p].now \in Nat
  BY <1>1 DEF GoodRequests, GoodRequest
<1>3. \A f \in Fids : ApplyRevocation(<< f >>) \in Seq(Call)
  <2>1. \A f \in Fids : << f >> \in Seq(Fids)
    OBVIOUS
  <2>2. QED
    BY <2>1, ApplyRevocationType
<1>4. \A r : req' = [req EXCEPT ![p] = r] /\ GoodRequest(r, clock) /\ clock' = clock
             => GoodRequests'
  BY <1>1, OneRequestChanges
<1>5. CASE CreateSelect(p)
  <2> DEFINE r == [req[p] EXCEPT !.pc = "creating"]
  <2>1. req' = [req EXCEPT ![p] = r] /\ clock' = clock /\ access' = access
    BY <1>5 DEF CreateSelect, CreateSessionSelect
  <2>2. req[p].user \in Users
    BY <1>2, <1>5 DEF CreateSelect, CarriesUser
  <2>3. r \in Request /\ r.pc = "creating" /\ r.user = req[p].user
    BY <1>2 DEF Request
  <2>4. GoodRequest(r, clock)
    BY <2>2, <2>3 DEF GoodRequest
  <2> HIDE DEF r
  <2>5. QED
    BY <1>1, <1>4, <2>1, <2>4
<1>6. CASE CreateCommit(p)
  <2>1. PICK f \in Fids, d \in Devices, E \in SUBSET Fids :
          /\ CreateSessionCommit(p, f, d, E)
          /\ \E order \in Orderings(E) :
               Committed(p, ApplyRevocation(order),
                         [f |-> f, jti |-> 1, iat |-> req[p].now, org |-> None], 1)
    BY <1>6 DEF CreateCommit
  <2>2. PICK order \in Orderings(E) :
          Committed(p, ApplyRevocation(order),
                    [f |-> f, jti |-> 1, iat |-> req[p].now, org |-> None], 1)
    BY <2>1
  <2>3. ApplyRevocation(order) \in Seq(Call)
    BY OrderingType, ApplyRevocationType
  <2>4. [f |-> f, jti |-> 1, iat |-> req[p].now, org |-> None] \in AccessToken
    BY <1>2 DEF Request, AccessToken
  <2>5. clock' = clock /\ access' = access
    BY <1>6, <2>1 DEF CreateCommit, CreateSessionCommit
  <2>6. QED
    BY <1>1, <2>2, <2>3, <2>4, <2>5, CommittedIsGood
<1>7. CASE Logout(p)
  <2>1. ApplyRevocation(<< req[p].f >>) \in Seq(Call)
    BY <1>2, <1>3, <1>7 DEF Logout
  <2>2. clock' = clock /\ access' = access
    BY <1>7 DEF Logout, RevokeSession
  <2>3. QED
    BY <1>1, <1>7, <2>1, <2>2, CommittedIsGood DEF Logout
<1>8. ASSUME NEW f \in Fids, RevokeSelected(p, f)
      PROVE  GoodRequests' /\ access' \subseteq AccessToken
  <2>1. clock' = clock /\ access' = access
    BY <1>8 DEF RevokeSelected, RevokeSession, vars
  <2>2. CASE Committed(p, ApplyRevocation(<< f >>), None, 0)
    BY <1>1, <1>3, <2>1, <2>2, CommittedIsGood
  <2>3. CASE req' = [req EXCEPT ![p] = Idle]
    BY <1>1, <1>4, <2>1, <2>3, IdleIsGood
  <2>4. QED
    BY <1>8, <2>2, <2>3 DEF RevokeSelected
<1>9. CASE RevokeUserSelect(p)
  <2> DEFINE to == IF req[p].pc = "logout_all" THEN "logging_out" ELSE "suspending"
             r == [req[p] EXCEPT !.now = clock, !.pc = to]
  <2>1. req' = [req EXCEPT ![p] = r] /\ clock' = clock /\ access' = access
    BY <1>9 DEF RevokeUserSelect, RevokeAllSelect
  <2>2. req[p].user \in Users
    BY <1>2, <1>9 DEF RevokeUserSelect, CarriesUser
  <2>3. to \in {"logging_out", "suspending"}
    OBVIOUS
  <2> HIDE DEF to
  <2>4. r \in Request /\ r.pc = to /\ r.user = req[p].user
    BY <1>1, <1>2, <2>3 DEF Request
  <2> HIDE DEF r
  <2>5. GoodRequest(r, clock)
    BY <2>2, <2>3, <2>4 DEF GoodRequest
  <2>6. QED
    BY <1>1, <1>4, <2>1, <2>5
<1>10. CASE RevokeUserCommit(p)
  <2>1. PICK order \in Orderings(RevokeAllRows(p)) :
          Committed(p, << DenyUser(req[p].user, req[p].now) >> \o ApplyRevocation(order),
                    None, 0)
    BY <1>10 DEF RevokeUserCommit
  <2>2. RevokeAllRows(p) \in SUBSET Fids
    BY DEF RevokeAllRows, Unrevoked
  <2>3. ApplyRevocation(order) \in Seq(Call)
    BY <2>2, OrderingType, ApplyRevocationType
  <2>4. req[p].user \in Users /\ req[p].now \in Nat
    BY <1>2, <1>10 DEF RevokeUserCommit, CarriesUser, Request
  <2>5. << DenyUser(req[p].user, req[p].now) >> \in Seq(Call)
    BY <2>4 DEF DenyUser, Call
  <2>6. << DenyUser(req[p].user, req[p].now) >> \o ApplyRevocation(order) \in Seq(Call)
    BY <2>3, <2>5
  <2>7. clock' = clock /\ access' = access
    BY <1>10 DEF RevokeUserCommit, RevokeAllCommit
  <2>8. QED
    BY <1>1, <2>1, <2>6, <2>7, CommittedIsGood
<1>11. ASSUME NEW o \in Orgs, NEW n \in CallerNow, Scope(p, o, n)
       PROVE  GoodRequests' /\ access' \subseteq AccessToken
  <2> DEFINE f == req[p].f
             grant == [f |-> f, jti |-> session[f].access_jti + 1, iat |-> n, org |-> o]
  <2>1. clock' = clock /\ access' = access
    BY <1>11 DEF Scope, ScopeSession, vars
  <2>2. f \in Fids /\ n \in Nat
    BY <1>2, <1>11 DEF Scope, CallerNow
  <2>3. CASE Committed(p, << DenyJti(f, session[f].access_jti) >>, grant, 0)
    <3>1. grant \in AccessToken /\ << DenyJti(f, session[f].access_jti) >> \in Seq(Call)
      BY <2>2, DenyJtiType DEF AccessToken
    <3>2. QED
      BY <1>1, <2>1, <2>3, <3>1, CommittedIsGood
  <2>4. CASE req' = [req EXCEPT ![p] = Idle]
    BY <1>1, <1>4, <2>1, <2>4, IdleIsGood
  <2>5. QED
    BY <1>11, <2>3, <2>4 DEF Scope
<1>12. CASE RedisCall(p)
  <2> DEFINE r == [req[p] EXCEPT !.todo = Tail(req[p].todo)]
  <2>1. req' = [req EXCEPT ![p] = r] /\ clock' = clock /\ access' = access
    BY <1>12 DEF RedisCall, vars
  <2>2. Tail(req[p].todo) \in Seq(Call)
    BY <1>2, <1>12 DEF RedisCall, Request
  <2>3. r \in Request /\ r.pc = req[p].pc
    BY <1>2, <2>2 DEF Request
  <2> HIDE DEF r
  <2>4. GoodRequest(r, clock)
    BY <1>12, <2>3 DEF RedisCall, GoodRequest, CarriesUser
  <2>5. QED
    BY <1>1, <1>4, <2>1, <2>4
<1>13. CASE Reply(p)
  <2>1. clock' = clock /\ req' = [req EXCEPT ![p] = Idle]
    BY <1>13 DEF Reply, vars
  <2>2. access' \subseteq AccessToken
    BY <1>1, <1>2, <1>13 DEF Reply, Request
  <2>3. QED
    BY <1>4, <2>1, <2>2, IdleIsGood
<1>14. QED
  BY <1>5, <1>6, <1>7, <1>8, <1>9, <1>10, <1>11, <1>12, <1>13 DEF Continue

-----------------------------------------------------------------------------
\* What requests carry is kept by every step; MaxLag is what makes Pass keep it.
LEMMA ControlInvNext == RowsInv /\ ControlInv /\ [ControlNext]_allVars => ControlInv'
<1> SUFFICES ASSUME RowsInv, ControlInv, [ControlNext]_allVars PROVE ControlInv'
  OBVIOUS
<1>1. Owners'
  BY HandlersUseTransactions, OwnersNext DEF ControlInv
<1>2. ASSUME NEW p \in Txs, Begin(p) PROVE ControlInv'
  BY <1>1, <1>2, BeginKeepsRequests DEF ControlInv
<1>3. ASSUME NEW p \in Txs, Continue(p) PROVE ControlInv'
  BY <1>1, <1>3, ContinueKeepsRequests DEF ControlInv
<1>4. ASSUME NEW p \in Txs, Fail(p) PROVE ControlInv'
  <2>1. req' = [req EXCEPT ![p] = Idle] /\ clock' = clock /\ access' = access
    BY <1>4 DEF Fail, Rollback, vars
  <2>2. GoodRequests'
    BY <2>1, OneRequestChanges, IdleIsGood DEF ControlInv
  <2>3. QED
    BY <1>1, <2>1, <2>2 DEF ControlInv
<1>5. ASSUME NEW u \in Users, NEW o \in Orgs, Restore(u, o) PROVE ControlInv'
  <2>1. req' = req /\ clock' = clock /\ access' = access
    BY <1>5 DEF Restore, vars
  <2>2. QED
    BY <1>1, <2>1 DEF ControlInv, GoodRequests
<1>6. CASE Pass
  <2>1. /\ clock' = clock + 1
        /\ req' = req
        /\ access' \subseteq access
        /\ \A p \in Txs : req[p].pc = "create" => clock < req[p].now + MaxLag
    BY <1>6 DEF Pass, Tick
  <2>2. clock \in Nat /\ MaxLag \in Nat
    BY LimitsAssumption DEF RowsInv, TypeOK
  <2>3. ASSUME NEW p \in Txs PROVE GoodRequest(req[p], clock + 1)
    <3>1. GoodRequest(req[p], clock)
      BY DEF ControlInv, GoodRequests
    <3>2. req[p].pc = "create" => /\ req[p].now \in 0..clock + 1
                                  /\ req[p].now + MaxLag >= clock + 1
      BY <2>1, <2>2, <3>1 DEF GoodRequest
    <3>3. QED
      BY <3>1, <3>2 DEF GoodRequest
  <2>4. GoodRequests'
    BY <2>1, <2>3 DEF ControlInv, GoodRequests
  <2>5. QED
    BY <1>1, <2>1, <2>4 DEF ControlInv
<1>7. CASE UNCHANGED allVars
  <2>1. req' = req /\ clock' = clock /\ access' = access
    BY <1>7 DEF allVars, vars
  <2>2. QED
    BY <1>1, <2>1 DEF ControlInv, GoodRequests
<1>8. QED
  BY <1>2, <1>3, <1>4, <1>5, <1>6, <1>7 DEF ControlNext

\* No request runs at the start.
LEMMA ControlInvInit == ControlInit => ControlInv
<1> SUFFICES ASSUME ControlInit PROVE ControlInv
  OBVIOUS
<1>1. Owners
  BY DEF ControlInit, Init, Owners, Exists, NoFamily, NoTx
<1>2. GoodRequests
  BY IdleIsGood DEF ControlInit, GoodRequests
<1>3. QED
  BY <1>1, <1>2 DEF ControlInit, ControlInv

-----------------------------------------------------------------------------
\* SessionControl implements SessionRepository: whatever handlers run, interleave or
\* fail between their steps, the database only takes steps of the repository.
LEMMA HandlersImplementRepository == ControlSpec => Spec
<1>1. ControlInit => Init /\ RowsInv /\ ControlInv
  BY RowsInvInit, ControlInvInit DEF ControlInit
<1>2. RowsInv /\ ControlInv /\ [ControlNext]_allVars => RowsInv' /\ ControlInv' /\ [Next]_vars
  BY HandlersUseTransactions, RowsInvNext, ControlInvNext
<1>3. QED
  BY <1>1, <1>2, PTL DEF ControlSpec, Spec

\* With concurrent and failing handlers, too, no refresh token is exchanged twice, a
\* family dies whole and a revocation is never undone.
THEOREM HandlersKeepFamilies ==
  ControlSpec => [](RotationChain /\ FamilyDiesWhole /\ FamilyCeiling) /\ RevocationIsFinal
  BY HandlersImplementRepository, RotationIsLinear, FamiliesDieWhole, CeilingHolds,
     RevokedStaysRevoked, PTL

-----------------------------------------------------------------------------
(***************************************************************************)
(* Redis against the database.  A denial is true when the database already *)
(* refuses what it names, and stays true because the database never takes  *)
(* a revocation or a new access_jti back.                                  *)
(***************************************************************************)
Gone(f, fam) == fam[f].status \in {"revoked", "deleted"}

Spent(f, jti, fam, ses) ==
  /\ fam[f].status # "absent"
  /\ fam[f].status = "live" => jti < ses[f].access_jti

TrueCall(c, fam, ses, now) ==
  /\ c.call = "revoke_user" => c.at <= now
  /\ c.call = "revoke_family" => Gone(c.f, fam)
  /\ c.call = "revoke_access_token" => Spent(c.f, c.jti, fam, ses)

\* The keys of Redis and the calls that handlers still owe are true.
DenialsTrue ==
  /\ \A f \in deniedFamily : Gone(f, family)
  /\ \A d \in deniedJti : Spent(d.f, d.jti, family, session)
  /\ \A p \in Txs : \A k \in DOMAIN req[p].todo : TrueCall(req[p].todo[k], family, session, clock)

\* The keys that go by the time of issue are dated in the past.
KeysDated ==
  \A u \in Users :
    /\ userRevoked[u] # None => userRevoked[u] <= clock
    /\ \A o \in Orgs : orgRevoked[u][o] # None => orgRevoked[u][o] <= clock

\* A row moves forward: it is inserted, gets a later access_jti, is revoked or deleted.
RowMoves(f) ==
  \/ /\ family'[f].status = family[f].status
     /\ session'[f].access_jti >= session[f].access_jti
  \/ Gone(f, family') /\ family[f].status # "absent"
  \/ family[f].status = "absent" /\ family'[f].status = "live"

\* _revoke_locked moves rows forward and leaves access_jti alone.
LEMMA RevokeLockedMoves ==
  ASSUME RowsInv, NEW F \in SUBSET Fids, NEW reason, RevokeLocked(F, reason),
         \A f \in F : Exists(f)
  PROVE  \A f \in Fids : /\ RowMoves(f)
                         /\ f \in F => family'[f].status = "revoked"
                         /\ f \notin F => family'[f] = family[f] /\ session'[f] = session[f]
<1>1. family \in [Fids -> FamilyRow] /\ session \in [Fids -> SessionRow]
  BY DEF RowsInv, TypeOK
<1>2. \A row \in FamilyRow : RevokedFamily(row, reason).status = "revoked"
  BY DEF RevokedFamily, FamilyRow
<1>3. \A f \in Fids : session[f].access_jti >= session[f].access_jti
  BY <1>1 DEF SessionRow
<1>4. \A f \in F : family'[f].status = "revoked" /\ family[f].status # "absent"
  BY <1>1, <1>2 DEF RevokeLocked, Exists
<1>5. \A f \in Fids \ F : family'[f] = family[f] /\ session'[f] = session[f]
  BY DEF RevokeLocked
<1>6. QED
  BY <1>3, <1>4, <1>5 DEF RowMoves, Gone

\* A new workspace context takes the next access_jti.
LEMMA RescopedJti ==
  ASSUME NEW row \in SessionRow, NEW o, NEW n
  PROVE  Rescoped(row, o, n).access_jti = row.access_jti + 1 /\ row.access_jti \in Nat
  BY DEF Rescoped, SessionRow

\* create_session inserts f and revokes the rows of E, and touches no other.
LEMMA CreateMoves ==
  ASSUME RowsInv, NEW p \in Txs, NEW f \in Fids, NEW d \in Devices, NEW E \in SUBSET Fids,
         CreateSessionCommit(p, f, d, E)
  PROVE  /\ f \notin E /\ family[f].status = "absent"
         /\ family'[f].status = "live" /\ session'[f].access_jti = 1
         /\ \A g \in E : family[g].status = "live" /\ family'[g].status = "revoked"
         /\ \A g \in Fids \ (E \cup {f}) : family'[g] = family[g] /\ session'[g] = session[g]
<1>1. family \in [Fids -> FamilyRow] /\ session \in [Fids -> SessionRow]
  BY DEF RowsInv, TypeOK
<1>2. \A g \in E : family[g].status = "live"
  BY DEF CreateSessionCommit, IsOldest, LockedRows, Countable, Live
<1>3. f \notin E /\ family[f].status = "absent"
  BY <1>2 DEF CreateSessionCommit
<1>4. \A row \in FamilyRow : RevokedFamily(row, "session_cap").status = "revoked"
  BY DEF RevokedFamily, FamilyRow
<1>5. \A g \in E : family'[g] = RevokedFamily(family[g], "session_cap")
  BY <1>3 DEF CreateSessionCommit
<1>6. family'[f].status = "live" /\ session'[f].access_jti = 1
  BY DEF CreateSessionCommit
<1>7. \A g \in Fids \ (E \cup {f}) : family'[g] = family[g] /\ session'[g] = session[g]
  BY DEF CreateSessionCommit
<1>8. QED
  BY <1>1, <1>2, <1>3, <1>4, <1>5, <1>6, <1>7

\* Every transaction moves every row forward.
LEMMA RowsMove == RowsInv /\ [Next]_vars => \A f \in Fids : RowMoves(f)
<1> SUFFICES ASSUME RowsInv, [Next]_vars PROVE \A f \in Fids : RowMoves(f)
  OBVIOUS
<1>1. /\ family \in [Fids -> FamilyRow]
      /\ session \in [Fids -> SessionRow]
      /\ token \in [Fids -> Seq(TokenRow)]
  BY DEF RowsInv, TypeOK
<1>2. \A f \in Fids : session[f].access_jti \in Nat
  BY <1>1 DEF SessionRow
<1>3. ASSUME NEW f \in Fids, family'[f] = family[f],
             \/ session'[f] = session[f]
             \/ session'[f].access_jti = session[f].access_jti + 1
      PROVE  RowMoves(f)
  BY <1>2, <1>3 DEF RowMoves
<1>4. CASE Create
  <2>1. ASSUME NEW t \in Txs, NEW f \in Fids, NEW d \in Devices, NEW E \in SUBSET Fids,
               CreateSessionCommit(t, f, d, E), NEW g \in Fids
        PROVE  RowMoves(g)
    <3>1. CASE g = f
      BY <2>1, <3>1, CreateMoves DEF RowMoves
    <3>2. CASE g \in E
      BY <2>1, <3>2, CreateMoves DEF RowMoves, Gone
    <3>3. CASE g \notin E \cup {f}
      <4>1. family'[g] = family[g] /\ session'[g] = session[g]
        BY <2>1, <3>3, CreateMoves
      <4>2. QED
        BY <1>3, <4>1
    <3>4. QED
      BY <3>1, <3>2, <3>3
  <2>2. CASE \E t \in Txs, u \in Users, n \in CallerNow : CreateSessionSelect(t, u, n)
    BY <1>3, <2>2 DEF CreateSessionSelect
  <2>3. QED
    BY <1>4, <2>1, <2>2 DEF Create
<1>5. CASE Rotate
  <2>1. PICK f \in Fids : \E i \in DOMAIN token[f], d \in Devices, n \in CallerNow :
          RotateRefreshToken(f, i, d, n) \/ RefuseRotation(f, i, d, n)
    BY <1>5 DEF Rotate
  <2>2. PICK i \in DOMAIN token[f], d \in Devices, n \in CallerNow :
          RotateRefreshToken(f, i, d, n) \/ RefuseRotation(f, i, d, n)
    BY <2>1
  <2>3. CASE RotateRefreshToken(f, i, d, n)
    <3>1. family' = family /\ session' = [session EXCEPT ![f] = Rescoped(session[f], None, n)]
      BY <2>3 DEF RotateRefreshToken
    <3>2. QED
      BY <1>1, <1>3, <3>1, RescopedJti
  <2>4. CASE RefuseRotation(f, i, d, n)
    <3>1. PICK reason : RevokeLocked({f}, reason)
      BY <2>4 DEF RefuseRotation
    <3>2. token[f] # << >>
      BY <1>1
    <3>3. Exists(f)
      BY <1>1, <3>2 DEF RowsInv, GoodRows, Exists, FamilyRow
    <3>4. QED
      BY <3>1, <3>3, RevokeLockedMoves
  <2>5. QED
    BY <2>2, <2>3, <2>4
<1>6. CASE Revoke
  <2>1. ASSUME NEW f \in Fids, NEW r, RevokeSession(f, r) PROVE \A g \in Fids : RowMoves(g)
    BY <2>1, RevokeLockedMoves DEF RevokeSession
  <2>2. ASSUME NEW t \in Txs, NEW r, RevokeAllCommit(t, r) PROVE \A g \in Fids : RowMoves(g)
    <3>1. RevokeAllRows(t) \in SUBSET Fids /\ \A g \in RevokeAllRows(t) : Exists(g)
      BY DEF RevokeAllRows, Unrevoked, Live, Exists
    <3>2. QED
      BY <2>2, <3>1, RevokeLockedMoves DEF RevokeAllCommit
  <2>3. ASSUME NEW t \in Txs, NEW u \in Users, RevokeAllSelect(t, u)
        PROVE  \A g \in Fids : RowMoves(g)
    BY <1>3, <2>3 DEF RevokeAllSelect
  <2>4. QED
    BY <1>6, <2>1, <2>2, <2>3 DEF Revoke
<1>7. CASE Rescope
  <2>1. ASSUME NEW o \in Orgs, NEW n \in CallerNow, NEW f \in Fids, ScopeSession(f, o, n)
        PROVE  \A g \in Fids : RowMoves(g)
    <3>1. family' = family /\ session' = [session EXCEPT ![f] = Rescoped(session[f], o, n)]
      BY <2>1 DEF ScopeSession
    <3>2. QED
      BY <1>1, <1>3, <3>1, RescopedJti
  <2>2. ASSUME NEW o \in Orgs, NEW n \in CallerNow, NEW u \in Users, OffboardSessions(u, o, n)
        PROVE  \A g \in Fids : RowMoves(g)
    <3>1. /\ family' = family
          /\ \A g \in Fids : \/ session'[g] = session[g]
                             \/ session'[g] = Rescoped(session[g], None, n)
      BY <2>2 DEF OffboardSessions
    <3>2. QED
      BY <1>1, <1>3, <3>1, RescopedJti
  <2>3. QED
    BY <1>7, <2>1, <2>2 DEF Rescope
<1>8. CASE Erase
  <2>1. PICK u \in Users : DeleteFamilies(u)
    BY <1>8 DEF Erase
  <2>2. \A f \in Fids : \/ family'[f] = family[f] /\ session'[f] = session[f]
                        \/ Exists(f) /\ family'[f].status = "deleted"
    BY <2>1 DEF DeleteFamilies, NoFamily
  <2>3. QED
    BY <1>3, <2>2 DEF RowMoves, Gone, Exists
<1>9. CASE Abort
  BY <1>3, <1>9 DEF Abort, Rollback
<1>10. CASE Tick
  BY <1>3, <1>10 DEF Tick
<1>11. CASE UNCHANGED vars
  BY <1>3, <1>11 DEF vars
<1>12. QED
  BY <1>4, <1>5, <1>6, <1>7, <1>8, <1>9, <1>10, <1>11 DEF Next

\* Time does not run backwards.
LEMMA ClockNeverRuns == RowsInv /\ [Next]_vars => clock <= clock'
<1> SUFFICES ASSUME RowsInv, [Next]_vars PROVE clock <= clock'
  OBVIOUS
<1>1. clock \in Nat
  BY DEF RowsInv, TypeOK
<1>2. clock' = clock \/ clock' = clock + 1
  <2>1. CASE Create \/ Rotate
    BY <2>1 DEF Create, Rotate, CreateSessionSelect, CreateSessionCommit, RotateRefreshToken,
                RefuseRotation
  <2>2. CASE Revoke
    BY <2>2 DEF Revoke, RevokeSession, RevokeAllSelect, RevokeAllCommit
  <2>3. CASE Rescope \/ Erase \/ Abort
    BY <2>3 DEF Rescope, ScopeSession, OffboardSessions, Erase, DeleteFamilies, Abort, Rollback
  <2>4. CASE Tick \/ UNCHANGED vars
    BY <2>4 DEF Tick, vars
  <2>5. QED
    BY <2>1, <2>2, <2>3, <2>4 DEF Next
<1>3. QED
  BY <1>1, <1>2

\* What is true once stays true.
LEMMA DenialsStayTrue ==
  ASSUME RowsInv, RowsInv', [Next]_vars
  PROVE  /\ \A f \in Fids : Gone(f, family) => Gone(f, family')
         /\ \A f \in Fids, j \in Nat : Spent(f, j, family, session) => Spent(f, j, family', session')
         /\ \A c \in Call : TrueCall(c, family, session, clock) => TrueCall(c, family', session', clock')
<1>1. \A f \in Fids : RowMoves(f)
  BY RowsMove
<1>2. \A f \in Fids : session[f].access_jti \in Nat /\ session'[f].access_jti \in Nat
  BY DEF RowsInv, TypeOK, SessionRow
<1>3. \A f \in Fids : Gone(f, family) => Gone(f, family')
  BY <1>1 DEF RowMoves, Gone
<1>4. \A f \in Fids, j \in Nat : Spent(f, j, family, session) => Spent(f, j, family', session')
  BY <1>1, <1>2 DEF RowMoves, Spent, Gone
<1>5. \A c \in Call : /\ c.call = "revoke_user" => c.at \in Nat
                      /\ c.call = "revoke_family" => c.f \in Fids
                      /\ c.call = "revoke_access_token" => c.f \in Fids /\ c.jti \in Nat
  BY DEF Call
<1>6. clock \in Nat /\ clock' \in Nat /\ clock <= clock'
  BY ClockNeverRuns DEF RowsInv, TypeOK
<1>7. \A c \in Call : c.call = "revoke_user" /\ c.at <= clock => c.at <= clock'
  BY <1>5, <1>6
<1>8. QED
  BY <1>3, <1>4, <1>5, <1>7 DEF TrueCall
-----------------------------------------------------------------------------
(***************************************************************************)
(* A handler that commits owes a call for every access token that stopped  *)
(* being current, owes only true calls, and returns a current token.       *)
(***************************************************************************)
\* The database would accept the token: its session is live and its jti the last one.
Current(a) == Live(a.f) /\ session[a.f].access_jti = a.jti

Denies(c, f, jti) == c = DenyJti(f, jti) \/ c = DenyFamily(f)

CommitStep(p) ==
  /\ req[p].pc # "redis"
  /\ req' = [req EXCEPT ![p] = req'[p]]
  /\ req'[p].pc = "redis"
  /\ UNCHANGED <<clock, access, deniedJti, deniedFamily, userRevoked, orgRevoked, lost>>
  /\ \A f \in Fids : Live(f) =>
       \/ family'[f].status = "live" /\ session'[f].access_jti = session[f].access_jti
       \/ \E k \in DOMAIN req'[p].todo : Denies(req'[p].todo[k], f, session[f].access_jti)
  /\ \A k \in DOMAIN req'[p].todo : TrueCall(req'[p].todo[k], family', session', clock')
  /\ req'[p].grant # None =>
       /\ req'[p].grant.iat \in Nat /\ req'[p].grant.iat <= clock
       /\ family'[req'[p].grant.f].status = "live"
       /\ session'[req'[p].grant.f].access_jti = req'[p].grant.jti

\* What Committed leaves in the request.
LEMMA CommittedRequest ==
  ASSUME GoodRequests, NEW p \in Txs, NEW todo, NEW grant, NEW n, Committed(p, todo, grant, n)
  PROVE  /\ req' = [req EXCEPT ![p] = req'[p]]
         /\ req'[p].pc = "redis" /\ req'[p].todo = todo /\ req'[p].grant = grant
<1> DEFINE r == [req[p] EXCEPT !.pc = "redis", !.todo = todo, !.grant = grant,
                               !.refreshed = n]
<1>1. req[p] \in Request
  BY DEF GoodRequests, GoodRequest
<1>2. r.pc = "redis" /\ r.todo = todo /\ r.grant = grant
  BY <1>1 DEF Request
<1>3. req' = [req EXCEPT ![p] = r]
  BY DEF Committed
<1>4. req'[p] = r
  BY <1>3 DEF GoodRequests
<1> HIDE DEF r
<1>5. QED
  BY <1>2, <1>3, <1>4

\* The calls of _apply_revocation: both denials of every family of the order, no other.
LEMMA ApplyRevocationCalls ==
  ASSUME RowsInv, NEW order \in Seq(Fids)
  PROVE  /\ DOMAIN ApplyRevocation(order) = 1..(2 * Len(order))
         /\ \A k \in 1..(2 * Len(order)) : \E i \in 1..Len(order) :
              Denies(ApplyRevocation(order)[k], order[i], session[order[i]].access_jti)
         /\ \A i \in 1..Len(order) : /\ 2 * i \in 1..(2 * Len(order))
                                     /\ ApplyRevocation(order)[2 * i] = DenyFamily(order[i])
<1>1. Len(order) \in Nat
  OBVIOUS
<1>2. ASSUME NEW k \in 1..(2 * Len(order))
      PROVE  /\ (k + 1) \div 2 \in 1..Len(order)
             /\ Denies(ApplyRevocation(order)[k], order[(k + 1) \div 2],
                       session[order[(k + 1) \div 2]].access_jti)
  <2>1. (k + 1) \div 2 \in 1..Len(order)
    BY <1>1
  <2>2. QED
    BY <2>1 DEF ApplyRevocation, Denies
<1>3. ASSUME NEW i \in 1..Len(order)
      PROVE  /\ 2 * i \in 1..(2 * Len(order))
             /\ ApplyRevocation(order)[2 * i] = DenyFamily(order[i])
  <2>1. 2 * i \in 1..(2 * Len(order))
    BY <1>1
  <2>2. (2 * i + 1) \div 2 = i /\ (2 * i) % 2 # 1
    BY <1>1
  <2>3. QED
    BY <2>1, <2>2 DEF ApplyRevocation
<1>4. DOMAIN ApplyRevocation(order) = 1..(2 * Len(order))
  BY DEF ApplyRevocation
<1>5. QED
  BY <1>2, <1>3, <1>4

\* An ordering of S visits all of S and nothing else.
LEMMA OrderingVisits ==
  ASSUME NEW S \in SUBSET Fids, NEW order \in Orderings(S)
  PROVE  /\ order \in Seq(Fids)
         /\ \A i \in 1..Len(order) : order[i] \in S
         /\ \A f \in S : \E i \in 1..Len(order) : order[i] = f
<1> DEFINE n == Cardinality(S)
<1>1. IsFiniteSet(S)
  BY FS_Subset, ControlAssumption
<1>2. n \in Nat
  BY <1>1, FS_CardinalityType
<1>3. order \in [1..n -> S] /\ \A i, j \in 1..n : i # j => order[i] # order[j]
  BY DEF Orderings
<1>4. order \in Injection(1..n, S)
  BY <1>3 DEF Injection, IsInjective
<1>5. Cardinality(1..n) = n
  BY <1>2, FS_Interval
<1>6. order \in Surjection(1..n, S)
  BY <1>1, <1>4, <1>5, FS_Injection
<1> HIDE DEF n
<1>7. order \in Seq(Fids) /\ Len(order) = n
  BY <1>2, <1>3
<1>8. QED
  BY <1>3, <1>6, <1>7 DEF Surjection

\* A call of _apply_revocation is true once its family is gone.
LEMMA RevocationIsTrue ==
  ASSUME NEW f \in Fids, NEW c, NEW jti, Denies(c, f, jti), family'[f].status = "revoked"
  PROVE  TrueCall(c, family', session', clock')
  BY DEF Denies, DenyJti, DenyFamily, TrueCall, Gone, Spent

\* A call that denies the access token before the current one is true.
LEMMA OldJtiIsTrue ==
  ASSUME NEW f \in Fids, NEW jti \in Nat, family'[f].status # "absent",
         session'[f].access_jti = jti + 1
  PROVE  TrueCall(DenyJti(f, jti), family', session', clock')
  BY DEF DenyJti, TrueCall, Spent

\* The calls of two lists made one after the other.
LEMMA ConcatCalls ==
  ASSUME NEW S, NEW s \in Seq(S), NEW t \in Seq(S)
  PROVE  /\ \A k \in DOMAIN (s \o t) : \/ \E i \in DOMAIN s : (s \o t)[k] = s[i]
                                       \/ \E i \in DOMAIN t : (s \o t)[k] = t[i]
         /\ \A i \in DOMAIN s : \E k \in DOMAIN (s \o t) : (s \o t)[k] = s[i]
         /\ \A i \in DOMAIN t : \E k \in DOMAIN (s \o t) : (s \o t)[k] = t[i]
<1>1. /\ Len(s) \in Nat /\ DOMAIN s = 1..Len(s)
      /\ Len(t) \in Nat /\ DOMAIN t = 1..Len(t)
  OBVIOUS
<1>2. s \o t \in Seq(S) /\ Len(s \o t) = Len(s) + Len(t)
  OBVIOUS
<1>3. DOMAIN (s \o t) = 1..(Len(s) + Len(t))
  BY <1>2
<1>4. \A k \in 1..(Len(s) + Len(t)) :
        (s \o t)[k] = IF k <= Len(s) THEN s[k] ELSE t[k - Len(s)]
  BY <1>1
<1>5. ASSUME NEW k \in DOMAIN (s \o t)
      PROVE  \/ \E i \in DOMAIN s : (s \o t)[k] = s[i]
             \/ \E i \in DOMAIN t : (s \o t)[k] = t[i]
  <2>1. CASE k <= Len(s)
    <3>1. k \in DOMAIN s /\ (s \o t)[k] = s[k]
      BY <1>1, <1>3, <1>4, <2>1
    <3>2. QED
      BY <3>1
  <2>2. CASE ~(k <= Len(s))
    <3>1. k - Len(s) \in DOMAIN t /\ (s \o t)[k] = t[k - Len(s)]
      BY <1>1, <1>3, <1>4, <2>2
    <3>2. QED
      BY <3>1
  <2>3. QED
    BY <2>1, <2>2
<1>6. ASSUME NEW i \in DOMAIN s PROVE \E k \in DOMAIN (s \o t) : (s \o t)[k] = s[i]
  <2>1. i \in DOMAIN (s \o t) /\ (s \o t)[i] = s[i]
    BY <1>1, <1>3, <1>4
  <2>2. QED
    BY <2>1
<1>7. ASSUME NEW i \in DOMAIN t PROVE \E k \in DOMAIN (s \o t) : (s \o t)[k] = t[i]
  <2>1. i + Len(s) \in DOMAIN (s \o t) /\ (s \o t)[i + Len(s)] = t[i]
    BY <1>1, <1>3, <1>4
  <2>2. QED
    BY <2>1
<1>8. QED
  BY <1>5, <1>6, <1>7

\* The commit of a revocation of the families of S, whatever order they come back in.
LEMMA RevocationCommits ==
  ASSUME RowsInv, GoodRequests, NEW p \in Txs, req[p].pc # "redis",
         NEW S \in SUBSET Fids, NEW order \in Seq(Fids),
         \A f \in S : family[f].status # "absent" /\ family'[f].status = "revoked",
         \A f \in Fids \ S : Live(f) => family'[f] = family[f] /\ session'[f] = session[f],
         \A i \in 1..Len(order) : order[i] \in S,
         \A f \in S : \E i \in 1..Len(order) : order[i] = f,
         NEW todo,
         \A k \in DOMAIN todo :
           \/ TrueCall(todo[k], family', session', clock')
           \/ \E i \in DOMAIN ApplyRevocation(order) : todo[k] = ApplyRevocation(order)[i],
         \A i \in DOMAIN ApplyRevocation(order) :
           \E k \in DOMAIN todo : todo[k] = ApplyRevocation(order)[i],
         NEW grant, NEW n, Committed(p, todo, grant, n),
         grant # None =>
           /\ grant.iat \in Nat /\ grant.iat <= clock
           /\ family'[grant.f].status = "live" /\ session'[grant.f].access_jti = grant.jti,
         UNCHANGED <<clock, access, deniedJti, deniedFamily, userRevoked, orgRevoked, lost>>
  PROVE  CommitStep(p)
<1>1. /\ req' = [req EXCEPT ![p] = req'[p]]
      /\ req'[p].pc = "redis" /\ req'[p].todo = todo /\ req'[p].grant = grant
  BY CommittedRequest
<1>2. ASSUME NEW f \in S
      PROVE  \E k \in DOMAIN todo : Denies(todo[k], f, session[f].access_jti)
  <2>1. PICK i \in 1..Len(order) : order[i] = f
    OBVIOUS
  <2>2. /\ 2 * i \in DOMAIN ApplyRevocation(order)
        /\ ApplyRevocation(order)[2 * i] = DenyFamily(f)
    BY <2>1, ApplyRevocationCalls
  <2>3. QED
    BY <2>2 DEF Denies
<1>3. ASSUME NEW i \in DOMAIN ApplyRevocation(order)
      PROVE  TrueCall(ApplyRevocation(order)[i], family', session', clock')
  <2>1. PICK j \in 1..Len(order) :
          Denies(ApplyRevocation(order)[i], order[j], session[order[j]].access_jti)
    BY ApplyRevocationCalls
  <2>2. order[j] \in Fids /\ family'[order[j]].status = "revoked"
    OBVIOUS
  <2>3. QED
    BY <2>1, <2>2, RevocationIsTrue
<1>4. \A k \in DOMAIN todo : TrueCall(todo[k], family', session', clock')
  BY <1>3
<1>5. QED
  BY <1>1, <1>2, <1>4 DEF CommitStep, Live
\* The same for one family: logout, revoke_selected and a refused refresh token.
LEMMA OneRevocationCommits ==
  ASSUME RowsInv, GoodRequests, NEW p \in Txs, req[p].pc # "redis",
         NEW f \in Fids, Exists(f), NEW reason, RevokeLocked({f}, reason),
         Committed(p, ApplyRevocation(<< f >>), None, 0),
         UNCHANGED <<clock, access, deniedJti, deniedFamily, userRevoked, orgRevoked, lost>>
  PROVE  CommitStep(p)
<1>1. \A g \in Fids : /\ g \in {f} => family'[g].status = "revoked"
                      /\ g \notin {f} => family'[g] = family[g] /\ session'[g] = session[g]
  BY RevokeLockedMoves
<1>2. family[f].status # "absent"
  BY DEF Exists
<1> DEFINE order == << f >>
           S == {f}
           todo == ApplyRevocation(order)
<1>3. order \in Seq(Fids) /\ Len(order) = 1 /\ order[1] = f
  OBVIOUS
<1>4. S \in SUBSET Fids /\ f \in S /\ \A g \in S : g = f
  OBVIOUS
<1>5. Committed(p, todo, None, 0)
  OBVIOUS
<1>6. \A k \in DOMAIN todo :
         \/ TrueCall(todo[k], family', session', clock')
         \/ \E i \in DOMAIN ApplyRevocation(order) : todo[k] = ApplyRevocation(order)[i]
  OBVIOUS
<1>7. \A i \in DOMAIN ApplyRevocation(order) :
         \E k \in DOMAIN todo : todo[k] = ApplyRevocation(order)[i]
  OBVIOUS
<1>8. /\ \A g \in S : family[g].status # "absent" /\ family'[g].status = "revoked"
      /\ \A g \in Fids \ S : Live(g) => family'[g] = family[g] /\ session'[g] = session[g]
  BY <1>1, <1>2
<1> HIDE DEF order, S, todo
<1>9. /\ \A i \in 1..Len(order) : order[i] \in S
      /\ \A g \in S : \E i \in 1..Len(order) : order[i] = g
  BY <1>3, <1>4
<1>10. None # None =>
         /\ None.iat \in Nat /\ None.iat <= clock
         /\ family'[None.f].status = "live" /\ session'[None.f].access_jti = None.jti
  OBVIOUS
<1>11. S \in SUBSET Fids /\ order \in Seq(Fids)
  BY <1>3, <1>4
<1>12. QED
  BY <1>5, <1>6, <1>7, <1>8, <1>9, <1>10, <1>11, RevocationCommits

\* A new access token for a live session: refresh and issue_workspace_scope.
LEMMA NewTokenCommits ==
  ASSUME RowsInv, GoodRequests, NEW p \in Txs, req[p].pc # "redis",
         NEW f \in Fids, Live(f), NEW o, NEW iat \in CallerNow, NEW n, family' = family,
         NEW row, row.access_jti = session[f].access_jti + 1,
         session' = [session EXCEPT ![f] = row],
         Committed(p, << DenyJti(f, session[f].access_jti) >>,
                   [f |-> f, jti |-> session[f].access_jti + 1, iat |-> iat, org |-> o], n),
         UNCHANGED <<clock, access, deniedJti, deniedFamily, userRevoked, orgRevoked, lost>>
  PROVE  CommitStep(p)
<1> DEFINE jti == session[f].access_jti
           todo == << DenyJti(f, jti) >>
           grant == [f |-> f, jti |-> jti + 1, iat |-> iat, org |-> o]
<1>1. /\ req' = [req EXCEPT ![p] = req'[p]]
      /\ req'[p].pc = "redis" /\ req'[p].todo = todo /\ req'[p].grant = grant
  BY CommittedRequest
<1>2. session \in [Fids -> SessionRow] /\ jti \in Nat /\ clock \in Nat
  BY DEF RowsInv, TypeOK, SessionRow
<1>3. /\ session'[f].access_jti = jti + 1
      /\ \A g \in Fids : g # f => session'[g] = session[g]
  BY <1>2
<1>4. DOMAIN todo = {1} /\ todo[1] = DenyJti(f, jti)
  OBVIOUS
<1>5. TrueCall(DenyJti(f, jti), family', session', clock')
  BY <1>2, <1>3, OldJtiIsTrue DEF Live
<1>6. grant.f = f /\ grant.jti = jti + 1 /\ grant.iat = iat
  OBVIOUS
<1>7. iat \in Nat /\ iat <= clock
  BY <1>2 DEF CallerNow
<1> HIDE DEF todo, grant
<1>8. \A g \in Fids : Live(g) =>
        \/ family'[g].status = "live" /\ session'[g].access_jti = session[g].access_jti
        \/ \E k \in DOMAIN todo : Denies(todo[k], g, session[g].access_jti)
  BY <1>3, <1>4 DEF Denies, Live
<1>9. \A k \in DOMAIN todo : TrueCall(todo[k], family', session', clock')
  BY <1>4, <1>5
<1>10. /\ grant.iat \in Nat /\ grant.iat <= clock
       /\ family'[grant.f].status = "live" /\ session'[grant.f].access_jti = grant.jti
  BY <1>3, <1>6, <1>7 DEF Live
<1>11. QED
  BY <1>1, <1>8, <1>9, <1>10 DEF CommitStep

\* refresh.
LEMMA RefreshCommits ==
  ASSUME RowsInv, ControlInv, NEW p \in Txs, NEW f \in Fids, NEW i \in DOMAIN token[f],
         NEW d \in Devices, NEW n \in CallerNow, Refresh(p, f, i, d, n)
  PROVE  CommitStep(p)
<1>1. /\ GoodRequests /\ req[p].pc # "redis"
      /\ UNCHANGED <<clock, access, deniedJti, deniedFamily, userRevoked, orgRevoked, lost>>
  BY DEF Refresh, RotateRefreshToken, RefuseRotation, redis, faults, ControlInv
<1>2. CASE /\ RotateRefreshToken(f, i, d, n)
           /\ Committed(p, << DenyJti(f, session[f].access_jti) >>,
                [f |-> f, jti |-> session[f].access_jti + 1, iat |-> n, org |-> None],
                Len(token[f]) + 1)
  <2>1. Live(f) /\ family' = family
    BY <1>2 DEF RotateRefreshToken, RotationStatus
  <2>2. session' = [session EXCEPT ![f] = Rescoped(session[f], None, n)]
    BY <1>2 DEF RotateRefreshToken
  <2>3. Rescoped(session[f], None, n).access_jti = session[f].access_jti + 1
    BY RescopedJti DEF RowsInv, TypeOK
  <2>4. QED
    BY <1>1, <1>2, <2>1, <2>2, <2>3, NewTokenCommits
<1>3. CASE /\ RefuseRotation(f, i, d, n)
           /\ Committed(p, ApplyRevocation(<< f >>), None, 0)
  <2>1. PICK reason : RevokeLocked({f}, reason)
    BY <1>3 DEF RefuseRotation
  <2>2. family \in [Fids -> FamilyRow] /\ token[f] \in Seq(TokenRow) /\ token[f] # << >>
    BY DEF RowsInv, TypeOK
  <2>3. Exists(f)
    BY <2>2 DEF RowsInv, GoodRows, Exists, FamilyRow
  <2>4. QED
    BY <1>1, <1>3, <2>1, <2>3, OneRevocationCommits
<1>4. QED
  BY <1>2, <1>3 DEF Refresh

\* create_session: the evicted sessions are denied, the new one is granted.
LEMMA CreateCommits ==
  ASSUME RowsInv, ControlInv, NEW p \in Txs, CreateCommit(p), req[p].now <= clock
  PROVE  CommitStep(p)
<1>1. /\ GoodRequests /\ req[p].pc # "redis" /\ req[p].now \in Nat
      /\ UNCHANGED <<clock, access, deniedJti, deniedFamily, userRevoked, orgRevoked, lost>>
  BY DEF CreateCommit, CreateSessionCommit, redis, faults, ControlInv, GoodRequests, GoodRequest, Request
<1>2. PICK f \in Fids, d \in Devices, E \in SUBSET Fids :
        /\ CreateSessionCommit(p, f, d, E)
        /\ \E order \in Orderings(E) :
             Committed(p, ApplyRevocation(order),
                       [f |-> f, jti |-> 1, iat |-> req[p].now, org |-> None], 1)
  BY DEF CreateCommit
<1>3. PICK order \in Orderings(E) :
        Committed(p, ApplyRevocation(order),
                  [f |-> f, jti |-> 1, iat |-> req[p].now, org |-> None], 1)
  BY <1>2
<1> DEFINE grant == [f |-> f, jti |-> 1, iat |-> req[p].now, org |-> None]
<1>4. /\ order \in Seq(Fids)
      /\ \A i \in 1..Len(order) : order[i] \in E
      /\ \A g \in E : \E i \in 1..Len(order) : order[i] = g
  BY OrderingVisits
<1>5. /\ family[f].status = "absent"
      /\ family'[f].status = "live" /\ session'[f].access_jti = 1
      /\ \A g \in E : family[g].status = "live" /\ family'[g].status = "revoked"
      /\ \A g \in Fids \ (E \cup {f}) : family'[g] = family[g] /\ session'[g] = session[g]
  BY <1>2, CreateMoves
<1>6. \A g \in E : family[g].status # "absent" /\ family'[g].status = "revoked"
  BY <1>5
<1>7. \A g \in Fids \ E : Live(g) => family'[g] = family[g] /\ session'[g] = session[g]
  BY <1>5 DEF Live
<1>8. grant.f = f /\ grant.jti = 1 /\ grant.iat = req[p].now
  OBVIOUS
<1> HIDE DEF grant
<1>9. /\ grant.iat \in Nat /\ grant.iat <= clock
      /\ family'[grant.f].status = "live" /\ session'[grant.f].access_jti = grant.jti
  BY <1>1, <1>5, <1>8
<1>10. Committed(p, ApplyRevocation(order), grant, 1)
  BY <1>3 DEF grant
<1>11. QED
  BY <1>1, <1>4, <1>6, <1>7, <1>9, <1>10, RevocationCommits

\* logout_all and revoke_user_access.
LEMMA RevokeUserCommits ==
  ASSUME RowsInv, ControlInv, NEW p \in Txs, RevokeUserCommit(p), req[p].now <= clock
  PROVE  CommitStep(p)
<1>1. /\ GoodRequests /\ req[p].pc # "redis"
      /\ UNCHANGED <<clock, access, deniedJti, deniedFamily, userRevoked, orgRevoked, lost>>
  BY DEF RevokeUserCommit, RevokeAllCommit, redis, faults, ControlInv
<1>2. /\ RevokeAllRows(p) \in SUBSET Fids
      /\ \A f \in RevokeAllRows(p) : Exists(f)
  BY DEF RevokeAllRows, Unrevoked, Live, Exists
<1>3. PICK reason : RevokeLocked(RevokeAllRows(p), reason)
  BY DEF RevokeUserCommit, RevokeAllCommit
<1> DEFINE S == RevokeAllRows(p)
           first == << DenyUser(req[p].user, req[p].now) >>
<1>4. PICK order \in Orderings(S) : Committed(p, first \o ApplyRevocation(order), None, 0)
  BY DEF RevokeUserCommit
<1>5. /\ order \in Seq(Fids)
      /\ \A i \in 1..Len(order) : order[i] \in S
      /\ \A g \in S : \E i \in 1..Len(order) : order[i] = g
  BY <1>2, OrderingVisits
<1>6. /\ \A f \in S : family[f].status # "absent" /\ family'[f].status = "revoked"
      /\ \A f \in Fids \ S : Live(f) => family'[f] = family[f] /\ session'[f] = session[f]
  BY <1>2, <1>3, RevokeLockedMoves DEF Exists
<1>7. /\ req[p] \in Request /\ req[p].user \in Users
  BY DEF RevokeUserCommit, ControlInv, GoodRequests, GoodRequest, CarriesUser
<1>8. first \in Seq(Call) /\ ApplyRevocation(order) \in Seq(Call)
  BY <1>5, <1>7, ApplyRevocationType DEF DenyUser, Call, Request
<1>9. \A i \in DOMAIN first : TrueCall(first[i], family', session', clock')
  <2>1. PICK c : c = DenyUser(req[p].user, req[p].now)
    OBVIOUS
  <2>2. c.call = "revoke_user" /\ c.at = req[p].now
    BY <2>1 DEF DenyUser
  <2>3. TrueCall(c, family', session', clock')
    BY <1>1, <2>2 DEF TrueCall
  <2>4. QED
    BY <2>1, <2>3
<1> DEFINE todo == first \o ApplyRevocation(order)
<1> HIDE DEF first, S
<1>10. \A k \in DOMAIN todo :
         \/ TrueCall(todo[k], family', session', clock')
         \/ \E i \in DOMAIN ApplyRevocation(order) : todo[k] = ApplyRevocation(order)[i]
  BY <1>8, <1>9, ConcatCalls
<1>11. \A i \in DOMAIN ApplyRevocation(order) :
         \E k \in DOMAIN todo : todo[k] = ApplyRevocation(order)[i]
  BY <1>8, ConcatCalls
<1>12. S \in SUBSET Fids /\ Committed(p, todo, None, 0)
  BY <1>2, <1>4 DEF S
<1> HIDE DEF todo
<1>13. QED
  BY <1>1, <1>5, <1>6, <1>10, <1>11, <1>12, RevocationCommits
\* offboard_member: the sessions that were scoped to the organization are denied.
LEMMA OffboardCommits ==
  ASSUME RowsInv, ControlInv, NEW p \in Txs, NEW u \in Users, NEW o \in Orgs, Offboard(p, u, o)
  PROVE  CommitStep(p)
<1> DEFINE S == ScopedTo(u, o)
           first == << DenyOrg(u, o) >>
<1>1. /\ GoodRequests /\ req[p].pc # "redis" /\ family' = family
      /\ UNCHANGED <<clock, access, deniedJti, deniedFamily, userRevoked, orgRevoked, lost>>
  BY DEF Offboard, OffboardSessions, redis, faults, ControlInv
<1>2. PICK order \in Orderings(S) :
        Committed(p, first \o
                     [k \in 1..Len(order) |-> DenyJti(order[k], session[order[k]].access_jti)],
                  None, 0)
  BY DEF Offboard
<1> DEFINE jtis == [k \in 1..Len(order) |-> DenyJti(order[k], session[order[k]].access_jti)]
           todo == first \o jtis
<1>3. S \in SUBSET Fids /\ \A f \in S : Exists(f)
  BY DEF ScopedTo
<1>4. /\ order \in Seq(Fids)
      /\ \A i \in 1..Len(order) : order[i] \in S
      /\ \A f \in S : \E i \in 1..Len(order) : order[i] = f
  BY <1>3, OrderingVisits
<1>5. /\ session \in [Fids -> SessionRow]
      /\ \A f \in Fids : session[f].access_jti \in Nat
  BY DEF RowsInv, TypeOK, SessionRow
<1>6. \A f \in Fids : session'[f] = IF f \in S THEN Rescoped(session[f], None, clock)
                                               ELSE session[f]
  BY DEF Offboard, OffboardSessions
<1> HIDE DEF S
<1>7. \A f \in Fids : session'[f].access_jti = IF f \in S THEN session[f].access_jti + 1
                                                          ELSE session[f].access_jti
  BY <1>5, <1>6, RescopedJti
<1>8. \A i \in 1..Len(order) : DenyJti(order[i], session[order[i]].access_jti) \in Call
  BY <1>4, DenyJtiType
<1>9. first \in Seq(Call) /\ jtis \in Seq(Call)
  BY <1>4, <1>8 DEF DenyOrg, Call
<1>10. DOMAIN jtis = 1..Len(order)
  OBVIOUS
<1>11. \A i \in 1..Len(order) : jtis[i] = DenyJti(order[i], session[order[i]].access_jti)
  OBVIOUS
<1>12. \A i \in DOMAIN first : TrueCall(first[i], family', session', clock')
  BY DEF TrueCall, DenyOrg
<1>13. /\ req' = [req EXCEPT ![p] = req'[p]]
       /\ req'[p].pc = "redis" /\ req'[p].todo = todo /\ req'[p].grant = None
  BY <1>1, <1>2, CommittedRequest
<1> HIDE DEF first, jtis
<1>14. ASSUME NEW i \in 1..Len(order) PROVE TrueCall(jtis[i], family', session', clock')
  <2>1. order[i] \in S /\ order[i] \in Fids
    BY <1>3, <1>4
  <2>2. family'[order[i]].status # "absent"
    BY <1>1, <1>3, <2>1 DEF Exists
  <2>3. QED
    BY <1>5, <1>7, <1>11, <2>1, <2>2, OldJtiIsTrue
<1>15. \A k \in DOMAIN todo : TrueCall(todo[k], family', session', clock')
  BY <1>9, <1>10, <1>12, <1>14, ConcatCalls
<1>15a. \A i \in DOMAIN jtis : \E k \in DOMAIN todo : todo[k] = jtis[i]
  BY <1>9, ConcatCalls
<1>16. ASSUME NEW f \in S
       PROVE  \E k \in DOMAIN todo : Denies(todo[k], f, session[f].access_jti)
  <2>1. PICK i \in 1..Len(order) : order[i] = f
    BY <1>4
  <2>2. PICK k \in DOMAIN todo : todo[k] = jtis[i]
    BY <1>10, <1>15a
  <2>3. QED
    BY <1>11, <2>1, <2>2 DEF Denies
<1> HIDE DEF todo
<1>17. \A f \in Fids : Live(f) =>
         \/ family'[f].status = "live" /\ session'[f].access_jti = session[f].access_jti
         \/ \E k \in DOMAIN todo : Denies(todo[k], f, session[f].access_jti)
  BY <1>1, <1>7, <1>16 DEF Live
<1>18. QED
  BY <1>1, <1>13, <1>15, <1>17 DEF CommitStep

-----------------------------------------------------------------------------
\* The steps that go on with a clock reading.
HasRead == {"create", "creating", "logging_out", "suspending"}

\* Only a handler that has committed owes calls and a token; a creation or a revocation
\* that is open read its clock in the past.
Quiet ==
  \A p \in Txs :
    /\ req[p].pc # "redis" => req[p].todo = << >> /\ req[p].grant = None
    /\ req[p].pc \in HasRead => req[p].now <= clock

\* A step that begins a request, waits or gives up: nothing is committed or owed.
QuietStep(p) ==
  /\ req' = [req EXCEPT ![p] = req'[p]]
  /\ req'[p].pc # "redis"
  /\ req'[p].todo = << >> /\ req'[p].grant = None
  /\ req'[p].pc \in HasRead => req'[p].now <= clock
  /\ req[p].todo = << >>
  /\ UNCHANGED <<clock, family, session, access, deniedJti, deniedFamily, userRevoked, orgRevoked, lost>>

\* A process that goes back to idle carries nothing.
LEMMA EndsQuietly ==
  ASSUME GoodRequests, Quiet, NEW p \in Txs, req' = [req EXCEPT ![p] = Idle],
         req[p].pc # "redis",
         UNCHANGED <<clock, family, session, access, deniedJti, deniedFamily, userRevoked, orgRevoked, lost>>
  PROVE  QuietStep(p)
<1>1. req'[p] = Idle
  BY DEF GoodRequests
<1>2. req[p].todo = << >>
  BY DEF Quiet
<1>3. Idle.pc = "idle" /\ Idle.pc \notin HasRead /\ Idle.todo = << >> /\ Idle.grant = None
  BY DEF Idle, HasRead
<1>4. req' = [req EXCEPT ![p] = req'[p]]
  BY <1>1
<1>5. QED
  BY <1>1, <1>2, <1>3, <1>4 DEF QuietStep

\* Every step of a handler commits, is quiet, calls Redis or replies.
LEMMA BeginSteps ==
  ASSUME RowsInv, ControlInv, Quiet, NEW p \in Txs, Begin(p)
  PROVE  CommitStep(p) \/ QuietStep(p)
<1>1. GoodRequests /\ clock \in Nat
  BY DEF ControlInv, RowsInv, TypeOK
<1>2. ASSUME NEW r, r.todo = << >>, r.grant = None, r.pc # "redis",
             r.pc \in HasRead => r.now <= clock,
             req' = [req EXCEPT ![p] = r], req[p].pc = "idle",
             UNCHANGED <<clock, family, session, access, deniedJti, deniedFamily, userRevoked, orgRevoked, lost>>
      PROVE  QuietStep(p)
  <2>1. req'[p] = r
    BY <1>1, <1>2 DEF GoodRequests
  <2>2. req[p].todo = << >>
    BY <1>2 DEF Quiet
  <2>3. req' = [req EXCEPT ![p] = req'[p]]
    BY <1>2, <2>1
  <2>4. QED
    BY <1>2, <2>1, <2>2, <2>3 DEF QuietStep
<1>3. ASSUME NEW u \in Users, CreateBegin(p, u) PROVE QuietStep(p)
  <2>1. req[p].pc = "idle" /\ UNCHANGED <<clock, family, session, access, deniedJti, deniedFamily, userRevoked, orgRevoked, lost>>
    BY <1>3 DEF CreateBegin, vars, redis, faults
  <2>2. CASE req' = req
    <3>1. req' = [req EXCEPT ![p] = req[p]]
      BY <1>1, <2>2 DEF GoodRequests
    <3>2. req[p].todo = << >> /\ req[p].grant = None /\ req[p].pc \notin HasRead
      BY <2>1 DEF Quiet, HasRead
    <3>3. QED
      BY <1>2, <2>1, <3>1, <3>2
  <2>3. CASE req' = [req EXCEPT ![p] = [Idle EXCEPT !.pc = "create", !.user = u, !.now = clock]]
    <3> DEFINE r == [Idle EXCEPT !.pc = "create", !.user = u, !.now = clock]
    <3>1. r.todo = << >> /\ r.grant = None /\ r.pc = "create" /\ r.now = clock
      BY DEF Idle
    <3>2. req' = [req EXCEPT ![p] = r] /\ r.now <= clock
      BY <1>1, <2>3, <3>1
    <3> HIDE DEF r
    <3>3. QED
      BY <1>2, <2>1, <3>1, <3>2
  <2>4. QED
    BY <1>3, <2>2, <2>3 DEF CreateBegin
<1>4. ASSUME NEW f \in Fids, NEW i \in DOMAIN token[f], NEW d \in Devices,
             NEW n \in CallerNow, Refresh(p, f, i, d, n)
      PROVE  CommitStep(p)
  BY <1>4, RefreshCommits
<1>5. ASSUME NEW a \in access, NEW h \in Authenticated, Authenticate(p, a, h)
      PROVE  QuietStep(p)
  <2> DEFINE r == [Idle EXCEPT !.pc = h, !.user = Owner(a.f), !.f = a.f]
  <2>1. r.todo = << >> /\ r.grant = None /\ r.pc = h
    BY DEF Idle
  <2>2. h # "redis" /\ h \notin HasRead
    BY DEF Authenticated, HasRead
  <2>3. /\ req[p].pc = "idle" /\ req' = [req EXCEPT ![p] = r]
        /\ UNCHANGED <<clock, family, session, access, deniedJti, deniedFamily, userRevoked, orgRevoked, lost>>
    BY <1>5 DEF Authenticate, vars, redis, faults
  <2> HIDE DEF r
  <2>4. QED
    BY <1>2, <2>1, <2>2, <2>3
<1>6. ASSUME NEW u \in Users, Suspend(p, u) PROVE QuietStep(p)
  <2> DEFINE r == [Idle EXCEPT !.pc = "suspended", !.user = u]
  <2>1. r.todo = << >> /\ r.grant = None /\ r.pc = "suspended" /\ r.pc \notin HasRead
    BY DEF Idle, HasRead
  <2>2. /\ req[p].pc = "idle" /\ req' = [req EXCEPT ![p] = r]
        /\ UNCHANGED <<clock, family, session, access, deniedJti, deniedFamily, userRevoked, orgRevoked, lost>>
    BY <1>6 DEF Suspend, vars, redis, faults
  <2> HIDE DEF r
  <2>3. QED
    BY <1>2, <2>1, <2>2
<1>7. ASSUME NEW u \in Users, NEW o \in Orgs, Offboard(p, u, o) PROVE CommitStep(p)
  BY <1>7, OffboardCommits
<1>8. QED
  BY <1>3, <1>4, <1>5, <1>6, <1>7 DEF Begin
\* The same for the steps of a running handler.
LEMMA ContinueSteps ==
  ASSUME RowsInv, ControlInv, Quiet, NEW p \in Txs, Continue(p)
  PROVE  CommitStep(p) \/ QuietStep(p) \/ RedisCall(p) \/ Reply(p)
<1>1. /\ GoodRequests /\ req[p] \in Request
      /\ req[p].pc \in {"logout", "scope"} => req[p].f \in Fids
      /\ req[p].pc \in HasRead => req[p].now <= clock
      /\ req[p].pc # "redis" => req[p].todo = << >> /\ req[p].grant = None
  BY DEF ControlInv, GoodRequests, GoodRequest, Quiet
<1>2. ASSUME NEW r, r.todo = req[p].todo, r.grant = req[p].grant,
             req[p].pc # "redis", r.pc # "redis",
             r.pc \in HasRead => r.now <= clock,
             req' = [req EXCEPT ![p] = r],
             UNCHANGED <<clock, family, session, access, deniedJti, deniedFamily, userRevoked, orgRevoked, lost>>
      PROVE  QuietStep(p)
  <2>1. req'[p] = r
    BY <1>1, <1>2 DEF GoodRequests
  <2>2. req' = [req EXCEPT ![p] = req'[p]]
    BY <1>2, <2>1
  <2>3. QED
    BY <1>1, <1>2, <2>1, <2>2 DEF QuietStep
<1>3. CASE CreateSelect(p)
  <2> DEFINE r == [req[p] EXCEPT !.pc = "creating"]
  <2>1. /\ r.todo = req[p].todo /\ r.grant = req[p].grant
        /\ r.pc = "creating" /\ r.now = req[p].now
    BY <1>1 DEF Request
  <2>2. /\ req[p].pc = "create" /\ req[p].pc \in HasRead /\ req' = [req EXCEPT ![p] = r]
        /\ UNCHANGED <<clock, family, session, access, deniedJti, deniedFamily, userRevoked, orgRevoked, lost>>
    BY <1>3 DEF CreateSelect, CreateSessionSelect, redis, faults, HasRead
  <2> HIDE DEF r
  <2>3. QED
    BY <1>1, <1>2, <2>1, <2>2
<1>4. CASE CreateCommit(p)
  <2>1. req[p].now <= clock
    BY <1>1, <1>4 DEF CreateCommit, HasRead
  <2>2. QED
    BY <1>4, <2>1, CreateCommits
<1>5. CASE Logout(p)
  <2>1. /\ req[p].pc # "redis" /\ req[p].f \in Fids /\ Exists(req[p].f)
        /\ RevokeLocked({req[p].f}, "logout")
        /\ UNCHANGED <<clock, access, deniedJti, deniedFamily, userRevoked, orgRevoked, lost>>
    BY <1>1, <1>5 DEF Logout, RevokeSession, redis, faults
  <2>2. QED
    BY <1>1, <1>5, <2>1, OneRevocationCommits DEF Logout
<1>6. ASSUME NEW f \in Fids, RevokeSelected(p, f) PROVE CommitStep(p) \/ QuietStep(p)
  <2>1. CASE RevokeSession(f, "user_selected") /\ Committed(p, ApplyRevocation(<< f >>), None, 0)
    <3>1. /\ req[p].pc # "redis" /\ Exists(f) /\ RevokeLocked({f}, "user_selected")
          /\ UNCHANGED <<clock, access, deniedJti, deniedFamily, userRevoked, orgRevoked, lost>>
      BY <1>6, <2>1 DEF RevokeSelected, RevokeSession, redis, faults
    <3>2. QED
      BY <1>1, <2>1, <3>1, OneRevocationCommits
  <2>2. CASE req' = [req EXCEPT ![p] = Idle] /\ UNCHANGED vars
    <3>1. /\ req[p].pc # "redis"
          /\ UNCHANGED <<clock, family, session, access, deniedJti, deniedFamily, userRevoked, orgRevoked, lost>>
      BY <1>6, <2>2 DEF RevokeSelected, vars, redis, faults
    <3>2. QED
      BY <1>1, <2>2, <3>1, EndsQuietly
  <2>3. QED
    BY <1>6, <2>1, <2>2 DEF RevokeSelected
<1>7. CASE RevokeUserSelect(p)
  <2> DEFINE to == IF req[p].pc = "logout_all" THEN "logging_out" ELSE "suspending"
             r == [req[p] EXCEPT !.now = clock, !.pc = to]
  <2>1. to \in {"logging_out", "suspending"}
    OBVIOUS
  <2>2. /\ req[p].pc # "redis" /\ req' = [req EXCEPT ![p] = r]
        /\ UNCHANGED <<clock, family, session, access, deniedJti, deniedFamily, userRevoked, orgRevoked, lost>>
    BY <1>7 DEF RevokeUserSelect, RevokeAllSelect, redis, faults
  <2> HIDE DEF to
  <2>3. r.todo = req[p].todo /\ r.grant = req[p].grant /\ r.pc = to /\ r.now = clock
    BY <1>1 DEF Request
  <2>4. clock <= clock
    BY DEF RowsInv, TypeOK
  <2> HIDE DEF r
  <2>5. QED
    BY <1>2, <2>1, <2>2, <2>3, <2>4
<1>8. CASE RevokeUserCommit(p)
  <2>1. req[p].now <= clock
    BY <1>1, <1>8 DEF RevokeUserCommit, HasRead
  <2>2. QED
    BY <1>8, <2>1, RevokeUserCommits
<1>9. ASSUME NEW o \in Orgs, NEW n \in CallerNow, Scope(p, o, n)
      PROVE  CommitStep(p) \/ QuietStep(p)
  <2> DEFINE f == req[p].f
  <2>1. req[p].pc # "redis" /\ f \in Fids
    BY <1>1, <1>9 DEF Scope
  <2>2. CASE /\ ScopeSession(f, o, n)
             /\ Committed(p, << DenyJti(f, session[f].access_jti) >>,
                  [f |-> f, jti |-> session[f].access_jti + 1, iat |-> n, org |-> o], 0)
    <3>1. /\ Live(f) /\ family' = family
          /\ session' = [session EXCEPT ![f] = Rescoped(session[f], o, n)]
          /\ UNCHANGED <<clock, access, deniedJti, deniedFamily, userRevoked, orgRevoked, lost>>
      BY <1>9, <2>2 DEF Scope, ScopeSession, SessionIsActive, redis, faults
    <3>2. Rescoped(session[f], o, n).access_jti = session[f].access_jti + 1
      BY <2>1, RescopedJti DEF RowsInv, TypeOK
    <3> HIDE DEF f
    <3>3. QED
      BY <1>1, <2>1, <2>2, <3>1, <3>2, NewTokenCommits
  <2>3. CASE req' = [req EXCEPT ![p] = Idle] /\ UNCHANGED vars
    <3>1. UNCHANGED <<clock, family, session, access, deniedJti, deniedFamily, userRevoked, orgRevoked, lost>>
      BY <1>9, <2>3 DEF Scope, vars, redis, faults
    <3>2. QED
      BY <1>1, <2>1, <2>3, <3>1, EndsQuietly
  <2>4. QED
    BY <1>9, <2>2, <2>3 DEF Scope
<1>10. QED
  BY <1>3, <1>4, <1>5, <1>6, <1>7, <1>8, <1>9 DEF Continue

-----------------------------------------------------------------------------
(***************************************************************************)
(* The inductive invariant of Redis and the tokens.  A token that was      *)
(* handed out or is about to be is current, or some handler owes its       *)
(* denial, or failed owing it, or Redis holds a key that outlives it.      *)
(***************************************************************************)
RedisTypes ==
  /\ deniedJti \subseteq [f : Fids, jti : Nat, until : Nat]
  /\ deniedFamily \subseteq Fids
  /\ userRevoked \in [Users -> Nat \cup {None}]
  /\ orgRevoked \in [Users -> [Orgs -> Nat \cup {None}]]

Refused(a) ==
  \/ a.f \in deniedFamily
  \/ \E d \in deniedJti : d.f = a.f /\ d.jti = a.jti /\ a.iat + AccessTTL <= d.until

Covered(a) ==
  /\ a.iat <= clock
  /\ Unexpired(a) => Current(a) \/ DenialPending(a) \/ DenialLost(a) \/ Refused(a)

\* Handed out, or in the answer of a running handler.
Issued(a) == a \in access \/ (a # None /\ \E p \in Txs : req[p].grant = a)

TokensCovered == \A a \in AccessToken : Issued(a) => Covered(a)

DenialInv ==
  /\ RedisTypes
  /\ Quiet
  /\ DenialsTrue
  /\ KeysDated
  /\ TokensCovered

\* Requests of the processes a step leaves alone.
LEMMA OthersKeep ==
  ASSUME GoodRequests, NEW p \in Txs, req' = [req EXCEPT ![p] = req'[p]]
  PROVE  \A q \in Txs : q # p => req'[q] = req[q]
<1> DEFINE r == req'[p]
<1>1. req' = [req EXCEPT ![p] = r]
  OBVIOUS
<1> HIDE DEF r
<1>2. QED
  BY <1>1 DEF GoodRequests
\* A commit keeps the invariant.
LEMMA CommitKeepsDenials ==
  ASSUME RowsInv, RowsInv', ControlInv, [Next]_vars, DenialInv, NEW p \in Txs, CommitStep(p)
  PROVE  DenialInv'
<1>1. /\ GoodRequests /\ RedisTypes /\ Quiet /\ DenialsTrue /\ KeysDated
      /\ \A q \in Txs : q # p => req'[q] = req[q]
      /\ req[p].todo = << >>
  BY OthersKeep DEF ControlInv, DenialInv, CommitStep, Quiet
<1>2. UNCHANGED <<clock, access, deniedJti, deniedFamily, userRevoked, orgRevoked, lost>> /\ req'[p].pc = "redis"
  BY DEF CommitStep
<1>3. RedisTypes' /\ Quiet' /\ KeysDated'
  BY <1>1, <1>2 DEF RedisTypes, Quiet, HasRead, KeysDated
<1>4. DenialsTrue'
  <2>1. \A f \in deniedFamily : Gone(f, family')
    BY <1>1, DenialsStayTrue DEF DenialsTrue, RedisTypes
  <2>2. \A d \in deniedJti : Spent(d.f, d.jti, family', session')
    BY <1>1, DenialsStayTrue DEF DenialsTrue, RedisTypes
  <2>3. ASSUME NEW q \in Txs, NEW k \in DOMAIN req'[q].todo
        PROVE  TrueCall(req'[q].todo[k], family', session', clock')
    <3>1. CASE q = p
      BY <3>1 DEF CommitStep
    <3>2. CASE q # p
      <4>1. req'[q] = req[q] /\ req[q].todo \in Seq(Call)
        BY <1>1, <3>2 DEF GoodRequests, GoodRequest, Request
      <4>2. req[q].todo[k] \in Call
        BY <4>1
      <4>3. TrueCall(req[q].todo[k], family, session, clock)
        BY <1>1, <4>1 DEF DenialsTrue
      <4>4. QED
        BY <4>1, <4>2, <4>3, DenialsStayTrue
    <3>3. QED
      BY <3>1, <3>2
  <2>4. QED
    BY <1>2, <2>1, <2>2, <2>3 DEF DenialsTrue
<1>5. ASSUME NEW a \in AccessToken, Issued(a)' PROVE Covered(a)'
  <2>1. a.f \in Fids
    BY DEF AccessToken
  <2>2. CASE Issued(a)
    <3>1. Covered(a)
      BY <1>5, <2>2 DEF DenialInv, TokensCovered
    <3>2. CASE Current(a)
      <4>1. Current(a)' \/ DenialPending(a)'
        BY <2>1, <3>2 DEF Current, DenialPending, CommitStep, Denies, Live
      <4>2. QED
        BY <1>2, <3>1, <4>1 DEF Covered
    <3>3. CASE DenialPending(a)
      <4>1. PICK q \in Txs : \E k \in DOMAIN req[q].todo :
              req[q].todo[k] = DenyJti(a.f, a.jti) \/ req[q].todo[k] = DenyFamily(a.f)
        BY <3>3 DEF DenialPending
      <4>2. q # p
        BY <1>1, <4>1
      <4>3. DenialPending(a)'
        BY <1>1, <4>1, <4>2 DEF DenialPending
      <4>4. QED
        BY <1>2, <3>1, <4>3 DEF Covered
    <3>4. QED
      BY <1>2, <3>1, <3>2, <3>3 DEF Covered, Refused, Unexpired, DenialLost
  <2>3. CASE ~Issued(a)
    <3>1. a # None /\ req'[p].grant = a
      BY <1>1, <1>2, <1>5, <2>3 DEF Issued
    <3>2. Current(a)' /\ a.iat <= clock'
      BY <1>2, <3>1 DEF CommitStep, Current, Live
    <3>3. QED
      BY <3>2 DEF Covered
  <2>4. QED
    BY <2>2, <2>3
<1>6. QED
  BY <1>3, <1>4, <1>5 DEF DenialInv, TokensCovered

\* So does a step that commits nothing.
LEMMA QuietKeepsDenials ==
  ASSUME ControlInv, DenialInv, NEW p \in Txs, QuietStep(p)
  PROVE  DenialInv'
<1>1. /\ GoodRequests /\ RedisTypes /\ Quiet /\ DenialsTrue /\ KeysDated
      /\ \A q \in Txs : q # p => req'[q] = req[q]
  BY OthersKeep DEF ControlInv, DenialInv, QuietStep
<1>2. /\ UNCHANGED <<clock, family, session, access, deniedJti, deniedFamily, userRevoked, orgRevoked, lost>>
      /\ req'[p].todo = << >> /\ req'[p].grant = None
  BY DEF QuietStep
<1>3. RedisTypes' /\ Quiet' /\ KeysDated'
  BY <1>1, <1>2 DEF RedisTypes, Quiet, QuietStep, KeysDated
<1>4. DenialsTrue'
  BY <1>1, <1>2 DEF DenialsTrue
<1>5. ASSUME NEW a \in AccessToken, Issued(a)' PROVE Covered(a)'
  <2>1. Issued(a)
    BY <1>1, <1>2, <1>5 DEF Issued
  <2>2. Covered(a)
    BY <1>5, <2>1 DEF DenialInv, TokensCovered
  <2>3. req[p].todo = << >>
    BY DEF QuietStep
  <2>4. DenialPending(a) => DenialPending(a)'
    BY <1>1, <2>3 DEF DenialPending
  <2>5. QED
    BY <1>2, <2>2, <2>4 DEF Covered, Refused, Unexpired, Current, Live, DenialLost
<1>6. QED
  BY <1>3, <1>4, <1>5 DEF DenialInv, TokensCovered

\* A reply hands the token out.
LEMMA ReplyKeepsDenials ==
  ASSUME ControlInv, DenialInv, NEW p \in Txs, Reply(p)
  PROVE  DenialInv'
<1>1. /\ GoodRequests /\ RedisTypes /\ Quiet /\ DenialsTrue /\ KeysDated
      /\ req' = [req EXCEPT ![p] = Idle] /\ req[p].todo = << >>
      /\ UNCHANGED <<clock, family, session, deniedJti, deniedFamily, userRevoked, orgRevoked, lost>>
  BY DEF ControlInv, DenialInv, Reply, vars, redis, faults
<1>2. req'[p] = Idle /\ \A q \in Txs : q # p => req'[q] = req[q]
  BY <1>1 DEF GoodRequests
<1>3. Idle.pc = "idle" /\ Idle.pc \notin HasRead /\ Idle.todo = << >> /\ Idle.grant = None
  BY DEF Idle, HasRead
<1>4. RedisTypes' /\ Quiet' /\ KeysDated'
  BY <1>1, <1>2, <1>3 DEF RedisTypes, Quiet, KeysDated
<1>5. DenialsTrue'
  BY <1>1, <1>2, <1>3 DEF DenialsTrue
<1>6. \A a \in access' : a \in access \/ (req[p].grant # None /\ a = req[p].grant)
  BY DEF Reply
<1>7. ASSUME NEW a \in AccessToken, Issued(a)' PROVE Covered(a)'
  <2>1. Issued(a)
    BY <1>2, <1>3, <1>6, <1>7 DEF Issued
  <2>2. Covered(a)
    BY <1>7, <2>1 DEF DenialInv, TokensCovered
  <2>3. DenialPending(a) => DenialPending(a)'
    BY <1>1, <1>2 DEF DenialPending
  <2>4. QED
    BY <1>1, <2>2, <2>3 DEF Covered, Refused, Unexpired, Current, Live, DenialLost
<1>8. QED
  BY <1>4, <1>5, <1>7 DEF DenialInv, TokensCovered
\* A handler that fails owes nothing any more: what it owed is lost.
LEMMA FailKeepsDenials ==
  ASSUME ControlInv, DenialInv, NEW p \in Txs, Fail(p)
  PROVE  DenialInv'
<1>1. /\ GoodRequests /\ RedisTypes /\ Quiet /\ DenialsTrue /\ KeysDated
      /\ req' = [req EXCEPT ![p] = Idle]
      /\ lost' = lost \cup {req[p].todo[k] : k \in DOMAIN req[p].todo}
      /\ UNCHANGED <<clock, family, session, access, deniedJti, deniedFamily, userRevoked, orgRevoked>>
  BY DEF ControlInv, DenialInv, Fail, Rollback, vars
<1>2. req'[p] = Idle /\ \A q \in Txs : q # p => req'[q] = req[q]
  BY <1>1 DEF GoodRequests
<1>3. Idle.pc = "idle" /\ Idle.pc \notin HasRead /\ Idle.todo = << >> /\ Idle.grant = None
  BY DEF Idle, HasRead
<1>4. RedisTypes' /\ Quiet' /\ KeysDated'
  BY <1>1, <1>2, <1>3 DEF RedisTypes, Quiet, KeysDated
<1>5. DenialsTrue'
  BY <1>1, <1>2, <1>3 DEF DenialsTrue
<1>6. ASSUME NEW a \in AccessToken, Issued(a)' PROVE Covered(a)'
  <2>1. Issued(a)
    BY <1>1, <1>2, <1>3, <1>6 DEF Issued
  <2>2. Covered(a)
    BY <2>1 DEF DenialInv, TokensCovered
  <2>3. ASSUME DenialPending(a) PROVE DenialPending(a)' \/ DenialLost(a)'
    <3>1. PICK q \in Txs : \E k \in DOMAIN req[q].todo :
            req[q].todo[k] = DenyJti(a.f, a.jti) \/ req[q].todo[k] = DenyFamily(a.f)
      BY <2>3 DEF DenialPending
    <3>2. CASE q = p
      BY <1>1, <3>1, <3>2 DEF DenialLost
    <3>3. CASE q # p
      BY <1>2, <3>1, <3>3 DEF DenialPending
    <3>4. QED
      BY <3>2, <3>3
  <2>4. DenialLost(a) => DenialLost(a)'
    BY <1>1 DEF DenialLost
  <2>5. QED
    BY <1>1, <2>2, <2>3, <2>4 DEF Covered, Refused, Unexpired, Current, Live
<1>7. QED
  BY <1>4, <1>5, <1>6 DEF DenialInv, TokensCovered

\* The first call of a list is made and the others stay owed.
LEMMA TailCalls ==
  ASSUME NEW S, NEW s \in Seq(S), s # << >>
  PROVE  /\ Head(s) = s[1] /\ Head(s) \in S /\ 1 \in DOMAIN s
         /\ \A k \in DOMAIN Tail(s) : k + 1 \in DOMAIN s /\ Tail(s)[k] = s[k + 1]
         /\ \A k \in DOMAIN s : k = 1 \/ (k - 1 \in DOMAIN Tail(s) /\ Tail(s)[k - 1] = s[k])
<1>1. Len(s) \in Nat /\ DOMAIN s = 1..Len(s) /\ Len(s) > 0
  OBVIOUS
<1>2. Tail(s) \in Seq(S) /\ Len(Tail(s)) = Len(s) - 1 /\ DOMAIN Tail(s) = 1..(Len(s) - 1)
  BY <1>1
<1>3. \A k \in 1..(Len(s) - 1) : Tail(s)[k] = s[k + 1]
  BY <1>1, <1>2
<1>4. QED
  BY <1>1, <1>2, <1>3

\* A Redis call turns a denial that was owed into a key that outlives the token.
LEMMA RedisCallKeepsDenials ==
  ASSUME RowsInv, ControlInv, DenialInv, NEW p \in Txs, RedisCall(p)
  PROVE  DenialInv'
<1> DEFINE todo == req[p].todo
           c == Head(todo)
           r == [req[p] EXCEPT !.todo = Tail(req[p].todo)]
<1>1. /\ GoodRequests /\ RedisTypes /\ Quiet /\ DenialsTrue /\ KeysDated
      /\ req[p] \in Request /\ clock \in Nat
      /\ req[p].pc = "redis" /\ todo # << >>
      /\ UNCHANGED <<clock, family, session, access, lost>>
  BY DEF ControlInv, DenialInv, RedisCall, vars, faults, GoodRequests, GoodRequest, RowsInv, TypeOK
<1>2. req' = [req EXCEPT ![p] = r]
  BY DEF RedisCall
<1>3. r.pc = "redis" /\ r.todo = Tail(todo) /\ r.grant = req[p].grant
  BY <1>1 DEF Request
<1>4. req'[p] = r /\ \A q \in Txs : q # p => req'[q] = req[q]
  BY <1>1, <1>2 DEF GoodRequests
<1>5. todo \in Seq(Call)
  BY <1>1 DEF Request
<1> HIDE DEF r
<1>6. /\ c = todo[1] /\ c \in Call /\ 1 \in DOMAIN todo
      /\ \A k \in DOMAIN Tail(todo) : k + 1 \in DOMAIN todo /\ Tail(todo)[k] = todo[k + 1]
      /\ \A k \in DOMAIN todo : k = 1 \/ (k - 1 \in DOMAIN Tail(todo) /\ Tail(todo)[k - 1] = todo[k])
  BY <1>1, <1>5, TailCalls
<1>7. /\ c.call = "revoke_user" => c.at \in Nat
      /\ c.call = "revoke_family" => c.f \in Fids
      /\ c.call = "revoke_access_token" => c.f \in Fids /\ c.jti \in Nat
  BY <1>6 DEF Call
<1>8. /\ deniedJti' = IF c.call = "revoke_access_token"
                      THEN {d \in deniedJti : d.f # c.f \/ d.jti # c.jti}
                           \cup {[f |-> c.f, jti |-> c.jti, until |-> clock + AccessTTL]}
                      ELSE deniedJti
      /\ deniedFamily' = IF c.call = "revoke_family" THEN deniedFamily \cup {c.f}
                                                     ELSE deniedFamily
      /\ userRevoked' = IF c.call = "revoke_user" THEN [userRevoked EXCEPT ![c.user] = c.at]
                                                  ELSE userRevoked
      /\ orgRevoked' = IF c.call = "revoke_organization"
                       THEN [orgRevoked EXCEPT ![c.user][c.org] = clock] ELSE orgRevoked
  BY DEF RedisCall
<1> HIDE DEF c, todo
<1>9. clock + AccessTTL \in Nat /\ AccessTTL \in Nat
  BY <1>1, ControlAssumption
<1>10. RedisTypes' /\ Quiet'
  <2>1. deniedJti' \subseteq [f : Fids, jti : Nat, until : Nat]
    BY <1>1, <1>7, <1>8, <1>9 DEF RedisTypes
  <2>2. deniedFamily' \subseteq Fids
    BY <1>1, <1>7, <1>8 DEF RedisTypes
  <2>3. Quiet'
    BY <1>1, <1>3, <1>4 DEF Quiet, HasRead
  <2>4. userRevoked' \in [Users -> Nat \cup {None}]
    BY <1>1, <1>7, <1>8 DEF RedisTypes
  <2>5. orgRevoked' \in [Users -> [Orgs -> Nat \cup {None}]]
    BY <1>1, <1>8 DEF RedisTypes
  <2>6. QED
    BY <2>1, <2>2, <2>3, <2>4, <2>5 DEF RedisTypes
<1>10a. KeysDated'
  <2>1. c.call = "revoke_user" => c.at <= clock
    BY <1>1, <1>6 DEF DenialsTrue, TrueCall, todo
  <2>2. ASSUME NEW u \in Users, userRevoked'[u] # None PROVE userRevoked'[u] <= clock
    BY <1>1, <1>8, <2>1, <2>2 DEF KeysDated, RedisTypes
  <2>3. ASSUME NEW u \in Users, NEW o \in Orgs, orgRevoked'[u][o] # None
        PROVE  orgRevoked'[u][o] <= clock
    BY <1>1, <1>8, <2>3 DEF KeysDated, RedisTypes
  <2>4. QED
    BY <1>1, <2>2, <2>3 DEF KeysDated
<1>11. DenialsTrue'
  <2>1. TrueCall(c, family, session, clock)
    BY <1>1, <1>6 DEF DenialsTrue, todo
  <2>2. \A f \in deniedFamily' : Gone(f, family)
    BY <1>1, <1>8, <2>1 DEF DenialsTrue, TrueCall
  <2>3. \A d \in deniedJti' : d \in deniedJti \/
          (c.call = "revoke_access_token" /\ d.f = c.f /\ d.jti = c.jti)
    BY <1>8
  <2>4. \A d \in deniedJti' : Spent(d.f, d.jti, family, session)
    BY <1>1, <2>1, <2>3 DEF DenialsTrue, TrueCall
  <2>5. \A k \in DOMAIN Tail(todo) : TrueCall(Tail(todo)[k], family, session, clock)
    BY <1>1, <1>6 DEF DenialsTrue, todo
  <2>6. \A q \in Txs : \A k \in DOMAIN req'[q].todo : TrueCall(req'[q].todo[k], family, session, clock)
    BY <1>1, <1>3, <1>4, <2>5 DEF DenialsTrue
  <2>7. QED
    BY <1>1, <2>2, <2>4, <2>6 DEF DenialsTrue
<1>12. ASSUME NEW a \in AccessToken, Issued(a)' PROVE Covered(a)'
  <2>1. Issued(a)
    BY <1>1, <1>3, <1>4, <1>12 DEF Issued
  <2>2. Covered(a) /\ a.iat \in Nat
    BY <1>12, <2>1 DEF DenialInv, TokensCovered, AccessToken
  <2>3. a.iat + AccessTTL <= clock + AccessTTL
    BY <1>1, <1>9, <2>2 DEF Covered
  <2>4. CASE c = DenyFamily(a.f)
    <3>1. a.f \in deniedFamily'
      BY <1>8, <2>4 DEF DenyFamily
    <3>2. QED
      BY <1>1, <2>2, <3>1 DEF Covered, Refused
  <2>5. CASE c.call = "revoke_access_token" /\ c.f = a.f /\ c.jti = a.jti
    <3> DEFINE d == [f |-> c.f, jti |-> c.jti, until |-> clock + AccessTTL]
    <3>1. d \in deniedJti'
      BY <1>8, <2>5
    <3>2. d.f = a.f /\ d.jti = a.jti /\ a.iat + AccessTTL <= d.until
      BY <2>3, <2>5
    <3> HIDE DEF d
    <3>3. Refused(a)'
      BY <3>1, <3>2 DEF Refused
    <3>4. QED
      BY <1>1, <2>2, <3>3 DEF Covered
  <2>6. CASE ~(c = DenyFamily(a.f)) /\ ~(c.call = "revoke_access_token" /\ c.f = a.f /\ c.jti = a.jti)
    <3>1. c # DenyJti(a.f, a.jti)
      BY <2>6 DEF DenyJti
    <3>2. DenialPending(a) => DenialPending(a)'
      <4> SUFFICES ASSUME DenialPending(a) PROVE DenialPending(a)'
        OBVIOUS
      <4>0. PICK q \in Txs : \E k \in DOMAIN req[q].todo :
              req[q].todo[k] = DenyJti(a.f, a.jti) \/ req[q].todo[k] = DenyFamily(a.f)
        BY DEF DenialPending
      <4>1. PICK k \in DOMAIN req[q].todo :
              req[q].todo[k] = DenyJti(a.f, a.jti) \/ req[q].todo[k] = DenyFamily(a.f)
        BY <4>0
      <4>2. CASE q # p
        BY <1>4, <4>1, <4>2 DEF DenialPending
      <4>3. CASE q = p
        <5>1. k # 1
          BY <1>6, <2>6, <3>1, <4>1, <4>3 DEF todo
        <5>2. k - 1 \in DOMAIN Tail(todo) /\ Tail(todo)[k - 1] = req[p].todo[k]
          BY <1>6, <4>3, <5>1 DEF todo
        <5>3. k - 1 \in DOMAIN req'[p].todo /\ req'[p].todo[k - 1] = req[p].todo[k]
          BY <1>3, <1>4, <5>2
        <5>4. QED
          BY <4>1, <4>3, <5>3 DEF DenialPending
      <4>4. QED
        BY <4>2, <4>3
    <3>3. Refused(a) => Refused(a)'
      <4>1. a.f \in deniedFamily => a.f \in deniedFamily'
        BY <1>8
      <4>2. \A d \in deniedJti : d.f = a.f /\ d.jti = a.jti => d \in deniedJti'
        BY <1>8, <2>6
      <4>3. QED
        BY <4>1, <4>2 DEF Refused
    <3>4. QED
      BY <1>1, <2>2, <3>2, <3>3 DEF Covered, Unexpired, Current, Live, DenialLost
  <2>7. QED
    BY <2>4, <2>5, <2>6
<1>13. QED
  BY <1>10, <1>10a, <1>11, <1>12 DEF DenialInv, TokensCovered

\* Keys expire no earlier than the tokens they refuse.
LEMMA PassKeepsDenials ==
  ASSUME RowsInv, ControlInv, DenialInv, Pass
  PROVE  DenialInv'
<1>1. /\ RedisTypes /\ Quiet /\ DenialsTrue /\ KeysDated
      /\ clock \in Nat /\ clock' = clock + 1
      /\ UNCHANGED <<family, session, req, deniedFamily, userRevoked, orgRevoked, lost>>
      /\ access' \subseteq access
      /\ deniedJti' = {d \in deniedJti : clock' < d.until}
  BY DEF DenialInv, Pass, Tick, RowsInv, TypeOK, faults
<1>2. RedisTypes' /\ KeysDated'
  BY <1>1 DEF RedisTypes, KeysDated
<1>2a. DenialsTrue'
  <2>1. ASSUME NEW q \in Txs, NEW k \in DOMAIN req[q].todo
        PROVE  TrueCall(req[q].todo[k], family, session, clock + 1)
    <3>1. PICK c : c = req[q].todo[k]
      OBVIOUS
    <3>2. req[q].todo \in Seq(Call)
      BY DEF ControlInv, GoodRequests, GoodRequest, Request
    <3>3. c \in Call
      BY <3>1, <3>2
    <3>4. c.call = "revoke_user" => c.at \in Nat
      BY <3>3 DEF Call
    <3>5. TrueCall(c, family, session, clock)
      BY <1>1, <3>1 DEF DenialsTrue
    <3>6. TrueCall(c, family, session, clock + 1)
      BY <1>1, <3>4, <3>5 DEF TrueCall
    <3>7. QED
      BY <3>1, <3>6
  <2>2. QED
    BY <1>1, <2>1 DEF DenialsTrue
<1>3. \A p \in Txs : req[p].now \in Nat
  BY DEF ControlInv, GoodRequests, GoodRequest, Request
<1>4. Quiet'
  BY <1>1, <1>3 DEF Quiet
<1>5. ASSUME NEW a \in AccessToken, Issued(a)' PROVE Covered(a)'
  <2>1. Issued(a)
    BY <1>1, <1>5 DEF Issued
  <2>2. Covered(a) /\ a.iat \in Nat /\ AccessTTL \in Nat
    BY <1>5, <2>1, ControlAssumption DEF DenialInv, TokensCovered, AccessToken
  <2>3. a.iat <= clock'
    BY <1>1, <2>2 DEF Covered
  <2>4. SUFFICES ASSUME clock' < a.iat + AccessTTL
                 PROVE  (Current(a) \/ DenialPending(a) \/ DenialLost(a) \/ Refused(a))'
    BY <2>3 DEF Covered, Unexpired
  <2>5. Current(a) \/ DenialPending(a) \/ DenialLost(a) \/ Refused(a)
    BY <1>1, <2>2, <2>4 DEF Covered, Unexpired
  <2>6. ASSUME NEW d \in deniedJti, a.iat + AccessTTL <= d.until PROVE d \in deniedJti'
    <3>1. d.until \in Nat
      BY <1>1 DEF RedisTypes
    <3>2. clock' < d.until
      BY <1>1, <2>2, <2>4, <2>6, <3>1
    <3>3. QED
      BY <1>1, <3>2
  <2>7. QED
    BY <1>1, <2>5, <2>6 DEF Refused, Current, DenialPending, DenialLost, Live
<1>6. QED
  BY <1>2, <1>2a, <1>4, <1>5 DEF DenialInv, TokensCovered

\* Nothing the invariant speaks of changes, or a key is taken back.
LEMMA StutterKeepsDenials ==
  ASSUME DenialInv, RedisTypes', KeysDated',
         UNCHANGED <<clock, family, session, req, access, deniedJti, deniedFamily, lost>>
  PROVE  DenialInv'
  BY DEF DenialInv, Quiet, DenialsTrue, TokensCovered, Issued, Covered, Unexpired,
         Refused, Current, DenialPending, DenialLost, Live

LEMMA DenialInvNext ==
  ASSUME RowsInv, RowsInv', ControlInv, DenialInv, [ControlNext]_allVars
  PROVE  DenialInv'
<1>1. [Next]_vars /\ Quiet
  BY HandlersUseTransactions DEF DenialInv
<1>2. ASSUME NEW p \in Txs, Begin(p) \/ Continue(p) PROVE DenialInv'
  <2>1. CommitStep(p) \/ QuietStep(p) \/ RedisCall(p) \/ Reply(p)
    BY <1>1, <1>2, BeginSteps, ContinueSteps
  <2>2. QED
    BY <1>1, <2>1, CommitKeepsDenials, QuietKeepsDenials, RedisCallKeepsDenials,
       ReplyKeepsDenials
<1>3. ASSUME NEW u \in Users, NEW o \in Orgs, Restore(u, o) PROVE DenialInv'
  <2>1. UNCHANGED <<clock, family, session, req, access, deniedJti, deniedFamily, userRevoked, lost>>
    BY <1>3 DEF Restore, vars, faults
  <2>2. orgRevoked' = [orgRevoked EXCEPT ![u][o] = None]
    BY <1>3 DEF Restore
  <2>3. RedisTypes'
    BY <2>1, <2>2 DEF DenialInv, RedisTypes
  <2>4. KeysDated'
    BY <2>1, <2>2 DEF DenialInv, RedisTypes, KeysDated
  <2>5. QED
    BY <2>1, <2>3, <2>4, StutterKeepsDenials
<1>4. CASE Pass
  BY <1>4, PassKeepsDenials
<1>5. CASE UNCHANGED allVars
  <2>1. UNCHANGED <<clock, family, session, req, access, deniedJti, deniedFamily, lost,
                    userRevoked, orgRevoked>>
    BY <1>5 DEF allVars, vars, redis, faults
  <2>2. RedisTypes' /\ KeysDated'
    BY <2>1 DEF DenialInv, RedisTypes, KeysDated
  <2>3. QED
    BY <2>1, <2>2, StutterKeepsDenials
<1>6. QED
  BY <1>2, <1>3, <1>4, <1>5, FailKeepsDenials DEF ControlNext

LEMMA DenialInvInit == ControlInit => DenialInv
<1> SUFFICES ASSUME ControlInit PROVE DenialInv
  OBVIOUS
<1>1. Idle.pc = "idle" /\ Idle.todo = << >> /\ Idle.grant = None
  BY DEF Idle
<1>2. \A p \in Txs : req[p] = Idle
  BY DEF ControlInit
<1>3. RedisTypes /\ Quiet /\ DenialsTrue /\ KeysDated
  BY <1>1, <1>2 DEF ControlInit, RedisTypes, Quiet, HasRead, DenialsTrue, KeysDated
<1>4. TokensCovered
  BY <1>1, <1>2 DEF ControlInit, TokensCovered, Issued
<1>5. QED
  BY <1>3, <1>4 DEF DenialInv

\* The invariant of SessionControl as a whole.
THEOREM HandlersKeepRedisTrue == ControlSpec => [](RowsInv /\ ControlInv /\ DenialInv)
<1>1. ControlInit => RowsInv /\ ControlInv /\ DenialInv
  BY RowsInvInit, ControlInvInit, DenialInvInit DEF ControlInit
<1>2. RowsInv /\ ControlInv /\ DenialInv /\ [ControlNext]_allVars
        => RowsInv' /\ ControlInv' /\ DenialInv'
  BY HandlersUseTransactions, RowsInvNext, ControlInvNext, DenialInvNext
<1>3. QED
  BY <1>1, <1>2, PTL DEF ControlSpec

\* Whatever handlers fail, no key and no call of revoke_access_token or revoke_family names a
\* live session or its current token, and no key and no call of revoke_user or
\* revoke_organization is dated later than now, so that a token issued after a revocation is
\* never refused for it.
THEOREM NothingLiveIsDenied == ControlSpec => []NoFalseDenial
<1>1. ASSUME RowsInv, ControlInv, DenialInv,
             NEW f \in Fids, Live(f)
      PROVE  /\ f \notin deniedFamily
             /\ \A d \in deniedJti : d.f = f => d.jti < session[f].access_jti
             /\ \A p \in Txs : \A k \in DOMAIN req[p].todo :
                  /\ req[p].todo[k] # DenyFamily(f)
                  /\ req[p].todo[k] # DenyJti(f, session[f].access_jti)
  <2>1. session[f].access_jti \in Nat
    BY <1>1 DEF RowsInv, TypeOK, SessionRow
  <2>2. /\ DenyFamily(f).call = "revoke_family" /\ DenyFamily(f).f = f
        /\ \A j : /\ DenyJti(f, j).call = "revoke_access_token"
                  /\ DenyJti(f, j).f = f /\ DenyJti(f, j).jti = j
    BY DEF DenyFamily, DenyJti
  <2>3. ~TrueCall(DenyFamily(f), family, session, clock)
    BY <1>1, <2>2 DEF TrueCall, Gone, Live
  <2>4. ~TrueCall(DenyJti(f, session[f].access_jti), family, session, clock)
    BY <1>1, <2>1, <2>2 DEF TrueCall, Spent, Live
  <2>5. QED
    BY <1>1, <2>3, <2>4 DEF DenialInv, DenialsTrue, Gone, Spent, Live
<1>2. ASSUME DenialInv, NEW p \in Txs, NEW k \in DOMAIN req[p].todo,
             req[p].todo[k].call = "revoke_user"
      PROVE  req[p].todo[k].at <= clock
  BY <1>2 DEF DenialInv, DenialsTrue, TrueCall
<1>3. ASSUME RowsInv, ControlInv, DenialInv PROVE NoFalseDenial
  <2>1. KeysDated
    BY <1>3 DEF DenialInv
  <2>2. QED
    BY <1>1, <1>2, <1>3, <2>1 DEF NoFalseDenial, KeysDated
<1>4. QED
  BY <1>3, HandlersKeepRedisTrue, PTL

\* Every unexpired access token whose session was revoked, rotated, rescoped or offboarded is
\* refused by the gateway or about to be, at every interleaving of the commits and the Redis
\* calls that follow them, unless a handler failed with the call that names it still to make.
THEOREM DeadTokensAreRefused == ControlSpec => []DeadTokensAreDenied
<1>1. ASSUME ControlInv, DenialInv PROVE DeadTokensAreDenied
  <2> SUFFICES ASSUME NEW a \in access, GatewayAccepts(a)
               PROVE  Current(a) \/ DenialPending(a) \/ DenialLost(a)
    BY DEF DeadTokensAreDenied, Current
  <2>1. a \in AccessToken /\ Issued(a)
    BY <1>1 DEF ControlInv, Issued
  <2>2. Covered(a)
    BY <1>1, <2>1 DEF DenialInv, TokensCovered
  <2>3. Unexpired(a) /\ ~Refused(a)
    BY DEF GatewayAccepts, NotRevoked, Refused
  <2>4. QED
    BY <2>2, <2>3 DEF Covered
<1>2. QED
  BY <1>1, HandlersKeepRedisTrue, PTL
-----------------------------------------------------------------------------
\* What accounts, clients and the record of failures hold.
OtherTypes ==
  /\ userState \in [Users -> {"active", "suspended"}]
  /\ ready \in [Users -> 0..MaxLogins]
  /\ held \in [Fids -> Nat]
  /\ failures \in 0..MaxFailures
  /\ lost \subseteq Call

others == <<userState, ready, held, faults>>

LEMMA OtherTypesNext ==
  ASSUME RowsInv, ControlInv, OtherTypes, [ControlNext]_allVars
  PROVE  OtherTypes'
<1>1. CASE UNCHANGED others
  BY <1>1 DEF OtherTypes, others, faults
<1>2. ASSUME NEW p \in Txs, NEW u \in Users, CreateBegin(p, u) PROVE OtherTypes'
  BY <1>2, ControlAssumption DEF CreateBegin, OtherTypes, redis, faults
<1>3. ASSUME NEW p \in Txs, NEW u \in Users, Suspend(p, u) PROVE OtherTypes'
  BY <1>3 DEF Suspend, OtherTypes, redis, faults
<1>4. ASSUME NEW u \in Users, NEW o \in Orgs, Restore(u, o) PROVE UNCHANGED others
  BY <1>4 DEF Restore, others
<1>5. ASSUME NEW p \in Txs, Reply(p) PROVE OtherTypes'
  <2>1. req[p] \in Request /\ req[p].refreshed \in Nat
    BY DEF ControlInv, GoodRequests, GoodRequest, Request
  <2>2. held' \in [Fids -> Nat]
    BY <1>5, <2>1 DEF Reply, OtherTypes
  <2>3. QED
    BY <1>5, <2>2 DEF Reply, OtherTypes, redis, faults
<1>6. ASSUME NEW p \in Txs, Begin(p), ~\E u \in Users : CreateBegin(p, u) \/ Suspend(p, u) PROVE UNCHANGED others
  BY <1>6 DEF Begin, Refresh, Authenticate, Offboard, others, redis, faults
<1>7. ASSUME NEW p \in Txs, Continue(p), ~Reply(p) PROVE UNCHANGED others
  BY <1>7 DEF Continue, RedisCall, CreateSelect, CreateCommit, Logout, RevokeSelected, RevokeUserSelect,
              RevokeUserCommit, Scope, others, redis, faults
<1>8. ASSUME NEW p \in Txs, Fail(p) PROVE OtherTypes'
  <2>1. req[p] \in Request /\ req[p].todo \in Seq(Call)
    BY DEF ControlInv, GoodRequests, GoodRequest, Request
  <2>2. \A k \in DOMAIN req[p].todo : req[p].todo[k] \in Call
    BY <2>1
  <2>3. lost' \subseteq Call
    BY <1>8, <2>2 DEF Fail, OtherTypes
  <2>4. failures' \in 0..MaxFailures
    BY <1>8, ControlAssumption DEF Fail, OtherTypes
  <2>5. QED
    BY <1>8, <2>3, <2>4 DEF Fail, OtherTypes
<1>9. CASE Pass
  BY <1>1, <1>9 DEF Pass, others
<1>10. CASE UNCHANGED allVars
  BY <1>1, <1>10 DEF allVars, others, redis, faults
<1>11. QED
  BY <1>1, <1>2, <1>3, <1>4, <1>5, <1>6, <1>7, <1>8, <1>9, <1>10 DEF ControlNext

\* The handlers keep accounts, workflows, tokens and the revocation keys of Redis well typed,
\* also when they fail between a commit and the calls that follow it.
THEOREM ControlTypeCorrect == ControlSpec => []ControlTypeOK
<1>1. ControlInit => OtherTypes
  BY ControlAssumption DEF ControlInit, OtherTypes
<1>2. RowsInv /\ ControlInv /\ OtherTypes /\ [ControlNext]_allVars => OtherTypes'
  BY OtherTypesNext
<1>3. ASSUME ControlInv, DenialInv, OtherTypes PROVE ControlTypeOK
  <2>1. req \in [Txs -> Request]
    BY <1>3 DEF ControlInv, GoodRequests, GoodRequest
  <2>2. QED
    BY <1>3, <2>1 DEF ControlInv, DenialInv, RedisTypes, OtherTypes, ControlTypeOK
<1>4. QED
  BY <1>1, <1>2, <1>3, HandlersKeepRedisTrue, PTL DEF ControlSpec
-----------------------------------------------------------------------------
(***************************************************************************)
(* The cap under handlers.  A process runs one handler at a time, so the   *)
(* processes bound the creations that overlap.                             *)
(***************************************************************************)
\* Whatever handlers run and fail, a user has no more active sessions than MAX_ACTIVE_SESSIONS
\* and the other processes.
THEOREM ProcessesBoundSessions ==
  ASSUME IsFiniteSet(Txs), Txs # {}
  PROVE  ControlSpec => []SessionCap
<1>1. Spec => []SessionCap
  BY PoolBoundsCap, ControlAssumption
<1>2. QED
  BY <1>1, HandlersImplementRepository, PTL

-----------------------------------------------------------------------------
(***************************************************************************)
(* Suspension.  suspend_user and revoke_user_access lock a user out, with  *)
(* one exception, which a run shows: a creation that has asked for the     *)
(* state of the user before the suspension commits its session after it.   *)
(* There is no other: without such a creation a suspended user is left     *)
(* with no session, for any number of handlers.                            *)
(***************************************************************************)
\* No creation that found its user active goes on after the user is suspended.
SuspensionsApart ==
  \A p \in Txs : req[p].pc \in {"create", "creating"} => userState[req[p].user] = "active"

\* A transaction belongs to the user of its handler.
SameUser ==
  \A p \in Txs : req[p].pc \in {"creating", "suspending"} => tx[p].user = req[p].user

\* The handler that suspended u has yet to revoke, and has seen all there is to be revoked.
LocksOut(p, u) ==
  /\ req[p].user = u
  /\ \/ req[p].pc = "suspended"
     \/ req[p].pc = "suspending" /\ Unrevoked(u) \subseteq tx[p].rows

LockInv ==
  /\ SameUser
  /\ \A u \in Users : userState[u] = "suspended" =>
       Unrevoked(u) = {} \/ \E p \in Txs : LocksOut(p, u)

\* Every handler but its own leaves a request and its transaction alone.
LEMMA OthersGoOn ==
  ASSUME RowsInv, ControlInv, [ControlNext]_allVars, NEW p \in Txs
  PROVE  \/ req'[p] = req[p] /\ tx'[p] = tx[p]
         \/ Begin(p) \/ Continue(p) \/ Fail(p)
<1>1. req = [q \in Txs |-> req[q]] /\ tx \in [Txs -> TxState]
  BY DEF ControlInv, GoodRequests, RowsInv, TypeOK
<1>2. ASSUME NEW q \in Txs, q # p, Begin(q) PROVE req'[p] = req[p] /\ tx'[p] = tx[p]
  <2>1. ASSUME NEW u \in Users, CreateBegin(q, u) PROVE req'[p] = req[p] /\ tx'[p] = tx[p]
    BY <1>1, <1>2, <2>1 DEF CreateBegin, vars
  <2>2. ASSUME NEW f \in Fids, NEW i \in DOMAIN token[f], NEW d \in Devices, NEW n \in CallerNow,
               Refresh(q, f, i, d, n)
        PROVE  req'[p] = req[p] /\ tx'[p] = tx[p]
    <3>1. tx' = tx
      BY <2>2 DEF Refresh, RotateRefreshToken, RefuseRotation
    <3>2. req'[p] = req[p]
      BY <1>1, <1>2, <2>2 DEF Refresh, Committed
    <3>3. QED
      BY <3>1, <3>2
  <2>3. ASSUME NEW a \in access, NEW h \in Authenticated, Authenticate(q, a, h)
        PROVE  req'[p] = req[p] /\ tx'[p] = tx[p]
    BY <1>1, <1>2, <2>3 DEF Authenticate, vars
  <2>4. ASSUME NEW u \in Users, Suspend(q, u) PROVE req'[p] = req[p] /\ tx'[p] = tx[p]
    BY <1>1, <1>2, <2>4 DEF Suspend, vars
  <2>5. ASSUME NEW u \in Users, NEW o \in Orgs, Offboard(q, u, o)
        PROVE  req'[p] = req[p] /\ tx'[p] = tx[p]
    BY <1>1, <1>2, <2>5 DEF Offboard, OffboardSessions, Committed
  <2>6. QED
    BY <1>2, <2>1, <2>2, <2>3, <2>4, <2>5 DEF Begin
<1>3. ASSUME NEW q \in Txs, q # p, Continue(q) PROVE req'[p] = req[p] /\ tx'[p] = tx[p]
  <2>1. CASE CreateSelect(q)
    BY <1>1, <1>3, <2>1 DEF CreateSelect, CreateSessionSelect
  <2>2. CASE CreateCommit(q)
    BY <1>1, <1>3, <2>2 DEF CreateCommit, CreateSessionCommit, Committed
  <2>3. CASE Logout(q)
    BY <1>1, <1>3, <2>3 DEF Logout, RevokeSession, Committed
  <2>4. ASSUME NEW f \in Fids, RevokeSelected(q, f) PROVE req'[p] = req[p] /\ tx'[p] = tx[p]
    BY <1>1, <1>3, <2>4 DEF RevokeSelected, RevokeSession, Committed, vars
  <2>5. CASE RevokeUserSelect(q)
    BY <1>1, <1>3, <2>5 DEF RevokeUserSelect, RevokeAllSelect
  <2>6. CASE RevokeUserCommit(q)
    BY <1>1, <1>3, <2>6 DEF RevokeUserCommit, RevokeAllCommit, Committed
  <2>7. ASSUME NEW o \in Orgs, NEW n \in CallerNow, Scope(q, o, n) PROVE req'[p] = req[p] /\ tx'[p] = tx[p]
    BY <1>1, <1>3, <2>7 DEF Scope, ScopeSession, Committed, vars
  <2>8. CASE RedisCall(q) \/ Reply(q)
    BY <1>1, <1>3, <2>8 DEF RedisCall, Reply, vars
  <2>9. QED
    BY <1>3, <2>1, <2>2, <2>3, <2>4, <2>5, <2>6, <2>7, <2>8 DEF Continue
<1>4. ASSUME NEW q \in Txs, q # p, Fail(q) PROVE req'[p] = req[p] /\ tx'[p] = tx[p]
  BY <1>1, <1>4 DEF Fail, Rollback, vars
<1>5. CASE \/ \E u \in Users, o \in Orgs : Restore(u, o)
           \/ Pass \/ UNCHANGED allVars
  BY <1>5 DEF Restore, Pass, Tick, allVars, vars
<1>6. QED
  BY <1>2, <1>3, <1>4, <1>5 DEF ControlNext

\* What a handler does with its own request, as far as suspensions and creations go.
LEMMA OwnRequest ==
  ASSUME RowsInv, ControlInv, NEW p \in Txs, Begin(p) \/ Continue(p) \/ Fail(p)
  PROVE  /\ req'[p].pc = "creating" => CreateSelect(p)
         /\ req'[p].pc = "suspending" => RevokeUserSelect(p) /\ req[p].pc = "suspended"
         /\ req[p].pc = "suspended" => RevokeUserSelect(p) \/ Fail(p)
         /\ req[p].pc = "suspending" => RevokeUserCommit(p) \/ Fail(p)
<1>1. /\ req = [q \in Txs |-> req[q]] /\ req[p] \in Request
      /\ Idle.pc = "idle" /\ Idle \in Request
  BY IdleIsRequest DEF ControlInv, GoodRequests, GoodRequest, Idle
<1>2. ASSUME NEW todo, NEW grant, NEW n, Committed(p, todo, grant, n) PROVE req'[p].pc = "redis"
  BY <1>1, <1>2 DEF Committed, Request
<1>3. CASE Begin(p)
  <2>1. req[p].pc = "idle"
    BY <1>3 DEF Begin, CreateBegin, Refresh, Authenticate, Suspend, Offboard
  <2>2. req'[p].pc \notin {"creating", "suspending"}
    <3>1. ASSUME NEW u \in Users, CreateBegin(p, u) PROVE req'[p].pc \notin {"creating", "suspending"}
      BY <1>1, <2>1, <3>1 DEF CreateBegin, Idle
    <3>2. ASSUME NEW f \in Fids, NEW i \in DOMAIN token[f], NEW d \in Devices, NEW n \in CallerNow,
                 Refresh(p, f, i, d, n)
          PROVE  req'[p].pc \notin {"creating", "suspending"}
      BY <1>2, <3>2 DEF Refresh
    <3>3. ASSUME NEW a \in access, NEW h \in Authenticated, Authenticate(p, a, h)
          PROVE  req'[p].pc \notin {"creating", "suspending"}
      BY <1>1, <3>3 DEF Authenticate, Authenticated, Idle
    <3>4. ASSUME NEW u \in Users, Suspend(p, u) PROVE req'[p].pc \notin {"creating", "suspending"}
      BY <1>1, <3>4 DEF Suspend, Idle
    <3>5. ASSUME NEW u \in Users, NEW o \in Orgs, Offboard(p, u, o)
          PROVE  req'[p].pc \notin {"creating", "suspending"}
      BY <1>2, <3>5 DEF Offboard
    <3>6. QED
      BY <1>3, <3>1, <3>2, <3>3, <3>4, <3>5 DEF Begin
  <2>3. QED
    BY <2>1, <2>2
<1>4. CASE Fail(p)
  <2>1. req'[p] = Idle
    BY <1>1, <1>4 DEF Fail
  <2>2. QED
    BY <1>1, <1>4, <2>1
<1>5. CASE CreateSelect(p)
  BY <1>1, <1>5 DEF CreateSelect, Request
<1>6. CASE RevokeUserSelect(p)
  BY <1>1, <1>6 DEF RevokeUserSelect, Request
<1>7. CASE RevokeUserCommit(p)
  <2>1. req'[p].pc = "redis"
    BY <1>2, <1>7 DEF RevokeUserCommit
  <2>2. QED
    BY <1>7, <2>1 DEF RevokeUserCommit
<1>8. CASE CreateCommit(p)
  <2>1. req'[p].pc = "redis" /\ req[p].pc = "creating"
    BY <1>2, <1>8 DEF CreateCommit
  <2>2. QED
    BY <2>1
<1>9. CASE Logout(p)
  <2>1. req'[p].pc = "redis" /\ req[p].pc = "logout"
    BY <1>2, <1>9 DEF Logout
  <2>2. QED
    BY <2>1
<1>10. ASSUME NEW f \in Fids, RevokeSelected(p, f)
       PROVE  req'[p].pc \in {"redis", "idle"} /\ req[p].pc = "revoke_selected"
  BY <1>1, <1>2, <1>10 DEF RevokeSelected
<1>11. ASSUME NEW o \in Orgs, NEW n \in CallerNow, Scope(p, o, n)
       PROVE  req'[p].pc \in {"redis", "idle"} /\ req[p].pc = "scope"
  BY <1>1, <1>2, <1>11 DEF Scope
<1>12. CASE RedisCall(p)
  <2>1. req'[p].pc = "redis" /\ req[p].pc = "redis"
    BY <1>1, <1>12 DEF RedisCall, Request
  <2>2. QED
    BY <2>1
<1>13. CASE Reply(p)
  <2>1. req'[p].pc = "idle" /\ req[p].pc = "redis"
    BY <1>1, <1>13 DEF Reply
  <2>2. QED
    BY <2>1
<1>14. CASE Continue(p)
  BY <1>5, <1>6, <1>7, <1>8, <1>9, <1>10, <1>11, <1>12, <1>13, <1>14 DEF Continue
<1>15. QED
  BY <1>3, <1>4, <1>14

\* Only a creation adds to the sessions of a user that are to be revoked.
LEMMA UnrevokedShrinks ==
  ASSUME RowsInv, ControlInv, SameUser, [ControlNext]_allVars, NEW u \in Users
  PROVE  \/ Unrevoked(u)' \subseteq Unrevoked(u)
         \/ \E p \in Txs : req[p].pc = "creating" /\ req[p].user = u
<1>1. [Next]_vars
  BY HandlersUseTransactions
<1>2. CASE InsertsNothing
  <2>1. \A f \in Fids : family'[f].status = "live" /\ family'[f].user = u /\ ~session'[f].revoked
                          => Live(f) /\ family[f].user = u /\ ~session[f].revoked
    BY <1>2 DEF InsertsNothing
  <2>2. QED
    BY <2>1 DEF Unrevoked, Live
<1>3. CASE \E t \in Txs, f \in Fids, d \in Devices, E \in SUBSET Fids : CreateSessionCommit(t, f, d, E)
  <2>1. PICK t \in Txs, f \in Fids, d \in Devices, E \in SUBSET Fids : CreateSessionCommit(t, f, d, E)
    BY <1>3
  <2>2. tx[t].op = "create_session" /\ tx'[t].op = "idle" /\ family'[f].user = tx[t].user
    BY <2>1 DEF CreateSessionCommit, RowsInv, TypeOK, NoTx
  <2>3. Begin(t) \/ Continue(t) \/ Fail(t)
    BY <2>2, OthersGoOn
  <2>4. family' # family
    BY <2>1 DEF CreateSessionCommit, RowsInv, TypeOK
  <2>5. req[t].pc = "creating"
    <3>1. tx' # tx
      BY <2>2
    <3>2. ~Begin(t)
      <4>1. /\ \A v \in Users : ~CreateBegin(t, v) /\ ~Suspend(t, v)
            /\ \A b \in access, h \in Authenticated : ~Authenticate(t, b, h)
        BY <3>1 DEF CreateBegin, Suspend, Authenticate, vars
      <4>2. \A g \in Fids : \A i \in DOMAIN token[g], e \in Devices, n \in CallerNow : ~Refresh(t, g, i, e, n)
        BY <3>1 DEF Refresh, RotateRefreshToken, RefuseRotation
      <4>3. \A v \in Users, o \in Orgs : ~Offboard(t, v, o)
        BY <3>1 DEF Offboard, OffboardSessions
      <4>4. QED
        BY <4>1, <4>2, <4>3, Zenon DEF Begin
    <3>3. ~Fail(t)
      BY <2>4 DEF Fail, Rollback, vars
    <3>4. ~RevokeUserSelect(t) /\ ~RevokeUserCommit(t) /\ ~CreateSelect(t)
      BY <2>2, <2>4 DEF RevokeUserSelect, RevokeUserCommit, RevokeAllSelect, RevokeAllCommit,
                        CreateSelect, CreateSessionSelect
    <3>5. ~Logout(t) /\ (\A g \in Fids : ~RevokeSelected(t, g))
      BY <3>1 DEF Logout, RevokeSelected, RevokeSession, vars
    <3>6. /\ \A o \in Orgs, n \in CallerNow : ~Scope(t, o, n)
          /\ ~RedisCall(t) /\ ~Reply(t)
      BY <3>1 DEF Scope, ScopeSession, RedisCall, Reply, vars
    <3>7. CreateCommit(t)
      BY <2>3, <3>2, <3>3, <3>4, <3>5, <3>6 DEF Continue
    <3>8. QED
      BY <3>7 DEF CreateCommit
  <2>6. CASE req[t].user = u
    BY <2>5, <2>6
  <2>7. CASE req[t].user # u
    <3>1. family'[f].user # u
      BY <2>2, <2>5, <2>7 DEF SameUser
    <3>2. \A g \in Fids \ (E \cup {f}) : family'[g] = family[g] /\ session'[g] = session[g]
      BY <2>1 DEF CreateSessionCommit
    <3>3. \A g \in E : g # f => family'[g].status = "revoked"
      <4>1. \A row \in FamilyRow : RevokedFamily(row, "session_cap").status = "revoked"
        BY DEF RevokedFamily, FamilyRow
      <4>2. QED
        BY <2>1, <4>1 DEF CreateSessionCommit, RowsInv, TypeOK
    <3>4. QED
      BY <3>1, <3>2, <3>3 DEF Unrevoked, Live
  <2>8. QED
    BY <2>6, <2>7
<1>4. QED
  BY <1>1, <1>2, <1>3, OnlyCreationInserts

\* Only suspend_user changes the state of a user.
LEMMA SuspendedBy ==
  ASSUME OtherTypes, [ControlNext]_allVars, NEW u \in Users, userState'[u] # userState[u]
  PROVE  \E p \in Txs : Suspend(p, u)
<1>1. ASSUME NEW p \in Txs, NEW v \in Users, Suspend(p, v) PROVE v = u
  BY <1>1 DEF Suspend, OtherTypes
<1>2. ASSUME NEW p \in Txs, Begin(p) PROVE \E v \in Users : Suspend(p, v)
  BY <1>2 DEF Begin, CreateBegin, Refresh, Authenticate, Offboard
<1>3. ASSUME NEW p \in Txs, Continue(p) PROVE FALSE
  BY <1>3 DEF Continue, CreateSelect, CreateCommit, Logout, RevokeSelected, RevokeUserSelect,
              RevokeUserCommit, Scope, RedisCall, Reply
<1>4. QED
  BY <1>1, <1>2, <1>3 DEF ControlNext, Fail, Restore, Pass, allVars

LEMMA LockInvNext ==
  ASSUME MaxFailures = 0, RowsInv, ControlInv, OtherTypes, LockInv, SuspensionsApart, [ControlNext]_allVars
  PROVE  LockInv'
<1>1. req = [q \in Txs |-> req[q]] /\ tx \in [Txs -> TxState] /\ \A p \in Txs : req[p] \in Request
  BY DEF ControlInv, GoodRequests, GoodRequest, RowsInv, TypeOK
<1>2. \A p \in Txs : ~Fail(p)
  BY DEF Fail, OtherTypes
<1>3. SameUser'
  <2> SUFFICES ASSUME NEW p \in Txs, req'[p].pc \in {"creating", "suspending"}
               PROVE  tx'[p].user = req'[p].user
    BY DEF SameUser
  <2>1. CASE req'[p] = req[p] /\ tx'[p] = tx[p]
    BY <2>1 DEF LockInv, SameUser
  <2>2. CASE CreateSelect(p)
    BY <1>1, <2>2 DEF CreateSelect, CreateSessionSelect, Request
  <2>3. CASE RevokeUserSelect(p)
    BY <1>1, <2>3 DEF RevokeUserSelect, RevokeAllSelect, Request
  <2>4. QED
    BY <2>1, <2>2, <2>3, OthersGoOn, OwnRequest
<1>4. ASSUME NEW u \in Users, userState'[u] = "suspended"
      PROVE  Unrevoked(u)' = {} \/ \E p \in Txs : LocksOut(p, u)'
  <2>1. CASE userState[u] # "suspended"
    <3>1. PICK p \in Txs : Suspend(p, u)
      BY <1>4, <2>1, SuspendedBy
    <3>2. req'[p].pc = "suspended" /\ req'[p].user = u
      BY <1>1, <3>1 DEF Suspend, Idle
    <3>3. QED
      BY <3>2 DEF LocksOut
  <2>2. CASE userState[u] = "suspended"
    <3>1. ~\E p \in Txs : req[p].pc = "creating" /\ req[p].user = u
      BY <2>2 DEF SuspensionsApart
    <3>2. Unrevoked(u)' \subseteq Unrevoked(u)
      BY <3>1, UnrevokedShrinks DEF LockInv
    <3>3. CASE Unrevoked(u) = {}
      BY <3>2, <3>3
    <3>4. ASSUME NEW p \in Txs, LocksOut(p, u)
          PROVE  Unrevoked(u)' = {} \/ LocksOut(p, u)'
      <4>1. CASE req'[p] = req[p] /\ tx'[p] = tx[p]
        <5>1. QED
          BY <3>2, <3>4, <4>1 DEF LocksOut
      <4>2. CASE RevokeUserSelect(p) /\ req[p].pc = "suspended"
        <5>1. /\ req'[p].pc = "suspending" /\ req'[p].user = u
              /\ tx'[p].rows = Unrevoked(u)
          BY <1>1, <3>4, <4>2 DEF RevokeUserSelect, RevokeAllSelect, Request, LocksOut
        <5>2. QED
          BY <3>2, <5>1 DEF LocksOut
      <4>3. CASE RevokeUserCommit(p) /\ req[p].pc = "suspending"
        <5>1. tx[p].user = u /\ Unrevoked(u) \subseteq tx[p].rows
          BY <3>4, <4>3 DEF LocksOut, LockInv, SameUser
        <5>2. RevokeAllRows(p) = Unrevoked(u)
          BY <5>1 DEF RevokeAllRows
        <5>3. PICK r : RevokeLocked(Unrevoked(u), r)
          BY <4>3, <5>2 DEF RevokeUserCommit, RevokeAllCommit
        <5>4. \A f \in Unrevoked(u) : f \in Fids /\ session'[f].revoked
          BY <5>3 DEF RevokeLocked, Unrevoked, RowsInv, TypeOK, SessionRow
        <5>5. QED
          BY <3>2, <5>4 DEF Unrevoked
      <4>4. CASE (Begin(p) \/ Continue(p)) /\ ~(req'[p] = req[p] /\ tx'[p] = tx[p])
        BY <1>2, <3>4, <4>2, <4>3, <4>4, OwnRequest DEF LocksOut
      <4>5. QED
        BY <1>2, <4>1, <4>4, OthersGoOn
    <3>5. QED
      BY <2>2, <3>3, <3>4 DEF LockInv
  <2>3. QED
    BY <2>1, <2>2
<1>5. QED
  BY <1>3, <1>4 DEF LockInv

\* suspend_user with revoke_user_access: when every handler has come to its end, a suspended
\* user has no session left that could be used, unless a creation was under way that had
\* found the user active.
THEOREM SuspensionLocksOut ==
  ASSUME MaxFailures = 0
  PROVE  ControlSpec /\ []SuspensionsApart => []SuspendedIsLockedOut
<1>1. ControlInit => LockInv
  BY DEF ControlInit, LockInv, SameUser, Idle
<1>2. LockInv => SuspendedIsLockedOut
  BY DEF LockInv, LocksOut, SuspendedIsLockedOut
<1>3. ControlInit => OtherTypes
  BY ControlAssumption DEF ControlInit, OtherTypes
<1>4. RowsInv /\ ControlInv /\ OtherTypes /\ [ControlNext]_allVars => OtherTypes'
  BY OtherTypesNext
<1>5. RowsInv /\ ControlInv /\ OtherTypes /\ LockInv /\ SuspensionsApart /\ [ControlNext]_allVars => LockInv'
  BY LockInvNext
<1>6. ControlSpec => [](RowsInv /\ ControlInv /\ DenialInv)
  BY HandlersKeepRedisTrue
<1>7. QED
  BY <1>1, <1>2, <1>3, <1>4, <1>5, <1>6, PTL DEF ControlSpec
=============================================================================
