----------------------- MODULE SessionRepositoryProofs -----------------------
(***************************************************************************)
(* Proofs about SessionRepository, for every number of users, families,    *)
(* transactions and devices and every value of the limits.                 *)
(***************************************************************************)
EXTENDS SessionRepository, FiniteSetTheorems, TLAPS

(***************************************************************************)
(* The invariant of the rows of one family, as a predicate of three        *)
(* values: what a transaction must re-establish for each family it writes. *)
(***************************************************************************)
GoodRows(fam, ses, tok) ==
  /\ fam.status \in {"absent", "deleted"} <=> tok = << >>
  /\ \A i \in 1..Len(tok) :
       /\ tok[i].generation = i - 1
       /\ i < Len(tok) => tok[i].used /\ tok[i].revoked
       /\ i = Len(tok) => ~tok[i].used
  /\ fam.status = "live" <=> (tok # << >> /\ ~tok[Len(tok)].revoked)
  /\ fam.status = "live" => ~ses.revoked /\ fam.revocation_reason = None
  /\ fam.status = "revoked" => ses.revoked /\ fam.revocation_reason # None

\* The inductive invariant: the rows of every family are good.
RowsInv ==
  /\ TypeOK
  /\ \A f \in Fids : GoodRows(family[f], session[f], token[f])

-----------------------------------------------------------------------------
\* A row rewritten by _revoke_locked is still a row.
LEMMA RevokedTypes ==
  ASSUME NEW fam \in FamilyRow, NEW ses \in SessionRow, NEW tok \in Seq(TokenRow),
         NEW reason \in Reasons
  PROVE  /\ RevokedFamily(fam, reason) \in FamilyRow
         /\ [ses EXCEPT !.revoked = TRUE] \in SessionRow
         /\ RevokedTokens(tok) \in Seq(TokenRow)
         /\ Len(RevokedTokens(tok)) = Len(tok)
         /\ \A i \in 1..Len(tok) : RevokedTokens(tok)[i] = [tok[i] EXCEPT !.revoked = TRUE]
<1>1. RevokedFamily(fam, reason) \in FamilyRow
  BY DEF RevokedFamily, FamilyRow
<1>2. [ses EXCEPT !.revoked = TRUE] \in SessionRow
  BY DEF SessionRow
<1>3. DOMAIN tok = 1..Len(tok) /\ Len(tok) \in Nat
  OBVIOUS
<1>a. \A i \in 1..Len(tok) : tok[i] \in TokenRow
  OBVIOUS
<1>b. \A row \in TokenRow : [row EXCEPT !.revoked = TRUE] \in TokenRow
  BY DEF TokenRow
<1>4. \A i \in 1..Len(tok) : [tok[i] EXCEPT !.revoked = TRUE] \in TokenRow
  BY <1>a, <1>b
<1>5. RevokedTokens(tok) \in Seq(TokenRow)
  BY <1>3, <1>4 DEF RevokedTokens
<1>6. Len(RevokedTokens(tok)) = Len(tok)
  BY <1>3, <1>5 DEF RevokedTokens
<1>7. QED
  BY <1>1, <1>2, <1>3, <1>5, <1>6 DEF RevokedTokens

\* _revoke_locked keeps the rows of an existing family good.
LEMMA RevokeKeepsGood ==
  ASSUME NEW fam \in FamilyRow, NEW ses \in SessionRow, NEW tok \in Seq(TokenRow),
         NEW reason \in Reasons,
         fam.status \in {"live", "revoked"},
         GoodRows(fam, ses, tok)
  PROVE  GoodRows(RevokedFamily(fam, reason), [ses EXCEPT !.revoked = TRUE],
                  RevokedTokens(tok))
<1> DEFINE fam2 == RevokedFamily(fam, reason)
           ses2 == [ses EXCEPT !.revoked = TRUE]
           tok2 == RevokedTokens(tok)
<1>1. /\ fam2.status = "revoked"
      /\ fam2.revocation_reason # None
      /\ ses2.revoked
  BY NoneAssumption DEF RevokedFamily, FamilyRow, SessionRow
<1>2. /\ tok2 \in Seq(TokenRow)
      /\ Len(tok2) = Len(tok)
      /\ \A i \in 1..Len(tok) : tok2[i] = [tok[i] EXCEPT !.revoked = TRUE]
  BY RevokedTypes
<1>3. tok # << >> /\ Len(tok) \in Nat \ {0}
  BY DEF GoodRows
<1>a. \A i \in 1..Len(tok) : tok[i] \in TokenRow
  OBVIOUS
<1>b. \A row \in TokenRow :
        /\ [row EXCEPT !.revoked = TRUE].revoked
        /\ [row EXCEPT !.revoked = TRUE].used = row.used
        /\ [row EXCEPT !.revoked = TRUE].generation = row.generation
  BY DEF TokenRow
<1> HIDE DEF tok2
<1>4. \A i \in 1..Len(tok) :
        /\ tok2[i].revoked
        /\ tok2[i].used = tok[i].used
        /\ tok2[i].generation = tok[i].generation
  BY <1>2, <1>a, <1>b
<1>5. tok2 # << >> /\ tok2[Len(tok2)].revoked
  BY <1>2, <1>3, <1>4
<1> HIDE DEF fam2, ses2
<1>6. GoodRows(fam2, ses2, tok2)
  BY <1>1, <1>2, <1>4, <1>5 DEF GoodRows
<1>7. QED
  BY <1>6 DEF fam2, ses2, tok2

\* Rotation spends the newest token and appends its successor.  Only the newest
\* token can be unspent, so the chain grows at its end.
LEMMA RotateKeepsGood ==
  ASSUME NEW fam \in FamilyRow, NEW ses \in SessionRow, NEW tok \in Seq(TokenRow),
         NEW ses2 \in SessionRow, NEW new \in TokenRow,
         NEW i \in 1..Len(tok),
         ~tok[i].used, ~new.used, ~new.revoked,
         new.generation = tok[i].generation + 1,
         fam.status = "live", ses2.revoked = ses.revoked,
         GoodRows(fam, ses, tok)
  PROVE  /\ Rotated(tok, i, new) \in Seq(TokenRow)
         /\ GoodRows(fam, ses2, Rotated(tok, i, new))
<1> DEFINE spent == [tok EXCEPT ![i] = SpentToken(tok[i])]
           tok2 == Append(spent, new)
<1>1. Len(tok) \in Nat /\ i = Len(tok)
  BY DEF GoodRows
<1>2. \A j \in 1..Len(tok) : tok[j] \in TokenRow
  OBVIOUS
<1>3. \A row \in TokenRow :
        /\ SpentToken(row) \in TokenRow
        /\ SpentToken(row).used
        /\ SpentToken(row).revoked
        /\ SpentToken(row).generation = row.generation
  BY DEF SpentToken, TokenRow
<1>4. /\ spent \in Seq(TokenRow)
      /\ Len(spent) = Len(tok)
      /\ \A j \in 1..Len(tok) : spent[j] = IF j = i THEN SpentToken(tok[j]) ELSE tok[j]
  <2>1. SpentToken(tok[i]) \in TokenRow
    BY <1>2, <1>3
  <2>2. QED
    BY <2>1
<1> HIDE DEF spent
<1>5. /\ tok2 \in Seq(TokenRow)
      /\ Len(tok2) = Len(tok) + 1
      /\ \A j \in 1..Len(tok) : tok2[j] = spent[j]
      /\ tok2[Len(tok) + 1] = new
  BY <1>1, <1>4
<1> HIDE DEF tok2
<1>6. \A j \in 1..Len(tok) :
        /\ tok2[j].generation = j - 1
        /\ tok2[j].used
        /\ tok2[j].revoked
  BY <1>1, <1>2, <1>3, <1>4, <1>5 DEF GoodRows
<1>7. new.generation = Len(tok)
  BY <1>1, <1>2 DEF GoodRows, TokenRow
<1>8. \A j \in 1..Len(tok2) :
        /\ tok2[j].generation = j - 1
        /\ j < Len(tok2) => tok2[j].used /\ tok2[j].revoked
        /\ j = Len(tok2) => ~tok2[j].used
  <2> SUFFICES ASSUME NEW j \in 1..Len(tok2)
               PROVE  /\ tok2[j].generation = j - 1
                      /\ j < Len(tok2) => tok2[j].used /\ tok2[j].revoked
                      /\ j = Len(tok2) => ~tok2[j].used
    OBVIOUS
  <2>1. CASE j \in 1..Len(tok)
    BY <1>1, <1>5, <1>6, <2>1
  <2>2. CASE j = Len(tok) + 1
    BY <1>1, <1>5, <1>7, <2>2
  <2>3. QED
    BY <1>1, <1>5, <2>1, <2>2
<1>9. tok2 # << >> /\ ~tok2[Len(tok2)].revoked
  BY <1>1, <1>5
<1>10. GoodRows(fam, ses2, tok2)
  BY <1>8, <1>9 DEF GoodRows
<1>11. QED
  BY <1>5, <1>10 DEF tok2, spent, Rotated

\* A session row with a new access_jti is still a row, revoked as before.
LEMMA RescopedTypes ==
  ASSUME NEW ses \in SessionRow, NEW o \in Orgs \cup {None}, NEW n \in Nat
  PROVE  /\ Rescoped(ses, o, n) \in SessionRow
         /\ Rescoped(ses, o, n).revoked = ses.revoked
<1>1. ses.access_jti \in Nat /\ ses.access_jti + 1 \in Nat
  BY DEF SessionRow
<1>2. QED
  BY <1>1 DEF SessionRow, Rescoped

-----------------------------------------------------------------------------
\* Initially there are no rows.
LEMMA RowsInvInit == Init => RowsInv
<1> SUFFICES ASSUME Init PROVE RowsInv
  OBVIOUS
<1>1. NoFamily \in FamilyRow /\ NoSession \in SessionRow /\ NoTx \in TxState
  BY DEF NoFamily, FamilyRow, NoSession, SessionRow, NoTx, TxState
<1>2. TypeOK
  BY <1>1 DEF Init, TypeOK
<1>3. \A f \in Fids : GoodRows(family[f], session[f], token[f])
  BY DEF Init, GoodRows, NoFamily
<1>4. QED
  BY <1>2, <1>3 DEF RowsInv

\* What _revoke_locked does to a set of existing families keeps the invariant.
LEMMA RevokeLockedKeeps ==
  ASSUME RowsInv, NEW F \in SUBSET Fids, NEW reason \in Reasons,
         \A f \in F : Exists(f),
         RevokeLocked(F, reason),
         clock' \in Nat, tx' \in [Txs -> TxState]
  PROVE  RowsInv'
<1> USE DEF RowsInv
<1>1. /\ family \in [Fids -> FamilyRow]
      /\ session \in [Fids -> SessionRow]
      /\ token \in [Fids -> Seq(TokenRow)]
  BY DEF TypeOK
<1>2. \A f \in Fids :
        /\ RevokedFamily(family[f], reason) \in FamilyRow
        /\ [session[f] EXCEPT !.revoked = TRUE] \in SessionRow
        /\ RevokedTokens(token[f]) \in Seq(TokenRow)
  BY <1>1, RevokedTypes
<1>3. TypeOK'
  BY <1>1, <1>2 DEF RevokeLocked, TypeOK
<1>4. ASSUME NEW f \in Fids
      PROVE  GoodRows(family'[f], session'[f], token'[f])
  <2>1. CASE f \in F
    <3>1. GoodRows(RevokedFamily(family[f], reason), [session[f] EXCEPT !.revoked = TRUE],
                   RevokedTokens(token[f]))
      BY <1>1, <2>1, RevokeKeepsGood DEF Exists
    <3>2. QED
      BY <2>1, <3>1 DEF RevokeLocked
  <2>2. CASE f \notin F
    BY <2>2 DEF RevokeLocked
  <2>3. QED
    BY <2>1, <2>2
<1>5. QED
  BY <1>3, <1>4

\* create_session: the new family starts a chain, the evicted ones are revoked.
LEMMA CreateKeeps ==
  ASSUME RowsInv, NEW t \in Txs, NEW f \in Fids, NEW d \in Devices, NEW E \in SUBSET Fids,
         CreateSessionCommit(t, f, d, E)
  PROVE  RowsInv'
<1> USE DEF RowsInv
<1>1. /\ family \in [Fids -> FamilyRow]
      /\ session \in [Fids -> SessionRow]
      /\ token \in [Fids -> Seq(TokenRow)]
      /\ tx \in [Txs -> TxState]
      /\ clock \in Nat
  BY DEF TypeOK
<1>2. /\ tx[t].user \in Users \cup {None}
      /\ tx[t].now \in Nat
      /\ tx[t].issued + FamilyTTL \in Nat
      /\ tx[t].issued + SessionTTL \in Nat
  BY <1>1, LimitsAssumption DEF TxState
<1>3. \A g \in E : Live(g)
  BY DEF CreateSessionCommit, IsOldest, LockedRows, Countable
<1>4. "session_cap" \in Reasons
  BY DEF Reasons
<1>5. \A g \in Fids :
        /\ RevokedFamily(family[g], "session_cap") \in FamilyRow
        /\ [session[g] EXCEPT !.revoked = TRUE] \in SessionRow
        /\ RevokedTokens(token[g]) \in Seq(TokenRow)
  BY <1>1, <1>4, RevokedTypes
<1> DEFINE row == [used |-> FALSE, revoked |-> FALSE, generation |-> 0,
                   expires_at |-> tx[t].issued + FamilyTTL]
           fam == [status |-> "live", user |-> tx[t].user, device |-> d,
                   revocation_reason |-> None,
                   absolute_expires_at |-> tx[t].issued + FamilyTTL]
           ses == [revoked |-> FALSE, access_jti |-> 1, org_id |-> None,
                   created_at |-> tx[t].now, last_activity_at |-> tx[t].now,
                   expires_at |-> tx[t].issued + SessionTTL]
<1>6. /\ row \in TokenRow
      /\ fam \in FamilyRow
      /\ ses \in SessionRow
  BY <1>2 DEF TokenRow, FamilyRow, SessionRow
<1>7. /\ row.generation = 0 /\ ~row.used /\ ~row.revoked
      /\ fam.status = "live" /\ fam.revocation_reason = None
      /\ ~ses.revoked
  OBVIOUS
<1>8. /\ family' = [g \in Fids |-> CASE g = f -> fam
                                     [] g \in E /\ g # f -> RevokedFamily(family[g], "session_cap")
                                     [] OTHER -> family[g]]
      /\ session' = [g \in Fids |-> CASE g = f -> ses
                                      [] g \in E /\ g # f -> [session[g] EXCEPT !.revoked = TRUE]
                                      [] OTHER -> session[g]]
      /\ token' = [g \in Fids |-> CASE g = f -> << row >>
                                    [] g \in E /\ g # f -> RevokedTokens(token[g])
                                    [] OTHER -> token[g]]
  BY DEF CreateSessionCommit
<1> HIDE DEF row, fam, ses
<1>9. TypeOK'
  <2>1. /\ family' \in [Fids -> FamilyRow]
        /\ session' \in [Fids -> SessionRow]
        /\ token' \in [Fids -> Seq(TokenRow)]
    BY <1>1, <1>5, <1>6, <1>8
  <2>2. tx' \in [Txs -> TxState] /\ clock' \in Nat
    BY <1>1 DEF CreateSessionCommit, NoTx, TxState
  <2>3. QED
    BY <2>1, <2>2 DEF TypeOK
<1>10. ASSUME NEW g \in Fids
       PROVE  GoodRows(family'[g], session'[g], token'[g])
  <2>1. CASE g = f
    <3>1. family'[g] = fam /\ session'[g] = ses /\ token'[g] = << row >>
      BY <1>8, <2>1
    <3>2. << row >> # << >> /\ Len(<< row >>) = 1 /\ << row >>[1] = row
      OBVIOUS
    <3>3. GoodRows(fam, ses, << row >>)
      BY <1>7, <3>2 DEF GoodRows
    <3>4. QED
      BY <3>1, <3>3
  <2>2. CASE g # f /\ g \in E
    <3>1. GoodRows(RevokedFamily(family[g], "session_cap"),
                   [session[g] EXCEPT !.revoked = TRUE], RevokedTokens(token[g]))
      BY <1>1, <1>3, <1>4, <2>2, RevokeKeepsGood DEF Live
    <3>2. QED
      BY <1>8, <2>2, <3>1
  <2>3. CASE g # f /\ g \notin E
    BY <1>8, <2>3
  <2>4. QED
    BY <2>1, <2>2, <2>3
<1>11. QED
  BY <1>9, <1>10

\* A step that only rewrites unrevoked session fields keeps the invariant.
LEMMA SessionFieldsKeep ==
  ASSUME RowsInv, UNCHANGED <<clock, family, token, tx>>,
         session' \in [Fids -> SessionRow],
         \A f \in Fids : session'[f].revoked = session[f].revoked
  PROVE  RowsInv'
<1>1. TypeOK'
  BY DEF RowsInv, TypeOK
<1>2. \A f \in Fids : GoodRows(family[f], session'[f], token[f])
  BY DEF RowsInv, GoodRows
<1>3. QED
  BY <1>1, <1>2 DEF RowsInv

\* rotate_refresh_token: either the family is revoked or the chain grows.
LEMMA RotateKeeps ==
  ASSUME RowsInv, NEW f \in Fids, NEW i \in DOMAIN token[f], NEW d \in Devices,
         NEW n \in CallerNow,
         RotateRefreshToken(f, i, d, n)
  PROVE  RowsInv'
<1> USE DEF RowsInv
<1>1. /\ family \in [Fids -> FamilyRow]
      /\ session \in [Fids -> SessionRow]
      /\ token \in [Fids -> Seq(TokenRow)]
      /\ clock \in Nat
  BY DEF TypeOK
<1>2. n \in Nat
  BY <1>1 DEF CallerNow
<1>3. i \in 1..Len(token[f])
  BY <1>1
<1>4. /\ token[f][i] \in TokenRow
      /\ family[f] \in FamilyRow
      /\ session[f] \in SessionRow
      /\ token[f] \in Seq(TokenRow)
  BY <1>1, <1>3
<1>5. /\ ~token[f][i].used
      /\ family[f].status = "live"
  <2>1. RotationStatus(f, i, d, n) = "ROTATED"
    BY DEF RotateRefreshToken
  <2>2. QED
    BY <2>1 DEF RotationStatus, Live
<1> DEFINE new == Replacement(f, i, n)
           ses2 == Rescoped(session[f], None, n)
           tok2 == Rotated(token[f], i, new)
<1>6. /\ new \in TokenRow
      /\ ~new.used /\ ~new.revoked
      /\ new.generation = token[f][i].generation + 1
  <2>1. token[f][i].generation \in Nat
    BY <1>4 DEF TokenRow
  <2>2. family[f].absolute_expires_at \in Nat
    BY <1>4 DEF FamilyRow
  <2>3. n + FamilyTTL \in Nat
    BY <1>2, LimitsAssumption
  <2>4. QED
    BY <2>1, <2>2, <2>3 DEF Replacement, TokenRow
<1>7. ses2 \in SessionRow /\ ses2.revoked = session[f].revoked
  BY <1>2, <1>4, RescopedTypes DEF Rescoped
<1> HIDE DEF new, ses2
<1>8. tok2 \in Seq(TokenRow) /\ GoodRows(family[f], ses2, tok2)
  BY <1>3, <1>4, <1>5, <1>6, <1>7, RotateKeepsGood
<1>9. /\ token' = [token EXCEPT ![f] = tok2]
      /\ session' = [session EXCEPT ![f] = ses2]
      /\ UNCHANGED <<clock, family, tx>>
  <2>1. token' = [token EXCEPT ![f] = tok2]
    BY DEF RotateRefreshToken, new
  <2>2. session' = [session EXCEPT ![f] = ses2]
    BY DEF RotateRefreshToken, ses2
  <2>3. UNCHANGED <<clock, family, tx>>
    BY DEF RotateRefreshToken
  <2>4. QED
    BY <2>1, <2>2, <2>3
<1> HIDE DEF tok2
<1>10. TypeOK'
  BY <1>1, <1>7, <1>8, <1>9 DEF TypeOK
<1>11. \A g \in Fids : GoodRows(family'[g], session'[g], token'[g])
  BY <1>1, <1>8, <1>9
<1>12. QED
  BY <1>10, <1>11

\* Every transaction, and every step of one, keeps the rows good.
LEMMA RowsInvNext == RowsInv /\ [Next]_vars => RowsInv'
<1> SUFFICES ASSUME RowsInv, [Next]_vars PROVE RowsInv'
  OBVIOUS
<1>1. /\ family \in [Fids -> FamilyRow]
      /\ session \in [Fids -> SessionRow]
      /\ token \in [Fids -> Seq(TokenRow)]
      /\ tx \in [Txs -> TxState]
      /\ clock \in Nat
      /\ \A n \in CallerNow : n \in Nat
  BY DEF RowsInv, TypeOK, CallerNow
<1>2. CASE Create
  <2>1. ASSUME NEW t \in Txs, NEW u \in Users, NEW n \in CallerNow,
               CreateSessionSelect(t, u, n)
        PROVE  RowsInv'
    <3>1. tx' \in [Txs -> TxState]
      BY <1>1, <2>1 DEF CreateSessionSelect, TxState, Countable
    <3>2. UNCHANGED <<clock, family, session, token>>
      BY <2>1 DEF CreateSessionSelect
    <3>3. QED
      BY <3>1, <3>2 DEF RowsInv, TypeOK
  <2>2. QED
    BY <1>2, <2>1, CreateKeeps DEF Create
<1>3. CASE Rotate
  <2>1. PICK f \in Fids : \E i \in DOMAIN token[f], d \in Devices, n \in CallerNow :
          RotateRefreshToken(f, i, d, n) \/ RefuseRotation(f, i, d, n)
    BY <1>3 DEF Rotate
  <2>2. PICK i \in DOMAIN token[f], d \in Devices, n \in CallerNow :
          RotateRefreshToken(f, i, d, n) \/ RefuseRotation(f, i, d, n)
    BY <2>1
  <2>3. CASE RotateRefreshToken(f, i, d, n)
    BY <2>3, RotateKeeps
  <2>4. CASE RefuseRotation(f, i, d, n)
    <3> DEFINE status == RotationStatus(f, i, d, n)
    <3>1. /\ status \in {"REUSED", "EXPIRED", "CLIENT_MISMATCH"}
          /\ RevokeLocked({f}, RefusalReason[status])
          /\ UNCHANGED <<clock, tx>>
      BY <2>4 DEF RefuseRotation, RefusalReason
    <3> HIDE DEF status
    <3>2. RefusalReason[status] \in Reasons
      BY <3>1 DEF RefusalReason, Reasons
    <3>3. token[f] # << >>
      BY <1>1
    <3>4. Exists(f)
      BY <1>1, <3>3 DEF RowsInv, GoodRows, Exists, FamilyRow
    <3>5. clock' \in Nat /\ tx' \in [Txs -> TxState]
      BY <1>1, <3>1
    <3>6. \A g \in {f} : Exists(g)
      BY <3>4
    <3>7. QED
      BY <3>1, <3>2, <3>5, <3>6, RevokeLockedKeeps
  <2>5. QED
    BY <2>2, <2>3, <2>4
<1>4. CASE Revoke
  <2>1. ASSUME NEW f \in Fids, NEW r \in {"logout", "user_selected"}, RevokeSession(f, r)
        PROVE  RowsInv'
    <3>1. /\ \A g \in {f} : Exists(g)
          /\ RevokeLocked({f}, r)
          /\ clock' \in Nat /\ tx' \in [Txs -> TxState]
      BY <1>1, <2>1 DEF RevokeSession
    <3>2. r \in Reasons
      BY DEF Reasons
    <3>3. QED
      BY <3>1, <3>2, RevokeLockedKeeps
  <2>2. ASSUME NEW t \in Txs, NEW u \in Users, RevokeAllSelect(t, u)
        PROVE  RowsInv'
    <3>1. tx' \in [Txs -> TxState]
      BY <1>1, <2>2 DEF RevokeAllSelect, TxState, Unrevoked
    <3>2. UNCHANGED <<clock, family, session, token>>
      BY <2>2 DEF RevokeAllSelect
    <3>3. QED
      BY <3>1, <3>2 DEF RowsInv, TypeOK
  <2>3. ASSUME NEW t \in Txs, NEW r \in {"logout_all", "account_suspended"}, RevokeAllCommit(t, r)
        PROVE  RowsInv'
    <3>1. RevokeAllRows(t) \in SUBSET Fids
      BY DEF RevokeAllRows, Unrevoked
    <3>2. \A g \in RevokeAllRows(t) : Exists(g)
      BY DEF RevokeAllRows, Unrevoked, Live, Exists
    <3>3. clock' \in Nat /\ tx' \in [Txs -> TxState]
      BY <1>1, <2>3 DEF RevokeAllCommit, NoTx, TxState
    <3>4. r \in Reasons
      BY DEF Reasons
    <3>5. RevokeLocked(RevokeAllRows(t), r)
      BY <2>3 DEF RevokeAllCommit
    <3>6. QED
      BY <3>1, <3>2, <3>3, <3>4, <3>5, RevokeLockedKeeps
  <2>4. QED
    BY <1>4, <2>1, <2>2, <2>3 DEF Revoke
<1>5. CASE Rescope
  <2>1. PICK o \in Orgs, n \in CallerNow :
          \/ \E f \in Fids : ScopeSession(f, o, n)
          \/ \E u \in Users : OffboardSessions(u, o, n)
    BY <1>5 DEF Rescope
  <2>2. \A f \in Fids, p \in Orgs \cup {None} :
          /\ Rescoped(session[f], p, n) \in SessionRow
          /\ Rescoped(session[f], p, n).revoked = session[f].revoked
    BY <1>1, RescopedTypes
  <2>3. ASSUME NEW f \in Fids, ScopeSession(f, o, n)
        PROVE  RowsInv'
    <3>1. /\ session' = [session EXCEPT ![f] = Rescoped(session[f], o, n)]
          /\ UNCHANGED <<clock, family, token, tx>>
      BY <2>3 DEF ScopeSession
    <3>2. /\ session' \in [Fids -> SessionRow]
          /\ \A g \in Fids : session'[g].revoked = session[g].revoked
      BY <1>1, <2>2, <3>1
    <3>3. QED
      BY <3>1, <3>2, SessionFieldsKeep
  <2>4. ASSUME NEW u \in Users, OffboardSessions(u, o, n)
        PROVE  RowsInv'
    <3>1. UNCHANGED <<clock, family, token, tx>>
      BY <2>4 DEF OffboardSessions
    <3>2. /\ session' \in [Fids -> SessionRow]
          /\ \A g \in Fids : session'[g].revoked = session[g].revoked
      BY <1>1, <2>2, <2>4 DEF OffboardSessions
    <3>3. QED
      BY <3>1, <3>2, SessionFieldsKeep
  <2>5. QED
    BY <2>1, <2>3, <2>4
<1>6. CASE Erase
  <2>1. PICK u \in Users : DeleteFamilies(u)
    BY <1>6 DEF Erase
  <2> DEFINE gone == {f \in Fids : Exists(f) /\ family[f].user = u}
             deleted == [NoFamily EXCEPT !.status = "deleted"]
  <2>2. /\ family' = [f \in Fids |-> IF f \in gone THEN deleted ELSE family[f]]
        /\ session' = [f \in Fids |-> IF f \in gone THEN NoSession ELSE session[f]]
        /\ token' = [f \in Fids |-> IF f \in gone THEN << >> ELSE token[f]]
        /\ UNCHANGED <<clock, tx>>
    BY <2>1 DEF DeleteFamilies
  <2>3. /\ deleted \in FamilyRow /\ deleted.status = "deleted"
        /\ NoSession \in SessionRow
        /\ << >> \in Seq(TokenRow)
    BY DEF NoFamily, FamilyRow, NoSession, SessionRow
  <2> HIDE DEF gone, deleted
  <2>4. TypeOK'
    BY <1>1, <2>2, <2>3 DEF TypeOK
  <2>5. ASSUME NEW f \in Fids
        PROVE  GoodRows(family'[f], session'[f], token'[f])
    <3>1. CASE f \in gone
      <4>1. GoodRows(deleted, NoSession, << >>)
        BY <2>3 DEF GoodRows
      <4>2. QED
        BY <2>2, <3>1, <4>1
    <3>2. CASE f \notin gone
      BY <2>2, <3>2 DEF RowsInv
    <3>3. QED
      BY <3>1, <3>2
  <2>6. QED
    BY <2>4, <2>5 DEF RowsInv
<1>7. CASE Tick
  BY <1>1, <1>7 DEF Tick, RowsInv, TypeOK
<1>8. CASE Abort
  <2>1. tx' \in [Txs -> TxState] /\ UNCHANGED <<clock, family, session, token>>
    BY <1>1, <1>8 DEF Abort, Rollback, NoTx, TxState
  <2>2. QED
    BY <2>1 DEF RowsInv, TypeOK
<1>9. CASE UNCHANGED vars
  BY <1>9 DEF vars, RowsInv, TypeOK
<1>10. QED
  BY <1>2, <1>3, <1>4, <1>5, <1>6, <1>7, <1>8, <1>9 DEF Next

-----------------------------------------------------------------------------
\* The rows invariant holds in every reachable state.
THEOREM RowsInvariant == Spec => []RowsInv
<1>1. QED
  BY RowsInvInit, RowsInvNext, PTL DEF Spec

\* Every variable keeps its type, for every value of the constants.
THEOREM TypeCorrect == Spec => []TypeOK
<1>1. RowsInv => TypeOK
  BY DEF RowsInv
<1>2. QED
  BY <1>1, RowsInvariant, PTL

\* Refresh-token rotation is linear: no token of a family is ever exchanged for
\* two successors, with any number of concurrent requests.
THEOREM RotationIsLinear == Spec => []RotationChain
<1>1. RowsInv => RotationChain
  BY DEF RowsInv, GoodRows, RotationChain
<1>2. QED
  BY <1>1, RowsInvariant, PTL

\* A family, its session and its newest token are revoked together or not at all.
THEOREM FamiliesDieWhole == Spec => []FamilyDiesWhole
<1>1. RowsInv => FamilyDiesWhole
  BY DEF RowsInv, GoodRows, FamilyDiesWhole, Live, Exists
<1>2. QED
  BY <1>1, RowsInvariant, PTL

-----------------------------------------------------------------------------
\* Revoking what is revoked changes nothing: the first reason stays.
LEMMA RevokeIsIdempotent ==
  ASSUME NEW fam \in FamilyRow, NEW ses \in SessionRow, NEW tok \in Seq(TokenRow),
         NEW reason \in Reasons,
         fam.status = "revoked", GoodRows(fam, ses, tok)
  PROVE  /\ RevokedFamily(fam, reason) = fam
         /\ [ses EXCEPT !.revoked = TRUE] = ses
         /\ RevokedTokens(tok) = tok
<1>1. fam.revocation_reason # None /\ ses.revoked = TRUE
  BY DEF GoodRows, SessionRow
<1>2. RevokedFamily(fam, reason) = fam
  BY <1>1 DEF RevokedFamily, FamilyRow
<1>3. [ses EXCEPT !.revoked = TRUE] = ses
  BY <1>1 DEF SessionRow
<1>4. Len(tok) \in Nat /\ DOMAIN tok = 1..Len(tok)
  OBVIOUS
<1>5. \A i \in 1..Len(tok) : tok[i] \in TokenRow /\ tok[i].revoked = TRUE
  <2>1. \A i \in 1..Len(tok) : tok[i] \in TokenRow
    OBVIOUS
  <2>2. \A i \in 1..Len(tok) : tok[i].revoked
    <3>1. tok # << >> /\ tok[Len(tok)].revoked
      BY DEF GoodRows
    <3>2. \A i \in 1..Len(tok) : i < Len(tok) => tok[i].revoked
      BY DEF GoodRows
    <3>3. \A m \in Nat : \A i \in 1..m : i < m \/ i = m
      OBVIOUS
    <3>4. QED
      BY <1>4, <3>1, <3>2, <3>3
  <2>3. QED
    BY <2>1, <2>2 DEF TokenRow
<1>6. \A row \in TokenRow : row.revoked = TRUE => [row EXCEPT !.revoked = TRUE] = row
  BY DEF TokenRow
<1>7. RevokedTokens(tok) = [i \in 1..Len(tok) |-> tok[i]]
  BY <1>4, <1>5, <1>6 DEF RevokedTokens
<1>8. tok = [i \in 1..Len(tok) |-> tok[i]]
  BY <1>4
<1>9. QED
  BY <1>2, <1>3, <1>7, <1>8

\* The same for a set of families.
LEMMA RevokeLockedIsFinal ==
  ASSUME RowsInv, NEW F \in SUBSET Fids, NEW reason \in Reasons, RevokeLocked(F, reason)
  PROVE  KeepsRevoked
<1> SUFFICES ASSUME NEW f \in Fids, family[f].status = "revoked"
             PROVE  /\ family'[f] = family[f]
                    /\ session'[f] = session[f]
                    /\ token'[f] = token[f]
  BY DEF KeepsRevoked
<1>1. /\ family[f] \in FamilyRow
      /\ session[f] \in SessionRow
      /\ token[f] \in Seq(TokenRow)
      /\ GoodRows(family[f], session[f], token[f])
  BY DEF RowsInv, TypeOK
<1>2. /\ RevokedFamily(family[f], reason) = family[f]
      /\ [session[f] EXCEPT !.revoked = TRUE] = session[f]
      /\ RevokedTokens(token[f]) = token[f]
  BY <1>1, RevokeIsIdempotent
<1>3. QED
  BY <1>2 DEF RevokeLocked

\* No transaction brings a revoked family back, gives it a token or an access
\* token identifier, or overwrites the reason of its revocation.
THEOREM RevokedStaysRevoked == Spec => RevocationIsFinal
<1>1. RowsInv /\ [Next]_vars => [KeepsRevoked]_vars
  <2> SUFFICES ASSUME RowsInv, Next PROVE KeepsRevoked
    OBVIOUS
  <2>1. \A f \in Fids : family[f].status = "revoked" =>
          /\ session[f].revoked
          /\ ~Live(f)
    BY DEF RowsInv, GoodRows, Live
  <2>2. CASE Create
    <3>1. ASSUME NEW t \in Txs, NEW u \in Users, NEW n \in CallerNow,
                 CreateSessionSelect(t, u, n)
          PROVE  KeepsRevoked
      BY <3>1 DEF CreateSessionSelect, KeepsRevoked
    <3>2. ASSUME NEW t \in Txs, NEW f \in Fids, NEW d \in Devices, NEW E \in SUBSET Fids,
                 CreateSessionCommit(t, f, d, E)
          PROVE  KeepsRevoked
      <4> SUFFICES ASSUME NEW g \in Fids, family[g].status = "revoked"
                   PROVE  /\ family'[g] = family[g]
                          /\ session'[g] = session[g]
                          /\ token'[g] = token[g]
        BY DEF KeepsRevoked
      <4>1. g # f
        BY <3>2 DEF CreateSessionCommit
      <4>2. g \notin E
        BY <3>2 DEF CreateSessionCommit, IsOldest, LockedRows, Countable, Live
      <4>3. QED
        BY <3>2, <4>1, <4>2 DEF CreateSessionCommit
    <3>3. QED
      BY <2>2, <3>1, <3>2 DEF Create
  <2>3. CASE Rotate
    <3>1. PICK f \in Fids : \E i \in DOMAIN token[f], d \in Devices, n \in CallerNow :
            RotateRefreshToken(f, i, d, n) \/ RefuseRotation(f, i, d, n)
      BY <2>3 DEF Rotate
    <3>2. PICK i \in DOMAIN token[f], d \in Devices, n \in CallerNow :
            RotateRefreshToken(f, i, d, n) \/ RefuseRotation(f, i, d, n)
      BY <3>1
    <3>3. CASE RotateRefreshToken(f, i, d, n)
      <4>1. RotationStatus(f, i, d, n) = "ROTATED"
        BY <3>3 DEF RotateRefreshToken
      <4>2. family[f].status = "live"
        BY <4>1 DEF RotationStatus, Live
      <4>3. QED
        BY <3>3, <4>2 DEF RotateRefreshToken, KeepsRevoked, RowsInv, TypeOK
    <3>4. CASE RefuseRotation(f, i, d, n)
      <4> DEFINE status == RotationStatus(f, i, d, n)
      <4>1. /\ status \in {"REUSED", "EXPIRED", "CLIENT_MISMATCH"}
            /\ RevokeLocked({f}, RefusalReason[status])
        BY <3>4 DEF RefuseRotation, RefusalReason
      <4> HIDE DEF status
      <4>2. RefusalReason[status] \in Reasons
        BY <4>1 DEF RefusalReason, Reasons
      <4>3. QED
        BY <4>1, <4>2, RevokeLockedIsFinal
    <3>5. QED
      BY <3>2, <3>3, <3>4
  <2>4. CASE Revoke
    <3>1. ASSUME NEW f \in Fids, NEW r \in {"logout", "user_selected"}, RevokeSession(f, r) PROVE KeepsRevoked
      <4>1. r \in Reasons
        BY DEF Reasons
      <4>2. RevokeLocked({f}, r)
        BY <3>1 DEF RevokeSession
      <4>3. QED
        BY <4>1, <4>2, RevokeLockedIsFinal
    <3>2. ASSUME NEW t \in Txs, NEW u \in Users, RevokeAllSelect(t, u) PROVE KeepsRevoked
      BY <3>2 DEF RevokeAllSelect, KeepsRevoked
    <3>3. ASSUME NEW t \in Txs, NEW r \in {"logout_all", "account_suspended"}, RevokeAllCommit(t, r) PROVE KeepsRevoked
      <4>1. r \in Reasons
        BY DEF Reasons
      <4>2. RevokeLocked(RevokeAllRows(t), r) /\ RevokeAllRows(t) \in SUBSET Fids
        BY <3>3 DEF RevokeAllCommit, RevokeAllRows, Unrevoked
      <4>3. QED
        BY <4>1, <4>2, RevokeLockedIsFinal
    <3>4. QED
      BY <2>4, <3>1, <3>2, <3>3 DEF Revoke
  <2>5. CASE Rescope
    <3>1. PICK o \in Orgs, n \in CallerNow :
            \/ \E f \in Fids : ScopeSession(f, o, n)
            \/ \E u \in Users : OffboardSessions(u, o, n)
      BY <2>5 DEF Rescope
    <3>2. ASSUME NEW f \in Fids, ScopeSession(f, o, n) PROVE KeepsRevoked
      BY <2>1, <3>2 DEF ScopeSession, SessionIsActive, Live, KeepsRevoked, RowsInv, TypeOK
    <3>3. ASSUME NEW u \in Users, OffboardSessions(u, o, n) PROVE KeepsRevoked
      BY <2>1, <3>3 DEF OffboardSessions, ScopedTo, KeepsRevoked
    <3>4. QED
      BY <3>1, <3>2, <3>3
  <2>6. CASE Erase
    <3>1. PICK u \in Users : DeleteFamilies(u)
      BY <2>6 DEF Erase
    <3>2. QED
      BY <3>1 DEF DeleteFamilies, NoFamily, KeepsRevoked
  <2>7. CASE Tick
    BY <2>7 DEF Tick, KeepsRevoked
  <2>8. CASE Abort
    BY <2>8 DEF Abort, Rollback, KeepsRevoked
  <2>9. QED
    BY <2>2, <2>3, <2>4, <2>5, <2>6, <2>7, <2>8 DEF Next
<1>2. QED
  BY <1>1, RowsInvariant, PTL DEF Spec, RevocationIsFinal

-----------------------------------------------------------------------------
(***************************************************************************)
(* The ceiling of one family at time c.                                    *)
(***************************************************************************)
UnderCeiling(fam, ses, tok, c) ==
  fam.status \in {"live", "revoked"} =>
    /\ \A i \in 1..Len(tok) : tok[i].expires_at <= fam.absolute_expires_at
    /\ ses.expires_at <= fam.absolute_expires_at
    /\ ses.last_activity_at <= c

\* The inductive form of FamilyCeiling: an open transaction read its clock in the past.
CeilingInv ==
  /\ \A f \in Fids : UnderCeiling(family[f], session[f], token[f], clock)
  /\ \A t \in Txs : tx[t].now <= clock

\* _revoke_locked moves no expiry.
LEMMA RevokeKeepsCeiling ==
  ASSUME NEW fam \in FamilyRow, NEW ses \in SessionRow, NEW tok \in Seq(TokenRow),
         NEW reason \in Reasons, NEW c \in Nat,
         fam.status \in {"live", "revoked"},
         UnderCeiling(fam, ses, tok, c)
  PROVE  UnderCeiling(RevokedFamily(fam, reason), [ses EXCEPT !.revoked = TRUE],
                      RevokedTokens(tok), c)
<1> DEFINE fam2 == RevokedFamily(fam, reason)
           ses2 == [ses EXCEPT !.revoked = TRUE]
           tok2 == RevokedTokens(tok)
<1>1. fam2.absolute_expires_at = fam.absolute_expires_at
  BY DEF RevokedFamily, FamilyRow
<1>2. ses2.expires_at = ses.expires_at /\ ses2.last_activity_at = ses.last_activity_at
  BY DEF SessionRow
<1>3. \A i \in 1..Len(tok) : tok[i] \in TokenRow
  OBVIOUS
<1>4. \A row \in TokenRow : [row EXCEPT !.revoked = TRUE].expires_at = row.expires_at
  BY DEF TokenRow
<1>5. Len(tok2) = Len(tok) /\ \A i \in 1..Len(tok) : tok2[i].expires_at = tok[i].expires_at
  <2>1. Len(tok2) = Len(tok) /\ \A i \in 1..Len(tok) : tok2[i] = [tok[i] EXCEPT !.revoked = TRUE]
    BY RevokedTypes
  <2>2. QED
    BY <1>3, <1>4, <2>1
<1> HIDE DEF fam2, ses2, tok2
<1>6. UnderCeiling(fam2, ses2, tok2, c)
  BY <1>1, <1>2, <1>5 DEF UnderCeiling
<1>7. QED
  BY <1>6 DEF fam2, ses2, tok2

\* The same for a set of families.
LEMMA RevokeLockedKeepsCeiling ==
  ASSUME RowsInv, CeilingInv, NEW F \in SUBSET Fids, NEW reason \in Reasons,
         \A f \in F : Exists(f),
         RevokeLocked(F, reason), clock' = clock
  PROVE  \A f \in Fids : UnderCeiling(family'[f], session'[f], token'[f], clock')
<1> SUFFICES ASSUME NEW f \in Fids
             PROVE  UnderCeiling(family'[f], session'[f], token'[f], clock)
  OBVIOUS
<1>1. /\ family[f] \in FamilyRow
      /\ session[f] \in SessionRow
      /\ token[f] \in Seq(TokenRow)
      /\ clock \in Nat
  BY DEF RowsInv, TypeOK
<1>2. UnderCeiling(family[f], session[f], token[f], clock)
  BY DEF CeilingInv
<1>3. CASE f \in F
  <2>1. family[f].status \in {"live", "revoked"}
    BY <1>3 DEF Exists
  <2>2. UnderCeiling(RevokedFamily(family[f], reason), [session[f] EXCEPT !.revoked = TRUE],
                     RevokedTokens(token[f]), clock)
    BY <1>1, <1>2, <2>1, RevokeKeepsCeiling
  <2>3. QED
    BY <1>3, <2>2 DEF RevokeLocked
<1>4. CASE f \notin F
  BY <1>2, <1>4 DEF RevokeLocked
<1>5. QED
  BY <1>3, <1>4

\* A step that moves only last_activity_at, to a time not in the future.
LEMMA ActivityKeepsCeiling ==
  ASSUME RowsInv, CeilingInv, UNCHANGED <<clock, family, token, tx>>,
         NEW n \in Nat, n <= clock,
         NEW F \in SUBSET Fids, NEW o \in Orgs \cup {None},
         session' = [f \in Fids |-> IF f \in F THEN Rescoped(session[f], o, n) ELSE session[f]]
  PROVE  CeilingInv'
<1>1. \A ses \in SessionRow :
        /\ Rescoped(ses, o, n).expires_at = ses.expires_at
        /\ Rescoped(ses, o, n).last_activity_at = n
  BY DEF Rescoped, SessionRow
<1>2. session \in [Fids -> SessionRow]
  BY DEF RowsInv, TypeOK
<1>3. ASSUME NEW f \in Fids
      PROVE  UnderCeiling(family[f], session'[f], token[f], clock)
  <2>1. /\ session'[f].expires_at = session[f].expires_at
        /\ session'[f].last_activity_at = n
           \/ session'[f].last_activity_at = session[f].last_activity_at
    BY <1>1, <1>2
  <2>2. UnderCeiling(family[f], session[f], token[f], clock)
    BY DEF CeilingInv
  <2>3. QED
    BY <2>1, <2>2 DEF UnderCeiling
<1>4. QED
  BY <1>3 DEF CeilingInv

\* Every step keeps every token under its family's ceiling.
LEMMA CeilingNext == RowsInv /\ CeilingInv /\ [Next]_vars => CeilingInv'
<1> SUFFICES ASSUME RowsInv, CeilingInv, [Next]_vars PROVE CeilingInv'
  OBVIOUS
<1>1. /\ family \in [Fids -> FamilyRow]
      /\ session \in [Fids -> SessionRow]
      /\ token \in [Fids -> Seq(TokenRow)]
      /\ tx \in [Txs -> TxState]
      /\ clock \in Nat
      /\ \A n \in CallerNow : n \in Nat /\ n <= clock
  BY DEF RowsInv, TypeOK, CallerNow
<1>2. /\ \A f \in Fids : UnderCeiling(family[f], session[f], token[f], clock)
      /\ \A t \in Txs : tx[t].now <= clock
  BY DEF CeilingInv
<1>3. NoTx.now = 0
  BY DEF NoTx
<1>4. CASE Create
  <2>1. ASSUME NEW t \in Txs, NEW u \in Users, NEW n \in CallerNow,
               CreateSessionSelect(t, u, n)
        PROVE  CeilingInv'
    BY <1>1, <1>2, <2>1 DEF CreateSessionSelect, CeilingInv
  <2>2. ASSUME NEW t \in Txs, NEW f \in Fids, NEW d \in Devices, NEW E \in SUBSET Fids,
               CreateSessionCommit(t, f, d, E)
        PROVE  CeilingInv'
    <3>1. \A s \in Txs : tx'[s].now <= clock'
      BY <1>1, <1>2, <1>3, <2>2 DEF CreateSessionCommit
    <3>2. ASSUME NEW g \in Fids
          PROVE  UnderCeiling(family'[g], session'[g], token'[g], clock')
      <4>1. CASE g = f
        <5> DEFINE exp == tx[t].issued + FamilyTTL
        <5>1. /\ family'[g].absolute_expires_at = exp
              /\ session'[g].expires_at = tx[t].issued + SessionTTL
              /\ session'[g].last_activity_at = tx[t].now
              /\ token'[g] = << [used |-> FALSE, revoked |-> FALSE, generation |-> 0,
                                 expires_at |-> exp] >>
              /\ clock' = clock
          BY <2>2, <4>1 DEF CreateSessionCommit
        <5>2. \A i \in 1..Len(token'[g]) : token'[g][i].expires_at = exp
          BY <5>1
        <5>3. tx[t].issued \in Nat /\ exp \in Nat /\ tx[t].issued + SessionTTL <= exp
          BY <1>1, LimitsAssumption DEF TxState
        <5>4. tx[t].now <= clock
          BY <1>2
        <5> HIDE DEF exp
        <5>5. QED
          BY <5>1, <5>2, <5>3, <5>4 DEF UnderCeiling
      <4>2. CASE g # f /\ g \in E
        <5>1. family[g].status \in {"live", "revoked"}
          BY <2>2, <4>2 DEF CreateSessionCommit, IsOldest, LockedRows, Countable, Live
        <5>2. "session_cap" \in Reasons
          BY DEF Reasons
        <5>3. UnderCeiling(RevokedFamily(family[g], "session_cap"),
                           [session[g] EXCEPT !.revoked = TRUE],
                           RevokedTokens(token[g]), clock)
          BY <1>1, <1>2, <5>1, <5>2, RevokeKeepsCeiling
        <5>4. QED
          BY <2>2, <4>2, <5>3 DEF CreateSessionCommit
      <4>3. CASE g # f /\ g \notin E
        BY <1>2, <2>2, <4>3 DEF CreateSessionCommit
      <4>4. QED
        BY <4>1, <4>2, <4>3
    <3>3. QED
      BY <3>1, <3>2 DEF CeilingInv
  <2>3. QED
    BY <1>4, <2>1, <2>2 DEF Create
<1>5. CASE Rotate
  <2>1. PICK f \in Fids : \E i \in DOMAIN token[f], d \in Devices, n \in CallerNow :
          RotateRefreshToken(f, i, d, n) \/ RefuseRotation(f, i, d, n)
    BY <1>5 DEF Rotate
  <2>2. PICK i \in DOMAIN token[f], d \in Devices, n \in CallerNow :
          RotateRefreshToken(f, i, d, n) \/ RefuseRotation(f, i, d, n)
    BY <2>1
  <2>3. /\ family[f] \in FamilyRow
        /\ session[f] \in SessionRow
        /\ token[f] \in Seq(TokenRow)
        /\ i \in 1..Len(token[f])
        /\ Len(token[f]) \in Nat
        /\ token[f] # << >>
    BY <1>1
  <2>4. Exists(f)
    BY <2>3 DEF RowsInv, GoodRows, Exists, FamilyRow
  <2>5. CASE RotateRefreshToken(f, i, d, n)
    <3> DEFINE new == Replacement(f, i, n)
               spent == [token[f] EXCEPT ![i] = SpentToken(token[f][i])]
    <3>1. \A j \in 1..Len(token[f]) : token[f][j] \in TokenRow
      BY <2>3
    <3>2. \A row \in TokenRow :
            SpentToken(row) \in TokenRow /\ SpentToken(row).expires_at = row.expires_at
      BY DEF SpentToken, TokenRow
    <3>3. /\ spent \in Seq(TokenRow)
          /\ Len(spent) = Len(token[f])
          /\ \A j \in 1..Len(token[f]) : spent[j].expires_at = token[f][j].expires_at
      BY <2>3, <3>1, <3>2
    <3>4. new.expires_at <= family[f].absolute_expires_at
      <4>1. family[f].absolute_expires_at \in Nat /\ n + FamilyTTL \in Nat
        BY <1>1, <2>3, LimitsAssumption DEF FamilyRow
      <4>2. QED
        BY <4>1 DEF Replacement
    <3> HIDE DEF new, spent
    <3>5. /\ Len(Append(spent, new)) = Len(token[f]) + 1
          /\ \A j \in 1..Len(token[f]) : Append(spent, new)[j] = spent[j]
          /\ Append(spent, new)[Len(token[f]) + 1] = new
      BY <3>3
    <3>6. token' = [token EXCEPT ![f] = Append(spent, new)]
      BY <2>5 DEF RotateRefreshToken, Rotated, spent, new
    <3>7. /\ session' = [session EXCEPT ![f] = Rescoped(session[f], None, n)]
          /\ UNCHANGED <<clock, family, tx>>
      BY <2>5 DEF RotateRefreshToken
    <3>8. /\ Rescoped(session[f], None, n).expires_at = session[f].expires_at
          /\ Rescoped(session[f], None, n).last_activity_at = n
      BY <2>3 DEF Rescoped, SessionRow
    <3>9. ASSUME NEW g \in Fids
          PROVE  UnderCeiling(family[g], session'[g], token'[g], clock)
      <4>1. CASE g = f
        <5>1. UnderCeiling(family[f], session[f], token[f], clock)
          BY <1>2
        <5>2. \A j \in 1..Len(token[f]) :
                token[f][j].expires_at <= family[f].absolute_expires_at
          BY <2>4, <5>1 DEF UnderCeiling, Exists
        <5>3. \A j \in 1..Len(Append(spent, new)) :
                Append(spent, new)[j].expires_at <= family[f].absolute_expires_at
          BY <2>3, <3>3, <3>4, <3>5, <5>2
        <5>4. token'[g] = Append(spent, new) /\ session'[g] = Rescoped(session[f], None, n)
          BY <1>1, <3>6, <3>7, <4>1
        <5>5. n <= clock
          BY <1>1
        <5>6. QED
          BY <3>8, <4>1, <5>1, <5>3, <5>4, <5>5 DEF UnderCeiling
      <4>2. CASE g # f
        BY <1>2, <3>6, <3>7, <4>2
      <4>3. QED
        BY <4>1, <4>2
    <3>10. QED
      BY <1>2, <3>7, <3>9 DEF CeilingInv
  <2>6. CASE RefuseRotation(f, i, d, n)
    <3> DEFINE status == RotationStatus(f, i, d, n)
    <3>1. /\ status \in {"REUSED", "EXPIRED", "CLIENT_MISMATCH"}
          /\ RevokeLocked({f}, RefusalReason[status])
          /\ UNCHANGED <<clock, tx>>
      BY <2>6 DEF RefuseRotation, RefusalReason
    <3> HIDE DEF status
    <3>2. RefusalReason[status] \in Reasons
      BY <3>1 DEF RefusalReason, Reasons
    <3>3. \A g \in Fids : UnderCeiling(family'[g], session'[g], token'[g], clock')
      BY <2>4, <3>1, <3>2, RevokeLockedKeepsCeiling
    <3>4. QED
      BY <1>2, <3>1, <3>3 DEF CeilingInv
  <2>7. QED
    BY <2>2, <2>5, <2>6
<1>6. CASE Revoke
  <2>1. ASSUME NEW f \in Fids, NEW r \in {"logout", "user_selected"}, RevokeSession(f, r) PROVE CeilingInv'
    <3>1. r \in Reasons
      BY DEF Reasons
    <3>2. Exists(f) /\ RevokeLocked({f}, r) /\ UNCHANGED <<clock, tx>>
      BY <2>1 DEF RevokeSession
    <3>3. \A g \in Fids : UnderCeiling(family'[g], session'[g], token'[g], clock')
      BY <3>1, <3>2, RevokeLockedKeepsCeiling
    <3>4. QED
      BY <1>2, <3>2, <3>3 DEF CeilingInv
  <2>2. ASSUME NEW t \in Txs, NEW u \in Users, RevokeAllSelect(t, u) PROVE CeilingInv'
    BY <1>1, <1>2, <2>2 DEF RevokeAllSelect, CeilingInv
  <2>3. ASSUME NEW t \in Txs, NEW r \in {"logout_all", "account_suspended"}, RevokeAllCommit(t, r) PROVE CeilingInv'
    <3>1. r \in Reasons
      BY DEF Reasons
    <3>2. /\ RevokeLocked(RevokeAllRows(t), r)
          /\ RevokeAllRows(t) \in SUBSET Fids
          /\ \A g \in RevokeAllRows(t) : Exists(g)
          /\ clock' = clock
      BY <2>3 DEF RevokeAllCommit, RevokeAllRows, Unrevoked, Live, Exists
    <3>3. \A g \in Fids : UnderCeiling(family'[g], session'[g], token'[g], clock')
      BY <3>1, <3>2, RevokeLockedKeepsCeiling
    <3>4. \A s \in Txs : tx'[s].now <= clock'
      BY <1>1, <1>2, <1>3, <2>3 DEF RevokeAllCommit
    <3>5. QED
      BY <3>3, <3>4 DEF CeilingInv
  <2>4. QED
    BY <1>6, <2>1, <2>2, <2>3 DEF Revoke
<1>7. CASE Rescope
  <2>1. PICK o \in Orgs, n \in CallerNow :
          \/ \E f \in Fids : ScopeSession(f, o, n)
          \/ \E u \in Users : OffboardSessions(u, o, n)
    BY <1>7 DEF Rescope
  <2>2. n \in Nat /\ n <= clock
    BY <1>1
  <2>3. ASSUME NEW f \in Fids, ScopeSession(f, o, n) PROVE CeilingInv'
    <3>1. /\ session' = [g \in Fids |-> IF g \in {f} THEN Rescoped(session[g], o, n)
                                                      ELSE session[g]]
          /\ UNCHANGED <<clock, family, token, tx>>
      BY <1>1, <2>3 DEF ScopeSession
    <3>2. QED
      BY <2>2, <3>1, ActivityKeepsCeiling
  <2>4. ASSUME NEW u \in Users, OffboardSessions(u, o, n) PROVE CeilingInv'
    <3>1. ScopedTo(u, o) \in SUBSET Fids
      BY DEF ScopedTo
    <3>2. /\ session' = [g \in Fids |-> IF g \in ScopedTo(u, o)
                                         THEN Rescoped(session[g], None, n) ELSE session[g]]
          /\ UNCHANGED <<clock, family, token, tx>>
      BY <2>4 DEF OffboardSessions
    <3>3. QED
      BY <2>2, <3>1, <3>2, ActivityKeepsCeiling
  <2>5. QED
    BY <2>1, <2>3, <2>4
<1>8. CASE Erase
  <2>1. PICK u \in Users : DeleteFamilies(u)
    BY <1>8 DEF Erase
  <2>2. ASSUME NEW f \in Fids
        PROVE  \/ family'[f].status = "deleted"
               \/ /\ family'[f] = family[f]
                  /\ session'[f] = session[f]
                  /\ token'[f] = token[f]
    BY <2>1 DEF DeleteFamilies, NoFamily
  <2>3. UNCHANGED <<clock, tx>>
    BY <2>1 DEF DeleteFamilies
  <2>4. \A f \in Fids : UnderCeiling(family'[f], session'[f], token'[f], clock)
    BY <1>2, <2>2 DEF UnderCeiling
  <2>5. QED
    BY <1>2, <2>3, <2>4 DEF CeilingInv
<1>9. CASE Tick
  <2>1. clock' = clock + 1 /\ UNCHANGED <<family, session, token, tx>>
    BY <1>9 DEF Tick
  <2>2. \A f \in Fids : session[f].last_activity_at \in Nat
    BY <1>1 DEF SessionRow
  <2>3. \A t \in Txs : tx[t].now \in Nat
    BY <1>1 DEF TxState
  <2>4. \A f \in Fids : UnderCeiling(family[f], session[f], token[f], clock + 1)
    BY <1>1, <1>2, <2>2 DEF UnderCeiling
  <2>5. \A t \in Txs : tx[t].now <= clock + 1
    BY <1>1, <1>2, <2>3
  <2>6. QED
    BY <2>1, <2>4, <2>5 DEF CeilingInv
<1>10. CASE Abort
  BY <1>1, <1>2, <1>3, <1>10 DEF Abort, Rollback, CeilingInv
<1>11. CASE UNCHANGED vars
  BY <1>2, <1>11 DEF vars, CeilingInv
<1>12. QED
  BY <1>4, <1>5, <1>6, <1>7, <1>8, <1>9, <1>10, <1>11 DEF Next

\* However often a refresh token is rotated, no token of the family outlives the
\* family's absolute expiry, and no activity is recorded in the future.
THEOREM CeilingHolds == Spec => []FamilyCeiling
<1>1. Init => CeilingInv
  BY DEF Init, CeilingInv, UnderCeiling, NoFamily, NoTx
<1>2. CeilingInv => FamilyCeiling
  BY DEF CeilingInv, UnderCeiling, FamilyCeiling, Exists
<1>3. QED
  BY <1>1, <1>2, CeilingNext, RowsInvariant, PTL DEF Spec

-----------------------------------------------------------------------------
(***************************************************************************)
(* The cap: what it evicts, and how many sessions it leaves.               *)
(***************************************************************************)
\* A step that inserts no session leaves what the cap query reads of a live row alone.
InsertsNothing ==
  \A f \in Fids :
    /\ family'[f].status = "live" =>
         /\ Live(f)
         /\ family'[f].user = family[f].user
         /\ session'[f].revoked = session[f].revoked
         /\ session'[f].expires_at = session[f].expires_at
         /\ session'[f].created_at = session[f].created_at
    /\ Live(f) => family'[f].revocation_reason # "session_cap"

LEMMA RevokeInsertsNothing ==
  ASSUME RowsInv, NEW F \in SUBSET Fids, NEW reason \in Reasons, reason # "session_cap",
         RevokeLocked(F, reason)
  PROVE  InsertsNothing
<1>1. /\ family \in [Fids -> FamilyRow]
      /\ \A f \in Fids : Live(f) => family[f].revocation_reason = None
  BY DEF RowsInv, TypeOK, GoodRows, Live
<1>2. \A row \in FamilyRow : /\ RevokedFamily(row, reason).status = "revoked"
                             /\ row.revocation_reason = None
                                => RevokedFamily(row, reason).revocation_reason = reason
  BY DEF RevokedFamily, FamilyRow
<1>3. None # "session_cap"
  BY NoneAssumption DEF Reasons
<1>4. \A f \in F : /\ family'[f].status = "revoked"
                   /\ Live(f) => family'[f].revocation_reason = reason
  BY <1>1, <1>2 DEF RevokeLocked
<1>5. \A f \in Fids \ F : family'[f] = family[f] /\ session'[f] = session[f]
  BY DEF RevokeLocked
<1>6. QED
  BY <1>1, <1>3, <1>4, <1>5 DEF InsertsNothing, Live

LEMMA RescopeInsertsNothing ==
  ASSUME RowsInv, family' = family,
         \A f \in Fids : \/ session'[f] = session[f]
                         \/ \E o, n : session'[f] = Rescoped(session[f], o, n)
  PROVE  InsertsNothing
<1>1. \A row \in SessionRow : \A o, n : /\ Rescoped(row, o, n).revoked = row.revoked
                                        /\ Rescoped(row, o, n).expires_at = row.expires_at
                                        /\ Rescoped(row, o, n).created_at = row.created_at
  BY DEF Rescoped, SessionRow
<1>2. \A f \in Fids : session[f] \in SessionRow
  BY DEF RowsInv, TypeOK
<1>3. \A f \in Fids : Live(f) => family[f].revocation_reason # "session_cap"
  BY NoneAssumption DEF RowsInv, GoodRows, Live, Reasons
<1>4. QED
  BY <1>1, <1>2, <1>3 DEF InsertsNothing, Live

\* Only create_session inserts.
LEMMA OnlyCreationInserts ==
  ASSUME RowsInv, [Next]_vars
  PROVE  \/ InsertsNothing
         \/ \E t \in Txs, f \in Fids, d \in Devices, E \in SUBSET Fids :
              CreateSessionCommit(t, f, d, E)
<1>1. ASSUME UNCHANGED <<family, session>> PROVE InsertsNothing
  BY <1>1, RescopeInsertsNothing
<1>2. CASE Create
  BY <1>1, <1>2 DEF Create, CreateSessionSelect
<1>3. CASE Rotate
  <2>1. PICK f \in Fids : \E i \in DOMAIN token[f], d \in Devices, n \in CallerNow :
          RotateRefreshToken(f, i, d, n) \/ RefuseRotation(f, i, d, n)
    BY <1>3 DEF Rotate
  <2>2. PICK i \in DOMAIN token[f], d \in Devices, n \in CallerNow :
          RotateRefreshToken(f, i, d, n) \/ RefuseRotation(f, i, d, n)
    BY <2>1
  <2>3. CASE RotateRefreshToken(f, i, d, n)
    <3>1. family' = family /\ session' = [session EXCEPT ![f] = Rescoped(session[f], None, n)]
      BY <2>3 DEF RotateRefreshToken
    <3>2. \A g \in Fids : session'[g] = session[g] \/ session'[g] = Rescoped(session[g], None, n)
      BY <3>1 DEF RowsInv, TypeOK
    <3>3. QED
      BY <3>1, <3>2, RescopeInsertsNothing
  <2>4. CASE RefuseRotation(f, i, d, n)
    <3>1. RefusalReason[RotationStatus(f, i, d, n)] \in {"token_reuse", "expired", "client_mismatch"}
      BY <2>4 DEF RefuseRotation, RefusalReason
    <3>2. PICK reason \in {"token_reuse", "expired", "client_mismatch"} : RevokeLocked({f}, reason)
      BY <2>4, <3>1 DEF RefuseRotation
    <3>3. QED
      BY <3>2, RevokeInsertsNothing DEF Reasons
  <2>5. QED
    BY <2>2, <2>3, <2>4
<1>4. CASE Revoke
  <2>1. ASSUME NEW f \in Fids, NEW r \in {"logout", "user_selected"}, RevokeSession(f, r)
        PROVE  InsertsNothing
    BY <2>1, RevokeInsertsNothing DEF RevokeSession, Reasons
  <2>2. ASSUME NEW t \in Txs, NEW r \in {"logout_all", "account_suspended"}, RevokeAllCommit(t, r)
        PROVE  InsertsNothing
    <3>1. RevokeAllRows(t) \in SUBSET Fids
      BY DEF RevokeAllRows, Unrevoked
    <3>2. QED
      BY <2>2, <3>1, RevokeInsertsNothing DEF RevokeAllCommit, Reasons
  <2>3. QED
    BY <1>1, <1>4, <2>1, <2>2 DEF Revoke, RevokeAllSelect
<1>5. CASE Rescope
  <2>1. ASSUME NEW o \in Orgs, NEW n \in CallerNow, NEW f \in Fids, ScopeSession(f, o, n)
        PROVE  InsertsNothing
    <3>1. family' = family /\ session' = [session EXCEPT ![f] = Rescoped(session[f], o, n)]
      BY <2>1 DEF ScopeSession
    <3>2. \A g \in Fids : session'[g] = session[g] \/ session'[g] = Rescoped(session[g], o, n)
      BY <3>1 DEF RowsInv, TypeOK
    <3>3. QED
      BY <3>1, <3>2, RescopeInsertsNothing
  <2>2. ASSUME NEW o \in Orgs, NEW n \in CallerNow, NEW u \in Users, OffboardSessions(u, o, n)
        PROVE  InsertsNothing
    <3>1. /\ family' = family
          /\ \A g \in Fids : session'[g] = session[g] \/ session'[g] = Rescoped(session[g], None, n)
      BY <2>2 DEF OffboardSessions
    <3>2. QED
      BY <3>1, RescopeInsertsNothing
  <2>3. QED
    BY <1>5, <2>1, <2>2 DEF Rescope
<1>6. CASE Erase
  <2>1. PICK u \in Users : DeleteFamilies(u)
    BY <1>6 DEF Erase
  <2>2. \A f \in Fids : \/ family'[f] = family[f] /\ session'[f] = session[f]
                        \/ /\ family'[f].status = "deleted"
                           /\ family'[f].revocation_reason = None
    BY <2>1 DEF DeleteFamilies, NoFamily
  <2>3. \A f \in Fids : Live(f) => family[f].revocation_reason # "session_cap"
    BY NoneAssumption DEF RowsInv, GoodRows, Live, Reasons
  <2>4. None # "session_cap"
    BY NoneAssumption DEF Reasons
  <2>5. QED
    BY <2>2, <2>3, <2>4 DEF InsertsNothing, Live
<1>7. CASE Abort \/ Tick \/ UNCHANGED vars
  BY <1>1, <1>7 DEF Abort, Rollback, Tick, vars
<1>8. QED
  BY <1>2, <1>3, <1>4, <1>5, <1>6, <1>7 DEF Next

\* Time and every step but an insertion only take sessions away from the cap query.
LEMMA CountableShrinks ==
  ASSUME RowsInv, InsertsNothing, NEW u, NEW n \in Nat, NEW m \in Nat, n <= m
  PROVE  {f \in Fids : /\ family'[f].status = "live" /\ family'[f].user = u
                       /\ ~session'[f].revoked /\ session'[f].expires_at > m}
           \subseteq Countable(u, n)
<1>1. \A f \in Fids : session[f].expires_at \in Nat
  BY DEF RowsInv, TypeOK, SessionRow
<1>2. ASSUME NEW f \in Fids, family'[f].status = "live", family'[f].user = u,
             ~session'[f].revoked, session'[f].expires_at > m
      PROVE  f \in Countable(u, n)
  <2>1. /\ Live(f) /\ family[f].user = u /\ ~session[f].revoked
        /\ session'[f].expires_at = session[f].expires_at
    BY <1>2 DEF InsertsNothing
  <2>2. session[f].expires_at > n
    BY <1>1, <1>2, <2>1
  <2>3. QED
    BY <2>1, <2>2 DEF Countable
<1>3. QED
  BY <1>2

\* What a step does to the open transactions.
LEMMA TxSteps ==
  ASSUME RowsInv, [Next]_vars
  PROVE  /\ clock' \in Nat /\ clock <= clock'
         /\ \A t \in Txs :
              \/ tx'[t] = tx[t]
              \/ tx'[t].op # "create_session"
              \/ /\ tx'[t].rows = Countable(tx'[t].user, clock) /\ tx'[t].now = clock
                 /\ UNCHANGED <<clock, family, session>>
<1>1. clock \in Nat /\ tx \in [Txs -> TxState] /\ NoTx.op = "idle"
  BY DEF RowsInv, TypeOK, NoTx
<1>2. CASE Create
  <2>1. ASSUME NEW t \in Txs, NEW u \in Users, NEW n \in CallerNow, CreateSessionSelect(t, u, n),
               NEW s \in Txs
        PROVE  \/ tx'[s] = tx[s]
               \/ /\ tx'[s].rows = Countable(tx'[s].user, clock) /\ tx'[s].now = clock
                  /\ UNCHANGED <<clock, family, session>>
    <3>1. CASE s = t
      <4>1. tx'[t] = [op |-> "create_session", user |-> u, rows |-> Countable(u, clock),
                      now |-> clock, issued |-> n]
        BY <1>1, <2>1 DEF CreateSessionSelect
      <4>2. tx'[t].rows = Countable(u, clock) /\ tx'[t].user = u /\ tx'[t].now = clock
        BY <4>1
      <4>3. QED
        BY <2>1, <3>1, <4>2 DEF CreateSessionSelect
    <3>2. CASE s # t
      BY <1>1, <2>1, <3>2 DEF CreateSessionSelect
    <3>3. QED
      BY <3>1, <3>2
  <2>2. ASSUME NEW t \in Txs, NEW f \in Fids, NEW d \in Devices, NEW E \in SUBSET Fids,
               CreateSessionCommit(t, f, d, E), NEW s \in Txs
        PROVE  tx'[s] = tx[s] \/ tx'[s].op # "create_session"
    BY <1>1, <2>2 DEF CreateSessionCommit
  <2>3. clock' = clock
    BY <1>2 DEF Create, CreateSessionSelect, CreateSessionCommit
  <2>4. QED
    BY <1>1, <1>2, <2>1, <2>2, <2>3 DEF Create
<1>3. CASE Revoke
  <2>1. ASSUME NEW t \in Txs, NEW u \in Users, RevokeAllSelect(t, u), NEW s \in Txs
        PROVE  tx'[s] = tx[s] \/ tx'[s].op # "create_session"
    <3>1. CASE s = t
      <4>1. tx'[t] = [op |-> "revoke_all", user |-> u, rows |-> Unrevoked(u),
                      now |-> clock, issued |-> clock]
        BY <1>1, <2>1 DEF RevokeAllSelect
      <4>2. QED
        BY <3>1, <4>1
    <3>2. CASE s # t
      BY <1>1, <2>1, <3>2 DEF RevokeAllSelect
    <3>3. QED
      BY <3>1, <3>2
  <2>2. ASSUME NEW t \in Txs, NEW r, RevokeAllCommit(t, r), NEW s \in Txs
        PROVE  tx'[s] = tx[s] \/ tx'[s].op # "create_session"
    BY <1>1, <2>2 DEF RevokeAllCommit
  <2>3. ASSUME NEW f \in Fids, NEW r, RevokeSession(f, r) PROVE tx' = tx
    BY <2>3 DEF RevokeSession
  <2>4. clock' = clock
    BY <1>3 DEF Revoke, RevokeSession, RevokeAllSelect, RevokeAllCommit
  <2>5. QED
    BY <1>1, <1>3, <2>1, <2>2, <2>3, <2>4 DEF Revoke
<1>4. CASE Rotate \/ Rescope \/ Erase \/ UNCHANGED vars
  <2>1. clock' = clock /\ tx' = tx
    BY <1>4 DEF Rotate, RotateRefreshToken, RefuseRotation, Rescope, ScopeSession,
                OffboardSessions, Erase, DeleteFamilies, vars
  <2>2. QED
    BY <1>1, <2>1
<1>5. CASE Abort
  BY <1>1, <1>5 DEF Abort, Rollback
<1>6. CASE Tick
  BY <1>1, <1>6 DEF Tick
<1>7. QED
  BY <1>2, <1>3, <1>4, <1>5, <1>6 DEF Next

\* The repository's clock reading of an open creation is in the past.
CreationsAreOld == \A t \in Txs : tx[t].op = "create_session" => tx[t].now <= clock

LEMMA CreationsStayOld ==
  ASSUME RowsInv, CreationsAreOld, [Next]_vars
  PROVE  CreationsAreOld'
<1> SUFFICES ASSUME NEW t \in Txs, tx'[t].op = "create_session"
             PROVE  tx'[t].now <= clock'
  BY DEF CreationsAreOld
<1>1. /\ clock \in Nat /\ clock' \in Nat /\ clock <= clock' /\ tx \in [Txs -> TxState]
      /\ tx'[t] = tx[t] \/ tx'[t].now = clock
  BY TxSteps DEF RowsInv, TypeOK
<1>2. tx'[t] = tx[t] => tx[t].now <= clock /\ tx[t].now \in Nat
  BY <1>1 DEF CreationsAreOld, TxState
<1>3. QED
  BY <1>1, <1>2

\* create_session revokes no session that is younger than one that it had read and keeps,
\* whatever other transactions commit between its SELECT and its own commit.
THEOREM OldestAreEvicted == Spec => EvictsOldest
<1> DEFINE A == \A t \in Txs, f, g \in Fids :
       /\ tx[t].op = "create_session" /\ tx'[t].op = "idle"
       /\ Live(f)
       /\ family'[f].revocation_reason = "session_cap"
       /\ g \in tx[t].rows /\ g \in Countable(family[f].user, clock)
       /\ family'[g].status = "live"
       => session[f].created_at <= session[g].created_at
<1>1. Init => RowsInv /\ CreationsAreOld
  BY RowsInvInit DEF Init, CreationsAreOld, NoTx
<1>2. RowsInv /\ CreationsAreOld /\ [Next]_vars => RowsInv' /\ CreationsAreOld'
  BY RowsInvNext, CreationsStayOld
<1>3. ASSUME RowsInv, CreationsAreOld, [Next]_vars PROVE [A]_vars
  <2> SUFFICES ASSUME NEW s \in Txs, tx[s].op = "create_session", tx'[s].op = "idle",
                      NEW f \in Fids, NEW g \in Fids, Live(f),
                      family'[f].revocation_reason = "session_cap", g \in tx[s].rows,
                      g \in Countable(family[f].user, clock), family'[g].status = "live"
               PROVE  session[f].created_at <= session[g].created_at
    OBVIOUS
  <2>1. PICK t \in Txs, h \in Fids, d \in Devices, E \in SUBSET Fids :
          CreateSessionCommit(t, h, d, E)
    BY <1>3, OnlyCreationInserts DEF InsertsNothing
  <2>2. \A i \in Fids \ (E \cup {h}) : family'[i] = family[i]
    BY <2>1 DEF CreateSessionCommit
  <2>3. family[f].revocation_reason # "session_cap" /\ f # h /\ g # h
    BY <1>3, <2>1, NoneAssumption DEF RowsInv, GoodRows, Live, Reasons, CreateSessionCommit,
                                      Countable
  <2>4. f \in E
    BY <2>2, <2>3
  <2>5. IsOldest(E, LockedRows(t))
    BY <2>1 DEF CreateSessionCommit
  <2>6. family[f].user = tx[t].user
    BY <2>4, <2>5 DEF IsOldest, LockedRows, Countable
  <2>7. g \in LockedRows(t)
    <3>1. /\ clock \in Nat /\ tx[t].now \in Nat /\ session[g].expires_at \in Nat
      BY <1>3 DEF RowsInv, TypeOK, TxState, SessionRow
    <3>2. tx[t].now <= clock /\ g \in tx[t].rows
      <4>1. tx[t].op = "create_session" /\ tx' = [tx EXCEPT ![t] = NoTx]
        BY <2>1 DEF CreateSessionCommit
      <4>2. s = t
        BY <4>1
      <4>3. QED
        BY <1>3, <4>1, <4>2 DEF CreationsAreOld
    <3>3. g \in Countable(tx[t].user, tx[t].now)
      BY <2>6, <3>1, <3>2 DEF Countable
    <3>4. QED
      BY <3>2, <3>3 DEF LockedRows
  <2>8. g \notin E
    <3>1. \A row \in FamilyRow : RevokedFamily(row, "session_cap").status = "revoked"
      BY DEF RevokedFamily, FamilyRow
    <3>2. g \in E => family'[g] = RevokedFamily(family[g], "session_cap")
      BY <2>1, <2>3 DEF CreateSessionCommit
    <3>3. family[g] \in FamilyRow
      BY <1>3 DEF RowsInv, TypeOK
    <3>4. QED
      BY <3>1, <3>2, <3>3
  <2>9. QED
    BY <2>4, <2>5, <2>7, <2>8 DEF IsOldest
<1>4. QED
  BY <1>1, <1>2, <1>3, PTL DEF Spec, EvictsOldest
-----------------------------------------------------------------------------
(***************************************************************************)
(* The cap when creations do overlap.  While at most k creations of a user *)
(* are open at once, the user has at most k - 1 sessions too many: an      *)
(* excess does not build up over rounds of overlapping creations.  The     *)
(* invariant looks at every set P of open creations: either they all fit   *)
(* under the bound, one more session for each, or one of them has missed   *)
(* few enough sessions to bring the user back under it when it commits.    *)
(***************************************************************************)
Creating(u) == {t \in Txs : tx[t].op = "create_session" /\ tx[t].user = u}

Overlaps(k) == \A u \in Users : Cardinality(Creating(u)) <= k

CapWithin(k) == \A u \in Users : Cardinality(Countable(u, clock)) <= MaxActive + k - 1

Active(u) == Countable(u, clock)
Missed(u, t) == Active(u) \ tx[t].rows

Fits(k, u, P) ==
  \/ Cardinality(Active(u)) + Cardinality(P) <= MaxActive + k - 1
  \/ \E t \in P : Cardinality(Missed(u, t)) + Cardinality(P) <= k

OverlapInv(k) ==
  /\ \A t \in Txs : tx[t].op = "create_session" => tx[t].now <= clock
  /\ \A u \in Users : \A P \in SUBSET Creating(u) : Fits(k, u, P)

\* Sets of families and of transactions have a number of elements.
LEMMA SubsetCounts ==
  ASSUME NEW S, IsFiniteSet(S), NEW A \in SUBSET S, NEW B \in SUBSET A
  PROVE  /\ IsFiniteSet(A) /\ IsFiniteSet(B)
         /\ Cardinality(A) \in Nat /\ Cardinality(B) \in Nat /\ Cardinality(B) <= Cardinality(A)
<1>1. IsFiniteSet(A)
  BY FS_Subset
<1>2. IsFiniteSet(B) /\ Cardinality(B) <= Cardinality(A)
  BY <1>1, FS_Subset
<1>3. QED
  BY <1>1, <1>2, FS_CardinalityType

\* One more element.
LEMMA OneMore ==
  ASSUME NEW S, IsFiniteSet(S), NEW A \in SUBSET S, NEW x, NEW B \in SUBSET (A \cup {x})
  PROVE  /\ Cardinality(A) \in Nat /\ Cardinality(B) \in Nat
         /\ Cardinality(B) <= Cardinality(A) + 1
         /\ x \notin A => Cardinality(A \cup {x}) = Cardinality(A) + 1
<1>1. IsFiniteSet(A) /\ Cardinality(A) \in Nat
  BY FS_Subset, FS_CardinalityType
<1>2. /\ IsFiniteSet(A \cup {x})
      /\ Cardinality(A \cup {x}) = IF x \in A THEN Cardinality(A) ELSE Cardinality(A) + 1
  BY <1>1, FS_AddElement
<1> DEFINE C == A \cup {x}
<1>3. IsFiniteSet(C) /\ B \in SUBSET C
  BY <1>2
<1> HIDE DEF C
<1>4. IsFiniteSet(B) /\ Cardinality(B) <= Cardinality(C)
  BY <1>3, FS_Subset
<1>5. Cardinality(B) \in Nat
  BY <1>4, FS_CardinalityType
<1>6. Cardinality(B) <= Cardinality(A) + 1
  BY <1>1, <1>2, <1>4, <1>5 DEF C
<1>7. QED
  BY <1>1, <1>2, <1>5, <1>6

\* What create_session leaves active, with the sessions it has missed.
LEMMA CreationCounts ==
  ASSUME RowsInv, IsFiniteSet(Fids), NEW t \in Txs, NEW f \in Fids, NEW d \in Devices,
         NEW E \in SUBSET Fids, CreateSessionCommit(t, f, d, E), tx[t].now <= clock, NEW u \in Users
  PROVE  /\ u # tx[t].user => Active(u)' \subseteq Active(u)
         /\ Active(u)' \subseteq Active(u) \cup {f}
         /\ u = tx[t].user => Cardinality(Active(u)') <= MaxActive + Cardinality(Missed(u, t))
<1> DEFINE L == LockedRows(t)
           m == Cardinality(L)
           C == Active(u)
           D == {g \in Fids : /\ family'[g].status = "live" /\ family'[g].user = u
                              /\ ~session'[g].revoked /\ session'[g].expires_at > clock}
<1>1. /\ clock \in Nat /\ tx[t].now \in Nat /\ MaxActive \in Nat \ {0} /\ clock' = clock
      /\ \A g \in Fids : session[g].expires_at \in Nat
  BY LimitsAssumption DEF RowsInv, TypeOK, TxState, SessionRow, CreateSessionCommit
<1>2. L \in SUBSET Fids /\ IsFiniteSet(L) /\ m \in Nat
  BY FS_Subset, FS_CardinalityType DEF LockedRows, Countable
<1>3. /\ E \subseteq L /\ Cardinality(E) = Overflow(m)
      /\ \A g \in E : family'[g].status = "revoked"
      /\ \A g \in Fids \ (E \cup {f}) : family'[g] = family[g] /\ session'[g] = session[g]
      /\ family'[f].user = tx[t].user
  <2>1. E \subseteq L /\ Cardinality(E) = Overflow(m)
    BY DEF CreateSessionCommit, IsOldest
  <2>2. \A g \in E : g # f
    BY <2>1 DEF CreateSessionCommit, LockedRows, Countable, Live
  <2>3. \A row \in FamilyRow : RevokedFamily(row, "session_cap").status = "revoked"
    BY DEF RevokedFamily, FamilyRow
  <2>4. \A g \in E : family'[g].status = "revoked"
    BY <2>2, <2>3 DEF CreateSessionCommit, RowsInv, TypeOK
  <2>5. QED
    BY <2>1, <2>4 DEF CreateSessionCommit
<1>4. Cardinality(L \ E) = m - Overflow(m)
  <2>1. L \cap E = E
    BY <1>3
  <2>2. Cardinality(L \ E) = Cardinality(L) - Cardinality(L \cap E)
    BY <1>2, FS_Difference
  <2>3. QED
    BY <1>3, <2>1, <2>2
<1>5. m - Overflow(m) <= MaxActive - 1
  BY <1>1, <1>2 DEF Overflow
<1> HIDE DEF m
<1>6. Active(u)' = D
  BY <1>1 DEF Active, Countable, Live
<1>7. D \ {f} \subseteq C \ E /\ D \in SUBSET Fids /\ C \in SUBSET Fids
  BY <1>3 DEF Active, Countable, Live
<1>8. u # tx[t].user => f \notin D
  BY <1>3
<1>9. ASSUME u = tx[t].user PROVE Cardinality(D) <= MaxActive + Cardinality(Missed(u, t))
  <2> DEFINE R == L \ E
             M == Missed(u, t)
  <2>1. D \in SUBSET ((R \cup M) \cup {f})
    <3>1. C \subseteq Countable(u, tx[t].now)
      BY <1>1 DEF Active, Countable
    <3>2. C \subseteq L \cup M
      BY <1>9, <3>1 DEF LockedRows, Missed
    <3>3. QED
      BY <1>7, <3>2
  <2>2. R \in SUBSET Fids /\ M \in SUBSET Fids
    BY <1>2, <1>7 DEF Missed
  <2>3. Cardinality(R) <= MaxActive - 1
    BY <1>4, <1>5
  <2> HIDE DEF R, M, D
  <2>4. IsFiniteSet(R) /\ IsFiniteSet(M) /\ Cardinality(R) \in Nat /\ Cardinality(M) \in Nat
    BY <2>2, FS_Subset, FS_CardinalityType
  <2>5. Cardinality(R \cup M) <= Cardinality(R) + Cardinality(M)
    <3>1. /\ IsFiniteSet(R \cup M)
          /\ Cardinality(R \cup M) = Cardinality(R) + Cardinality(M) - Cardinality(R \cap M)
      BY <2>4, FS_Union
    <3>2. R \cap M \in SUBSET R
      OBVIOUS
    <3>3. Cardinality(R \cap M) \in Nat
      BY <2>4, <3>2, FS_Subset, FS_CardinalityType
    <3>4. QED
      BY <2>4, <3>1, <3>3
  <2>6. R \cup M \in SUBSET Fids
    BY <2>2
  <2>7. /\ Cardinality(R \cup M) \in Nat /\ Cardinality(D) \in Nat
        /\ Cardinality(D) <= Cardinality(R \cup M) + 1
    BY <2>1, <2>6, OneMore
  <2>8. Cardinality(D) <= MaxActive + Cardinality(M)
    BY <1>1, <2>3, <2>4, <2>5, <2>7
  <2>9. QED
    BY <2>8 DEF M
<1>10. QED
  BY <1>6, <1>7, <1>8, <1>9
\* While nothing is inserted, open creations miss nothing more, and a new one misses nothing.
LEMMA OverlapWithoutInsert ==
  ASSUME IsFiniteSet(Fids), IsFiniteSet(Txs), NEW k \in Nat \ {0}, RowsInv, OverlapInv(k),
         Overlaps(k)', [Next]_vars, InsertsNothing, NEW u \in Users, NEW P \in SUBSET Creating(u)'
  PROVE  Fits(k, u, P)'
<1>1. /\ clock \in Nat /\ clock' \in Nat /\ clock <= clock' /\ MaxActive \in Nat
      /\ \A t \in Txs :
           \/ tx'[t] = tx[t]
           \/ tx'[t].op # "create_session"
           \/ /\ tx'[t].rows = Countable(tx'[t].user, clock) /\ tx'[t].now = clock
              /\ UNCHANGED <<clock, family, session>>
  BY TxSteps, LimitsAssumption DEF RowsInv, TypeOK
<1> DEFINE C == Active(u)
           D == Active(u)'
<1>2. D \subseteq C /\ C \in SUBSET Fids
  <2>1. {f \in Fids : /\ family'[f].status = "live" /\ family'[f].user = u
                      /\ ~session'[f].revoked /\ session'[f].expires_at > clock'}
          \subseteq Countable(u, clock)
    BY <1>1, CountableShrinks
  <2>2. QED
    BY <2>1 DEF Active, Countable, Live
<1>3. /\ P \in SUBSET Txs /\ Creating(u)' \in SUBSET Txs
      /\ \A t \in P : tx'[t].op = "create_session" /\ tx'[t].user = u
  BY DEF Creating
<1>4. Cardinality(C) \in Nat /\ Cardinality(D) \in Nat /\ Cardinality(D) <= Cardinality(C)
  <2> HIDE DEF C, D
  <2>1. QED
    BY <1>2, SubsetCounts
<1>5. Cardinality(P) \in Nat /\ Cardinality(P) <= k
  <2> DEFINE Q == Creating(u)'
  <2>1. Q \in SUBSET Txs /\ P \in SUBSET Q /\ Cardinality(Q) <= k
    BY <1>3 DEF Overlaps
  <2> HIDE DEF Q
  <2>2. Cardinality(P) \in Nat /\ Cardinality(Q) \in Nat /\ Cardinality(P) <= Cardinality(Q)
    BY <2>1, SubsetCounts
  <2>3. QED
    BY <2>1, <2>2
<1>6. CASE \A t \in P : tx'[t] = tx[t]
  <2>1. P \in SUBSET Creating(u)
    BY <1>3, <1>6 DEF Creating
  <2>2. Fits(k, u, P)
    BY <2>1 DEF OverlapInv
  <2>3. CASE Cardinality(C) + Cardinality(P) <= MaxActive + k - 1
    <3>1. Cardinality(D) + Cardinality(P) <= MaxActive + k - 1
      BY <1>1, <1>4, <1>5, <2>3
    <3>2. QED
      BY <3>1 DEF Fits
  <2>4. CASE \E t \in P : Cardinality(Missed(u, t)) + Cardinality(P) <= k
    <3>1. PICK t \in P : Cardinality(Missed(u, t)) + Cardinality(P) <= k
      BY <2>4
    <3> DEFINE M == Missed(u, t)
               N == Missed(u, t)'
    <3>2. N \in SUBSET M /\ M \in SUBSET Fids
      BY <1>2, <1>6 DEF Missed
    <3> HIDE DEF M, N
    <3>3. Cardinality(M) \in Nat /\ Cardinality(N) \in Nat /\ Cardinality(N) <= Cardinality(M)
      BY <3>2, SubsetCounts
    <3>4. Cardinality(M) + Cardinality(P) <= k
      BY <3>1 DEF M
    <3>5. Cardinality(N) + Cardinality(P) <= k
      BY <1>5, <3>3, <3>4
    <3>6. QED
      BY <3>5 DEF Fits, N
  <2>5. QED
    BY <2>2, <2>3, <2>4 DEF Fits
<1>7. CASE \E t \in P : tx'[t] # tx[t]
  <2>1. PICK t \in P : tx'[t] # tx[t]
    BY <1>7
  <2>2. /\ tx'[t].rows = Countable(u, clock) /\ UNCHANGED <<clock, family, session>>
    BY <1>1, <1>3, <2>1
  <2>3. Missed(u, t)' = {}
    BY <2>2 DEF Missed, Active, Countable, Live
  <2>4. Cardinality(Missed(u, t)') = 0
    BY <2>3, FS_EmptySet
  <2>5. Cardinality(Missed(u, t)') + Cardinality(P) <= k
    BY <1>5, <2>4
  <2>6. QED
    BY <2>5 DEF Fits
<1>8. QED
  BY <1>6, <1>7

\* A creation that commits was one of the set, or another of it has missed one session more.
LEMMA OverlapWithInsert ==
  ASSUME IsFiniteSet(Fids), IsFiniteSet(Txs), NEW k \in Nat \ {0}, RowsInv, OverlapInv(k),
         NEW t \in Txs, NEW f \in Fids, NEW d \in Devices, NEW E \in SUBSET Fids,
         CreateSessionCommit(t, f, d, E), NEW u \in Users, NEW P \in SUBSET Creating(u)'
  PROVE  Fits(k, u, P)'
<1>1. /\ tx \in [Txs -> TxState] /\ MaxActive \in Nat /\ NoTx.op = "idle"
      /\ tx[t].op = "create_session" /\ tx' = [tx EXCEPT ![t] = NoTx]
  BY LimitsAssumption DEF RowsInv, TypeOK, CreateSessionCommit, NoTx
<1>2. tx'[t].op = "idle" /\ \A s \in Txs \ {t} : tx'[s] = tx[s]
  BY <1>1
<1>3. P \in SUBSET Creating(u) /\ P \in SUBSET Txs /\ t \notin P /\ \A s \in P : tx'[s] = tx[s]
  BY <1>2 DEF Creating
<1>4. tx[t].now <= clock
  BY <1>1 DEF OverlapInv
<1>5. /\ u # tx[t].user => Active(u)' \subseteq Active(u)
      /\ Active(u)' \subseteq Active(u) \cup {f}
      /\ u = tx[t].user => Cardinality(Active(u)') <= MaxActive + Cardinality(Missed(u, t))
  BY <1>4, CreationCounts
<1> DEFINE C == Active(u)
           D == Active(u)'
<1>6. C \in SUBSET Fids
  BY DEF Active, Countable
<1>7. Cardinality(P) \in Nat
  BY <1>3, FS_Subset, FS_CardinalityType
<1>8. CASE u # tx[t].user
  <2>1. Fits(k, u, P)
    BY <1>3 DEF OverlapInv
  <2>2. Cardinality(C) \in Nat /\ Cardinality(D) \in Nat /\ Cardinality(D) <= Cardinality(C)
    <3>1. D \in SUBSET C
      BY <1>5, <1>8
    <3> HIDE DEF C, D
    <3>2. QED
      BY <1>6, <3>1, SubsetCounts
  <2>3. CASE Cardinality(C) + Cardinality(P) <= MaxActive + k - 1
    <3>1. Cardinality(D) + Cardinality(P) <= MaxActive + k - 1
      BY <1>1, <1>7, <2>2, <2>3
    <3>2. QED
      BY <3>1 DEF Fits
  <2>4. CASE \E s \in P : Cardinality(Missed(u, s)) + Cardinality(P) <= k
    <3>1. PICK s \in P : Cardinality(Missed(u, s)) + Cardinality(P) <= k
      BY <2>4
    <3> DEFINE M == Missed(u, s)
               N == Missed(u, s)'
    <3>2. N \in SUBSET M /\ M \in SUBSET Fids
      BY <1>3, <1>5, <1>6, <1>8 DEF Missed
    <3> HIDE DEF M, N
    <3>3. Cardinality(M) \in Nat /\ Cardinality(N) \in Nat /\ Cardinality(N) <= Cardinality(M)
      BY <3>2, SubsetCounts
    <3>4. Cardinality(M) + Cardinality(P) <= k
      BY <3>1 DEF M
    <3>5. Cardinality(N) + Cardinality(P) <= k
      BY <1>7, <3>3, <3>4
    <3>6. QED
      BY <3>5 DEF Fits, N
  <2>5. QED
    BY <2>1, <2>3, <2>4 DEF Fits
<1>9. CASE u = tx[t].user
  <2> DEFINE Q == P \cup {t}
  <2>1. Q \in SUBSET Creating(u)
    BY <1>1, <1>3, <1>9 DEF Creating
  <2>2. Fits(k, u, Q)
    BY <2>1 DEF OverlapInv
  <2>3. Cardinality(Q) = Cardinality(P) + 1
    BY <1>3, OneMore
  <2>4. Cardinality(C) \in Nat /\ Cardinality(D) \in Nat /\ Cardinality(D) <= Cardinality(C) + 1
    <3>1. D \in SUBSET (C \cup {f})
      BY <1>5
    <3> HIDE DEF C, D
    <3>2. QED
      BY <1>6, <3>1, OneMore
  <2> HIDE DEF Q
  <2>5. CASE Cardinality(C) + Cardinality(Q) <= MaxActive + k - 1
    <3>1. Cardinality(D) + Cardinality(P) <= MaxActive + k - 1
      BY <1>1, <1>7, <2>3, <2>4, <2>5
    <3>2. QED
      BY <3>1 DEF Fits
  <2>6. ASSUME NEW s \in Q, Cardinality(Missed(u, s)) + Cardinality(Q) <= k PROVE Fits(k, u, P)'
    <3> DEFINE M == Missed(u, s)
               N == Missed(u, s)'
    <3>1. M \in SUBSET Fids
      BY <1>6 DEF Missed
    <3>2. Cardinality(M) + Cardinality(P) + 1 <= k
      <4>1. Cardinality(M) \in Nat
        BY <3>1, FS_Subset, FS_CardinalityType
      <4>2. QED
        BY <1>7, <2>3, <2>6, <4>1
    <3>3. CASE s = t
      <4>1. Cardinality(D) <= MaxActive + Cardinality(M)
        BY <1>5, <1>9, <3>3
      <4>2. Cardinality(M) \in Nat
        BY <3>1, FS_Subset, FS_CardinalityType
      <4> HIDE DEF M, D
      <4>3. Cardinality(D) + Cardinality(P) <= MaxActive + k - 1
        BY <1>1, <1>7, <2>4, <3>2, <4>1, <4>2
      <4>4. QED
        BY <4>3 DEF Fits, D
    <3>4. CASE s \in P
      <4>1. N \in SUBSET (M \cup {f})
        BY <1>3, <1>5, <3>4 DEF Missed
      <4> HIDE DEF M, N
      <4>2. Cardinality(M) \in Nat /\ Cardinality(N) \in Nat /\ Cardinality(N) <= Cardinality(M) + 1
        BY <3>1, <4>1, OneMore
      <4>3. Cardinality(N) + Cardinality(P) <= k
        BY <1>7, <3>2, <4>2
      <4>4. QED
        BY <3>4, <4>3 DEF Fits, N
    <3>5. QED
      BY <3>3, <3>4 DEF Q
  <2>7. QED
    BY <2>2, <2>5, <2>6 DEF Fits
<1>10. QED
  BY <1>8, <1>9

LEMMA OverlapInvNext ==
  ASSUME IsFiniteSet(Fids), IsFiniteSet(Txs), NEW k \in Nat \ {0}, RowsInv, OverlapInv(k),
         Overlaps(k)', [Next]_vars
  PROVE  OverlapInv(k)'
<1>1. ASSUME NEW t \in Txs, tx'[t].op = "create_session" PROVE tx'[t].now <= clock'
  <2>1. /\ clock \in Nat /\ clock' \in Nat /\ clock <= clock' /\ tx \in [Txs -> TxState]
        /\ \/ tx'[t] = tx[t]
           \/ tx'[t].now = clock
    BY <1>1, TxSteps DEF RowsInv, TypeOK
  <2>2. tx'[t] = tx[t] => tx[t].now <= clock /\ tx[t].now \in Nat
    BY <1>1, <2>1 DEF OverlapInv, TxState
  <2>3. QED
    BY <2>1, <2>2
<1>2. ASSUME NEW u \in Users, NEW P \in SUBSET Creating(u)' PROVE Fits(k, u, P)'
  BY OnlyCreationInserts, OverlapWithoutInsert, OverlapWithInsert
<1>3. QED
  BY <1>1, <1>2 DEF OverlapInv

LEMMA OverlapInvInit ==
  ASSUME IsFiniteSet(Txs), NEW k \in Nat \ {0}, Init
  PROVE  OverlapInv(k)
<1>1. /\ \A t \in Txs : tx[t].op # "create_session"
      /\ \A u : Active(u) = {} /\ Creating(u) = {}
  BY DEF Init, NoTx, NoFamily, Active, Countable, Live, Creating
<1>2. \A u : Cardinality(Active(u)) = 0 /\ Cardinality({}) = 0
  BY <1>1, FS_EmptySet
<1>3. ASSUME NEW u \in Users, NEW P \in SUBSET Creating(u) PROVE Fits(k, u, P)
  <2>1. P = {}
    BY <1>1
  <2>2. QED
    BY <1>2, <2>1, LimitsAssumption DEF Fits
<1>4. QED
  BY <1>1, <1>3 DEF OverlapInv

LEMMA OverlapInvBounds ==
  ASSUME IsFiniteSet(Fids), NEW k \in Nat \ {0}, OverlapInv(k)
  PROVE  CapWithin(k)
<1> SUFFICES ASSUME NEW u \in Users
             PROVE  Cardinality(Countable(u, clock)) <= MaxActive + k - 1
  BY DEF CapWithin
<1>1. {} \in SUBSET Creating(u) /\ Cardinality({}) = 0
  BY FS_EmptySet
<1>2. Fits(k, u, {})
  BY <1>1 DEF OverlapInv
<1>3. Active(u) \in SUBSET Fids
  BY DEF Active, Countable
<1>4. Cardinality(Active(u)) \in Nat
  BY <1>3, FS_Subset, FS_CardinalityType
<1>5. Cardinality(Active(u)) <= MaxActive + k - 1
  BY <1>1, <1>2, <1>4, LimitsAssumption DEF Fits
<1>6. QED
  BY <1>5 DEF Active

\* create_session: while at most k creations of a user are open at once, the user has at most
\* k - 1 sessions more than MAX_ACTIVE_SESSIONS, however many rounds of them overlap.
THEOREM CapExcessIsBounded ==
  ASSUME IsFiniteSet(Fids), IsFiniteSet(Txs), NEW k \in Nat \ {0}
  PROVE  Spec /\ []Overlaps(k) => []CapWithin(k)
<1>1. Init => RowsInv /\ OverlapInv(k)
  BY RowsInvInit, OverlapInvInit
<1>2. RowsInv /\ OverlapInv(k) /\ Overlaps(k)' /\ [Next]_vars => RowsInv' /\ OverlapInv(k)'
  BY RowsInvNext, OverlapInvNext
<1>3. OverlapInv(k) => CapWithin(k)
  BY OverlapInvBounds
<1>4. QED
  BY <1>1, <1>2, <1>3, PTL DEF Spec

\* create_session, with no condition on what overlaps: the connections of the pool bound the
\* excess.  With n transactions open at most, a user never has more than n - 1 sessions above
\* MAX_ACTIVE_SESSIONS.
THEOREM PoolBoundsCap ==
  ASSUME IsFiniteSet(Fids), IsFiniteSet(Txs), Txs # {}
  PROVE  Spec => []SessionCap
<1> DEFINE k == Cardinality(Txs)
<1>1. k \in Nat \ {0}
  BY FS_CardinalityType, FS_EmptySet
<1>2. ASSUME NEW u PROVE Cardinality({t \in Txs : tx'[t].op = "create_session" /\ tx'[t].user = u}) <= k
  BY FS_Subset
<1>3. Overlaps(k)'
  BY <1>2 DEF Overlaps, Creating
<1> HIDE DEF k
<1>4. Init => RowsInv /\ OverlapInv(k)
  BY <1>1, RowsInvInit, OverlapInvInit
<1>5. RowsInv /\ OverlapInv(k) /\ [Next]_vars => RowsInv' /\ OverlapInv(k)'
  BY <1>1, <1>3, RowsInvNext, OverlapInvNext
<1>6. OverlapInv(k) => CapWithin(k)
  BY <1>1, OverlapInvBounds
<1>7. Spec => []CapWithin(k)
  BY <1>4, <1>5, <1>6, PTL DEF Spec
<1>8. CapWithin(k) <=> SessionCap
  BY DEF k, CapWithin, SessionCap
<1>9. QED
  BY <1>7, <1>8, PTL
=============================================================================
