-------------------------- MODULE SessionRepository --------------------------
(***************************************************************************)
(* The PostgreSQL state behind SqlAlchemySessionRepository: refresh-token  *)
(* families, their sessions and their refresh tokens, and one action per   *)
(* transaction that changes them.                                          *)
(*                                                                         *)
(* A transaction locks the family and session rows it touches with SELECT  *)
(* ... FOR UPDATE before it reads them and holds them until it commits, so *)
(* transactions on one family are atomic.  The two that start from a set   *)
(* of rows, create_session and revoke_all, are not: under READ COMMITTED   *)
(* the set is the snapshot of the SELECT, rows committed later are missed, *)
(* and a row that changed before it was locked is re-checked.  They take   *)
(* two steps here, ...Select and ...Commit.                                *)
(***************************************************************************)
EXTENDS Naturals, FiniteSets, Sequences

CONSTANTS
  Users,        \* user identifiers
  Fids,         \* family identifiers; a session belongs to exactly one family
  Devices,      \* (client type, device fingerprint hash) pairs
  Orgs,         \* organization workspaces a session can be scoped to
  Txs,          \* database transactions that can be open at once
  None,         \* SQL NULL
  MaxActive,    \* MAX_ACTIVE_SESSIONS
  IdleTimeout,  \* IDLE_TIMEOUT_SECONDS
  SessionTTL,   \* SESSION_ABSOLUTE_SECONDS
  FamilyTTL,    \* REFRESH_FAMILY_SECONDS
  MaxTime,      \* bound: last value of the clock
  MaxLag,       \* bound: how old the caller's "now" may be when it is used
  MaxTokens,    \* bound: refresh tokens in one family
  MaxJti        \* bound: access-token identifiers given to one session

ASSUME LimitsAssumption ==
  /\ MaxActive \in Nat \ {0}
  /\ IdleTimeout \in Nat \ {0}
  /\ SessionTTL \in Nat \ {0}
  /\ FamilyTTL \in Nat \ {0}
  /\ SessionTTL <= FamilyTTL
  /\ MaxTime \in Nat
  /\ MaxLag \in Nat
  /\ MaxTokens \in Nat
  /\ MaxJti \in Nat

\* The revocation reasons the callers use ("account_suspended" stands for all
\* the reasons of revoke_user_access).
Reasons == {"session_cap", "token_reuse", "expired", "client_mismatch", "logout",
            "user_selected", "logout_all", "account_suspended"}

\* NULL is no revocation reason.
ASSUME NoneAssumption == None \notin Reasons

VARIABLES
  clock,    \* wall-clock time
  family,   \* refresh_token_families
  session,  \* sessions, by the family they belong to
  token,    \* refresh_tokens of each family, in the order of insertion
  tx        \* open create_session and revoke_all transactions

vars == <<clock, family, session, token, tx>>

(***************************************************************************)
(* Rows.  status is "absent" before the insert, "live" while revoked_at is *)
(* NULL, "revoked" after it is set and "deleted" after an erasure.  A      *)
(* fresh uuid4 access_jti is the next natural number of its session.       *)
(***************************************************************************)
FamilyRow ==
  [status : {"absent", "live", "revoked", "deleted"},
   user : Users \cup {None}, device : Devices \cup {None},
   revocation_reason : Reasons \cup {None}, absolute_expires_at : Nat]

SessionRow ==
  [revoked : BOOLEAN, access_jti : Nat, org_id : Orgs \cup {None},
   created_at : Nat, last_activity_at : Nat, expires_at : Nat]

TokenRow == [used : BOOLEAN, revoked : BOOLEAN, generation : Nat, expires_at : Nat]

TxState ==
  [op : {"idle", "create_session", "revoke_all"}, user : Users \cup {None},
   rows : SUBSET Fids, now : Nat, issued : Nat]

NoFamily ==
  [status |-> "absent", user |-> None, device |-> None,
   revocation_reason |-> None, absolute_expires_at |-> 0]

NoSession ==
  [revoked |-> FALSE, access_jti |-> 0, org_id |-> None,
   created_at |-> 0, last_activity_at |-> 0, expires_at |-> 0]

NoTx == [op |-> "idle", user |-> None, rows |-> {}, now |-> 0, issued |-> 0]

TypeOK ==
  /\ clock \in Nat
  /\ family \in [Fids -> FamilyRow]
  /\ session \in [Fids -> SessionRow]
  /\ token \in [Fids -> Seq(TokenRow)]
  /\ tx \in [Txs -> TxState]

\* The caller reads its clock before it opens the transaction.
CallerNow == {n \in 0..clock : n + MaxLag >= clock}

Exists(f) == family[f].status \in {"live", "revoked"}
Live(f) == family[f].status = "live"

\* The WHERE clause of create_session's cap query.
Countable(u, now) ==
  {f \in Fids : /\ Live(f)
                /\ family[f].user = u
                /\ ~session[f].revoked
                /\ session[f].expires_at > now}

\* session_is_active; scope_session repeats the same conditions.
SessionIsActive(f, now) ==
  /\ Live(f)
  /\ ~session[f].revoked
  /\ session[f].expires_at > now
  /\ family[f].absolute_expires_at > now

\* The WHERE clause of revoke_all.
Unrevoked(u) == {f \in Fids : Live(f) /\ family[f].user = u /\ ~session[f].revoked}

-----------------------------------------------------------------------------
(***************************************************************************)
(* _revoke_locked: the first revocation and its reason win, and every      *)
(* token of the family is revoked with it.                                 *)
(***************************************************************************)
\* Mutant: a later revocation overwrites the first reason.
LastReasonWins(row, reason) ==
  [row EXCEPT !.status = "revoked", !.revocation_reason = reason]

RevokedFamily(row, reason) ==
  [row EXCEPT !.status = "revoked",
              !.revocation_reason = IF @ = None THEN reason ELSE @]

\* Mutant: the UPDATE of refresh_tokens is forgotten.
TokensOutliveFamily(rows) == rows

RevokedTokens(rows) == [i \in DOMAIN rows |-> [rows[i] EXCEPT !.revoked = TRUE]]

RevokeLocked(F, reason) ==
  /\ family' = [f \in Fids |-> IF f \in F THEN RevokedFamily(family[f], reason) ELSE family[f]]
  /\ session' = [f \in Fids |-> IF f \in F THEN [session[f] EXCEPT !.revoked = TRUE]
                                           ELSE session[f]]
  /\ token' = [f \in Fids |-> IF f \in F THEN RevokedTokens(token[f]) ELSE token[f]]

-----------------------------------------------------------------------------
(***************************************************************************)
(* create_session.  issued is SessionControl's clock reading, from which   *)
(* the lifetimes are counted; now is the repository's own.                 *)
(***************************************************************************)
CreateSessionSelect(t, u, issued) ==
  /\ tx[t].op = "idle"
  /\ tx' = [tx EXCEPT ![t] = [op |-> "create_session", user |-> u,
                              rows |-> Countable(u, clock), now |-> clock,
                              issued |-> issued]]
  /\ UNCHANGED <<clock, family, session, token>>

\* The rows of the snapshot that still qualify once they are locked.
LockedRows(t) == tx[t].rows \cap Countable(tx[t].user, tx[t].now)

\* Mutant: room is made only once the cap is exceeded.
OverflowTooLate(n) == IF n > MaxActive THEN n - MaxActive ELSE 0

Overflow(n) == IF n >= MaxActive THEN n - MaxActive + 1 ELSE 0

\* Mutant: ordered by created_at descending.
IsNewest(E, F) ==
  /\ E \subseteq F
  /\ Cardinality(E) = Overflow(Cardinality(F))
  /\ \A e \in E, g \in F \ E : session[e].created_at >= session[g].created_at

\* active_rows[:overflow] of the rows ordered by created_at.
IsOldest(E, F) ==
  /\ E \subseteq F
  /\ Cardinality(E) = Overflow(Cardinality(F))
  /\ \A e \in E, g \in F \ E : session[e].created_at <= session[g].created_at

CreateSessionCommit(t, f, d, E) ==
  /\ tx[t].op = "create_session"
  /\ family[f].status = "absent"
  /\ IsOldest(E, LockedRows(t))
  /\ family' = [g \in Fids |->
       CASE g = f -> [status |-> "live", user |-> tx[t].user, device |-> d,
                      revocation_reason |-> None,
                      absolute_expires_at |-> tx[t].issued + FamilyTTL]
         [] g \in E /\ g # f -> RevokedFamily(family[g], "session_cap")
         [] OTHER -> family[g]]
  /\ session' = [g \in Fids |->
       CASE g = f -> [revoked |-> FALSE, access_jti |-> 1, org_id |-> None,
                      created_at |-> tx[t].now, last_activity_at |-> tx[t].now,
                      expires_at |-> tx[t].issued + SessionTTL]
         [] g \in E /\ g # f -> [session[g] EXCEPT !.revoked = TRUE]
         [] OTHER -> session[g]]
  /\ token' = [g \in Fids |->
       CASE g = f -> << [used |-> FALSE, revoked |-> FALSE, generation |-> 0,
                         expires_at |-> tx[t].issued + FamilyTTL] >>
         [] g \in E /\ g # f -> RevokedTokens(token[g])
         [] OTHER -> token[g]]
  /\ tx' = [tx EXCEPT ![t] = NoTx]
  /\ UNCHANGED clock

-----------------------------------------------------------------------------
(***************************************************************************)
(* rotate_refresh_token, for the i-th token of family f presented from     *)
(* device d.  Reuse is decided before revocation, revocation before        *)
(* expiry, expiry before the device binding.                               *)
(***************************************************************************)
Expired(f, i, now) ==
  \/ token[f][i].expires_at <= now
  \/ family[f].absolute_expires_at <= now
  \/ session[f].expires_at <= now
  \/ session[f].last_activity_at + IdleTimeout <= now

RotationStatus(f, i, d, now) ==
  IF i \notin DOMAIN token[f] THEN "INVALID"
  ELSE IF token[f][i].used THEN "REUSED"
  ELSE IF token[f][i].revoked \/ ~Live(f) \/ session[f].revoked THEN "INVALID"
  ELSE IF Expired(f, i, now) THEN "EXPIRED"
  ELSE IF family[f].device # d THEN "CLIENT_MISMATCH"
  ELSE "ROTATED"

RefusalReason == [REUSED |-> "token_reuse", EXPIRED |-> "expired",
                  CLIENT_MISMATCH |-> "client_mismatch"]

\* A refused token takes its whole family with it.
RefuseRotation(f, i, d, now) ==
  /\ RotationStatus(f, i, d, now) \in DOMAIN RefusalReason
  /\ RevokeLocked({f}, RefusalReason[RotationStatus(f, i, d, now)])
  /\ UNCHANGED <<clock, tx>>

\* Mutant: every rotation extends the family.
SlidingReplacement(f, i, now) ==
  [used |-> FALSE, revoked |-> FALSE, generation |-> token[f][i].generation + 1,
   expires_at |-> now + FamilyTTL]

\* Mutant: the expiry of the replacement is left NULL.
EndlessReplacement(f, i, now) ==
  [used |-> FALSE, revoked |-> FALSE, generation |-> token[f][i].generation + 1,
   expires_at |-> None]

Replacement(f, i, now) ==
  [used |-> FALSE, revoked |-> FALSE, generation |-> token[f][i].generation + 1,
   expires_at |-> IF now + FamilyTTL <= family[f].absolute_expires_at
                  THEN now + FamilyTTL ELSE family[f].absolute_expires_at]

\* A new access_jti for another workspace context: activity at time now.
Rescoped(row, o, now) ==
  [row EXCEPT !.access_jti = @ + 1, !.org_id = o, !.last_activity_at = now]

\* Mutant: the exchanged token is revoked but used_at stays NULL.
RevokedNotSpent(row) == [row EXCEPT !.revoked = TRUE]

SpentToken(row) == [row EXCEPT !.used = TRUE, !.revoked = TRUE]

Rotated(rows, i, new) == Append([rows EXCEPT ![i] = SpentToken(rows[i])], new)

RotateRefreshToken(f, i, d, now) ==
  /\ RotationStatus(f, i, d, now) = "ROTATED"
  /\ Len(token[f]) < MaxTokens
  /\ session[f].access_jti < MaxJti
  /\ token' = [token EXCEPT ![f] = Rotated(@, i, Replacement(f, i, now))]
  /\ session' = [session EXCEPT ![f] = Rescoped(@, None, now)]
  /\ UNCHANGED <<clock, family, tx>>

-----------------------------------------------------------------------------
\* revoke_session has no filter on revoked rows: a second revocation changes nothing.
RevokeSession(f, reason) ==
  /\ Exists(f)
  /\ RevokeLocked({f}, reason)
  /\ UNCHANGED <<clock, tx>>

RevokeAllSelect(t, u) ==
  /\ tx[t].op = "idle"
  /\ tx' = [tx EXCEPT ![t] = [op |-> "revoke_all", user |-> u, rows |-> Unrevoked(u),
                              now |-> clock, issued |-> clock]]
  /\ UNCHANGED <<clock, family, session, token>>

RevokeAllRows(t) == tx[t].rows \cap Unrevoked(tx[t].user)

RevokeAllCommit(t, reason) ==
  /\ tx[t].op = "revoke_all"
  /\ RevokeLocked(RevokeAllRows(t), reason)
  /\ tx' = [tx EXCEPT ![t] = NoTx]
  /\ UNCHANGED clock

ScopeSession(f, o, now) ==
  /\ SessionIsActive(f, now)
  /\ session[f].access_jti < MaxJti
  /\ session' = [session EXCEPT ![f] = Rescoped(@, o, now)]
  /\ UNCHANGED <<clock, family, token, tx>>

\* offboard_member of the workspace repository: the sessions that are scoped to o.
ScopedTo(u, o) ==
  {f \in Fids : Exists(f) /\ family[f].user = u /\ session[f].org_id = o /\ ~session[f].revoked}

OffboardSessions(u, o, now) ==
  /\ \A f \in ScopedTo(u, o) : session[f].access_jti < MaxJti
  /\ session' = [f \in Fids |->
                   IF f \in ScopedTo(u, o)
                   THEN Rescoped(session[f], None, now)
                   ELSE session[f]]
  /\ UNCHANGED <<clock, family, token, tx>>

\* execute_erasure of the privacy repository deletes the user's families; the
\* foreign keys delete their sessions and tokens.
DeleteFamilies(u) ==
  LET gone == {f \in Fids : Exists(f) /\ family[f].user = u} IN
  /\ family' = [f \in Fids |-> IF f \in gone THEN [NoFamily EXCEPT !.status = "deleted"]
                                             ELSE family[f]]
  /\ session' = [f \in Fids |-> IF f \in gone THEN NoSession ELSE session[f]]
  /\ token' = [f \in Fids |-> IF f \in gone THEN << >> ELSE token[f]]
  /\ UNCHANGED <<clock, tx>>

\* The process dies, the connection drops or PostgreSQL breaks a deadlock.
Rollback(t) ==
  /\ tx[t].op # "idle"
  /\ tx' = [tx EXCEPT ![t] = NoTx]
  /\ UNCHANGED <<clock, family, session, token>>

Tick ==
  /\ clock < MaxTime
  /\ clock' = clock + 1
  /\ UNCHANGED <<family, session, token, tx>>

-----------------------------------------------------------------------------
Init ==
  /\ clock = 0
  /\ family = [f \in Fids |-> NoFamily]
  /\ session = [f \in Fids |-> NoSession]
  /\ token = [f \in Fids |-> << >>]
  /\ tx = [t \in Txs |-> NoTx]

Create ==
  \/ \E t \in Txs, u \in Users, n \in CallerNow : CreateSessionSelect(t, u, n)
  \/ \E t \in Txs, f \in Fids, d \in Devices, E \in SUBSET Fids : CreateSessionCommit(t, f, d, E)

Rotate ==
  \E f \in Fids : \E i \in DOMAIN token[f], d \in Devices, n \in CallerNow :
    RotateRefreshToken(f, i, d, n) \/ RefuseRotation(f, i, d, n)

\* SessionControl's callers and their reasons.
Revoke ==
  \/ \E f \in Fids, r \in {"logout", "user_selected"} : RevokeSession(f, r)
  \/ \E t \in Txs, u \in Users : RevokeAllSelect(t, u)
  \/ \E t \in Txs, r \in {"logout_all", "account_suspended"} : RevokeAllCommit(t, r)

Rescope ==
  \E o \in Orgs, n \in CallerNow :
    \/ \E f \in Fids : ScopeSession(f, o, n)
    \/ \E u \in Users : OffboardSessions(u, o, n)

Abort == \E t \in Txs : Rollback(t)

Erase == \E u \in Users : DeleteFamilies(u)

Next == Create \/ Rotate \/ Revoke \/ Rescope \/ Erase \/ Abort \/ Tick

Spec == Init /\ [][Next]_vars

-----------------------------------------------------------------------------
(***************************************************************************)
(* Properties.                                                             *)
(***************************************************************************)

\* Rotation spends tokens one after the other: the generations of a family are
\* consecutive, every token but the newest was exchanged, and so no token is ever
\* exchanged for two successors, whatever transactions interleave.
RotationChain ==
  \A f \in Fids : \A i \in 1..Len(token[f]) :
    /\ token[f][i].generation = i - 1
    /\ i < Len(token[f]) => token[f][i].used /\ token[f][i].revoked
    /\ i = Len(token[f]) => ~token[f][i].used

\* Family, session and tokens die together: a family is live exactly when its
\* session is unrevoked and its newest refresh token can still be presented.
FamilyDiesWhole ==
  \A f \in Fids :
    /\ Live(f) <=> (token[f] # << >> /\ ~token[f][Len(token[f])].revoked)
    /\ Exists(f) => (Live(f) <=> ~session[f].revoked)
    /\ Exists(f) => (family[f].revocation_reason = None <=> Live(f))

\* No chain of rotations carries a refresh token past the ceiling of its family
\* nor a session's activity past the caller's reading of the clock.
FamilyCeiling ==
  \A f \in Fids : Exists(f) =>
    /\ \A i \in 1..Len(token[f]) : token[f][i].expires_at <= family[f].absolute_expires_at
    /\ session[f].expires_at <= family[f].absolute_expires_at
    /\ session[f].last_activity_at <= clock

\* Revocation is final: a revoked family keeps its first reason, takes no new
\* token and no new access_jti, and leaves this state only by erasure.
KeepsRevoked ==
  \A f \in Fids : family[f].status = "revoked" =>
    \/ family'[f].status = "deleted"
    \/ /\ family'[f] = family[f]
       /\ session'[f] = session[f]
       /\ token'[f] = token[f]

RevocationIsFinal == [][KeepsRevoked]_vars

\* MAX_ACTIVE_SESSIONS bounds a user's active sessions, except that creations which overlap
\* do not see each other's rows: with n transactions the bound is exceeded by n - 1 sessions
\* at most, and never by more, however long the creations go on overlapping.
SessionCap ==
  \A u \in Users : Cardinality(Countable(u, clock)) <= MaxActive + Cardinality(Txs) - 1

\* The cap evicts from the old end: no session evicted by a creation was created later than
\* one that the creation had read and leaves active, whatever commits between its SELECT
\* and its commit.
EvictsOldest ==
  [][\A t \in Txs, f, g \in Fids :
       /\ tx[t].op = "create_session" /\ tx'[t].op = "idle"
       /\ Live(f)
       /\ family'[f].revocation_reason = "session_cap"
       /\ g \in tx[t].rows /\ g \in Countable(family[f].user, clock)
       /\ family'[g].status = "live"
       => session[f].created_at <= session[g].created_at]_vars
=============================================================================
