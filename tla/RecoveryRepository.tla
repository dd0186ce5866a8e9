-------------------------- MODULE RecoveryRepository --------------------------
(***************************************************************************)
(* Account recovery and governance: password-reset links and the password  *)
(* history, dual-channel contact changes, account unlock and suspension,   *)
(* and the four-eyes MFA reset.  They share the user row, whose version is *)
(* the optimistic lock of the governed requests.                           *)
(*                                                                         *)
(* One action per handler.  Each runs one transaction that locks the rows  *)
(* it decides on, except issue_password_reset, which retires the links of  *)
(* its UPDATE's snapshot and then inserts: it takes two steps.  What the   *)
(* handlers do to sessions afterwards is in SessionControl.                *)
(***************************************************************************)
EXTENDS Naturals, Sequences, FiniteSets

CONSTANTS
  Users,         \* accounts
  L2,            \* staff with an active SUPPORT_AGENT_L2 binding
  L3,            \* staff with an active SECURITY_SUPERVISOR_L3 binding
  Contacts,      \* email addresses (phone numbers behave alike)
  Passwords,     \* passwords that pass the policy and the breach check
  Links,         \* reset links, as token hashes
  Changes,       \* identifiers of contact-change requests
  Resets,        \* identifiers of governed requests
  Txs,           \* issue_password_reset transactions open at once
  None,          \* SQL NULL
  HistoryLimit,  \* PASSWORD_HISTORY_LIMIT
  LinkTTL,       \* RESET_TTL
  ChangeTTL,     \* CONTACT_CHANGE_TTL
  Delay,         \* GOVERNED_DELAY
  MaxTime,       \* bound: last value of the clock
  MaxVersion     \* bound: version of a user row

ASSUME RecoveryAssumption ==
  /\ HistoryLimit \in Nat \ {0}
  /\ LinkTTL \in Nat \ {0}
  /\ ChangeTTL \in Nat \ {0}
  /\ Delay \in Nat
  /\ MaxTime \in Nat
  /\ MaxVersion \in Nat
  /\ None \notin L2 \cup L3

VARIABLES
  clock,
  user,      \* users: state, version and email
  history,   \* password_history of each user, newest first; its head is current
  everUsed,  \* every password the user ever had, newest first (an observer)
  link,      \* ephemeral_tokens for password_reset and support_recovery
  issuing,   \* open issue_password_reset transactions
  change,    \* contact_change_requests
  reset,     \* governed_requests
  mfa,       \* users with an unrevoked MFA device
  refused    \* the governed request last answered TARGET_CHANGED

passwordVars == <<history, everUsed, link, issuing>>
governedVars == <<reset, mfa, refused>>
vars == <<clock, user, passwordVars, change, governedVars>>

UserRow == [state : {"active", "locked", "suspended"}, version : Nat, contact : Contacts]

LinkRow == [state : {"absent", "live", "consumed"}, user : Users \cup {None}, expires_at : Nat]

ChangeRow ==
  [state : {"absent", "pending", "cancelled", "applied"}, user : Users \cup {None},
   old_value : Contacts \cup {None}, new_value : Contacts \cup {None},
   old_verified : BOOLEAN, new_verified : BOOLEAN, expires_at : Nat]

ResetRow ==
  [state : {"absent", "pending", "approved", "executed", "cancelled"},
   user : Users \cup {None}, initiator : L2 \cup {None}, approver : L3 \cup {None},
   version : Nat, execute_after : Nat, executed_at : Nat]

IssueTx == [user : Users \cup {None}, rows : SUBSET Links]

NoLink == [state |-> "absent", user |-> None, expires_at |-> 0]
NoChange ==
  [state |-> "absent", user |-> None, old_value |-> None, new_value |-> None,
   old_verified |-> FALSE, new_verified |-> FALSE, expires_at |-> 0]
NoReset ==
  [state |-> "absent", user |-> None, initiator |-> None, approver |-> None,
   version |-> 0, execute_after |-> 0, executed_at |-> 0]
NoIssue == [user |-> None, rows |-> {}]

RecoveryTypeOK ==
  /\ clock \in Nat
  /\ user \in [Users -> UserRow]
  /\ history \in [Users -> Seq(Passwords)]
  /\ everUsed \in [Users -> Seq(Passwords)]
  /\ link \in [Links -> LinkRow]
  /\ issuing \in [Txs -> IssueTx]
  /\ change \in [Changes -> ChangeRow]
  /\ reset \in [Resets -> ResetRow]
  /\ mfa \in SUBSET Users
  /\ refused \in Resets \cup {None}

\* The handlers that touch an account give its row a new version.
Bumped(row) == [row EXCEPT !.version = @ + 1]
Become(row, s) == [Bumped(row) EXCEPT !.state = s]

Readdressed(row, c) == [Bumped(row) EXCEPT !.contact = c]

\* Mutant: a suspension leaves the version alone.
SuspendedSilently(row) == [row EXCEPT !.state = "suspended"]

Suspended(row) == Become(row, "suspended")

CanBump(u) == user[u].version < MaxVersion

-----------------------------------------------------------------------------
(***************************************************************************)
(* Password reset.                                                         *)
(***************************************************************************)
LiveLinks(u) == {l \in Links : link[l].state = "live" /\ link[l].user = u}

\* request_password_reset (eligible_user_by_email) and support_recovery (unlock_user,
\* which has committed by then): only active and locked accounts get a link.
RequestPasswordReset(t, u) ==
  /\ issuing[t] = NoIssue
  /\ user[u].state \in {"active", "locked"}
  /\ issuing' = [issuing EXCEPT ![t] = [user |-> u, rows |-> LiveLinks(u)]]
  /\ UNCHANGED <<clock, user, history, everUsed, link, change, governedVars>>

SupportRecovery(t, u) ==
  /\ issuing[t] = NoIssue
  /\ user[u].state \in {"active", "locked"}
  /\ CanBump(u)
  /\ user' = [user EXCEPT ![u] = Become(user[u], "active")]
  /\ issuing' = [issuing EXCEPT ![t] = [user |-> u, rows |-> LiveLinks(u)]]
  /\ UNCHANGED <<clock, history, everUsed, link, change, governedVars>>

\* Mutant: the new link is added beside the old ones.
IssueBesides(t, l) ==
  /\ issuing[t] # NoIssue
  /\ link[l].state = "absent"
  /\ link' = [link EXCEPT ![l] = [state |-> "live", user |-> issuing[t].user,
                                  expires_at |-> clock + LinkTTL]]
  /\ issuing' = [issuing EXCEPT ![t] = NoIssue]
  /\ UNCHANGED <<clock, user, history, everUsed, change, governedVars>>

\* The UPDATE of issue_password_reset retires the links it saw, then the new one is
\* inserted.
IssuePasswordReset(t, l) ==
  /\ issuing[t] # NoIssue
  /\ link[l].state = "absent"
  /\ link' = [k \in Links |->
       CASE k = l -> [state |-> "live", user |-> issuing[t].user,
                      expires_at |-> clock + LinkTTL]
         [] k \in issuing[t].rows /\ k # l -> [link[k] EXCEPT !.state = "consumed"]
         [] OTHER -> link[k]]
  /\ issuing' = [issuing EXCEPT ![t] = NoIssue]
  /\ UNCHANGED <<clock, user, history, everUsed, change, governedVars>>

Newest(s, n) == SubSeq(s, 1, IF Len(s) < n THEN Len(s) ELSE n)

\* Mutant: one row too few is kept.
KeepTooFew(s) == Newest(s, HistoryLimit - 2)

\* The rows after the DELETE: it spares HistoryLimit - 1, the new one included.
Kept(s) == Newest(s, HistoryLimit - 1)

\* consume_password_reset.  A reused password leaves the link usable.
ConsumePasswordReset(l, pw) ==
  LET u == link[l].user IN
  /\ link[l].state = "live"
  /\ link[l].expires_at > clock
  /\ user[u].state \in {"active", "locked"}
  /\ CanBump(u)
  /\ \A i \in DOMAIN Newest(history[u], HistoryLimit) : history[u][i] # pw
  /\ link' = [link EXCEPT ![l].state = "consumed"]
  /\ history' = [history EXCEPT ![u] = Kept(<< pw >> \o @)]
  /\ everUsed' = [everUsed EXCEPT ![u] = << pw >> \o @]
  /\ user' = [user EXCEPT ![u] = Become(user[u], "active")]
  /\ UNCHANGED <<clock, issuing, change, governedVars>>

-----------------------------------------------------------------------------
(***************************************************************************)
(* Contact change.                                                         *)
(***************************************************************************)
TakenByOther(u, c) == \E v \in Users \ {u} : user[v].contact = c

\* Mutant: pending requests are left pending.
KeepPending(row, u) == row

\* A new request cancels the pending ones of the same user.
Cancelled(row, u) ==
  IF row.state = "pending" /\ row.user = u THEN [row EXCEPT !.state = "cancelled"] ELSE row

CreateContactChange(c, u, new) ==
  /\ change[c].state = "absent"
  /\ user[u].state = "active"
  /\ new # user[u].contact
  /\ ~TakenByOther(u, new)
  /\ change' = [k \in Changes |->
       IF k = c THEN [state |-> "pending", user |-> u, old_value |-> user[u].contact,
                      new_value |-> new, old_verified |-> FALSE, new_verified |-> FALSE,
                      expires_at |-> clock + ChangeTTL]
       ELSE Cancelled(change[k], u)]
  /\ UNCHANGED <<clock, user, passwordVars, governedVars>>

Proven(row, proof) ==
  IF proof = "old" THEN [row EXCEPT !.old_verified = TRUE]
                   ELSE [row EXCEPT !.new_verified = TRUE]

BothProven(row) == row.old_verified /\ row.new_verified

CanVerify(c) == change[c].state = "pending" /\ change[c].expires_at > clock

\* A correct code that does not complete the request, or completes it while the account
\* is not active: the proof is kept and nothing is applied.
VerifyContactChange(c, proof) ==
  LET row == Proven(change[c], proof) IN
  /\ CanVerify(c)
  /\ BothProven(row) => user[change[c].user].state # "active"
  /\ change' = [change EXCEPT ![c] = row]
  /\ UNCHANGED <<clock, user, passwordVars, governedVars>>

\* The second proof applies the change; when the address was taken meanwhile the unique
\* index rolls everything back.
ApplyContactChange(c, proof) ==
  LET row == Proven(change[c], proof)
      u == change[c].user
  IN
  /\ CanVerify(c)
  /\ BothProven(row)
  /\ user[u].state = "active"
  /\ ~TakenByOther(u, change[c].new_value)
  /\ CanBump(u)
  /\ user' = [user EXCEPT ![u] = Readdressed(user[u], change[c].new_value)]
  /\ change' = [change EXCEPT ![c] = [row EXCEPT !.state = "applied"]]
  /\ UNCHANGED <<clock, passwordVars, governedVars>>

-----------------------------------------------------------------------------
(***************************************************************************)
(* Account state.                                                          *)
(***************************************************************************)
UnlockUser(u) ==
  /\ user[u].state \in {"active", "locked"}
  /\ CanBump(u)
  /\ user' = [user EXCEPT ![u] = Become(user[u], "active")]
  /\ UNCHANGED <<clock, passwordVars, change, governedVars>>

SuspendUser(u) ==
  /\ CanBump(u)
  /\ user' = [user EXCEPT ![u] = Suspended(user[u])]
  /\ UNCHANGED <<clock, passwordVars, change, governedVars>>

\* change_state of the user repository, with the version it was called with still current.
LockUser(u) ==
  /\ user[u].state = "active"
  /\ CanBump(u)
  /\ user' = [user EXCEPT ![u] = Become(user[u], "locked")]
  /\ UNCHANGED <<clock, passwordVars, change, governedVars>>

\* activate_totp and create_passkey of the MFA repository: no new version.
EnrollFactor(u) ==
  /\ user[u].state = "active"
  /\ mfa' = mfa \cup {u}
  /\ UNCHANGED <<clock, user, passwordVars, change, reset, refused>>

-----------------------------------------------------------------------------
(***************************************************************************)
(* Governed MFA reset.                                                     *)
(***************************************************************************)
InitiateMfaReset(g, s, u) ==
  /\ reset[g].state = "absent"
  /\ user[u].state \in {"active", "locked"}
  /\ reset' = [reset EXCEPT ![g] = [state |-> "pending", user |-> u, initiator |-> s,
                                    approver |-> None, version |-> user[u].version,
                                    execute_after |-> clock + Delay, executed_at |-> 0]]
  /\ refused' = None
  /\ UNCHANGED <<clock, user, passwordVars, change, mfa>>

TargetChanged(g) == user[reset[g].user].version # reset[g].version

\* Mutant: the check for a different supervisor is dropped.
ApproveOwn(g, s) ==
  /\ reset[g].state = "pending"
  /\ ~TargetChanged(g)
  /\ reset' = [reset EXCEPT ![g] = [@ EXCEPT !.state = "approved", !.approver = s]]
  /\ refused' = None
  /\ UNCHANGED <<clock, user, passwordVars, change, mfa>>

ApproveMfaReset(g, s) ==
  /\ reset[g].state = "pending"
  /\ reset[g].initiator # s
  /\ ~TargetChanged(g)
  /\ reset' = [reset EXCEPT ![g] = [@ EXCEPT !.state = "approved", !.approver = s]]
  /\ refused' = None
  /\ UNCHANGED <<clock, user, passwordVars, change, mfa>>

\* Both handlers set the state to "cancelled" and then raise inside the transaction:
\* the rollback takes the cancellation with it.
RefuseChangedTarget(g) ==
  /\ \/ reset[g].state = "pending"
     \/ reset[g].state = "approved" /\ reset[g].execute_after <= clock
  /\ TargetChanged(g)
  /\ refused' = g
  /\ UNCHANGED <<clock, user, passwordVars, change, reset, mfa>>

\* Mutant: the account is not marked as changed.
ExecuteSilently(g) ==
  /\ reset[g].state = "approved"
  /\ reset[g].execute_after <= clock
  /\ ~TargetChanged(g)
  /\ mfa' = mfa \ {reset[g].user}
  /\ reset' = [reset EXCEPT ![g] = [@ EXCEPT !.state = "executed", !.executed_at = clock]]
  /\ refused' = None
  /\ UNCHANGED <<clock, user, passwordVars, change>>

\* Mutant: the version is not compared again.
ExecuteStale(g) ==
  LET u == reset[g].user IN
  /\ reset[g].state = "approved"
  /\ reset[g].execute_after <= clock
  /\ CanBump(u)
  /\ mfa' = mfa \ {u}
  /\ user' = [user EXCEPT ![u] = Bumped(user[u])]
  /\ reset' = [reset EXCEPT ![g] = [@ EXCEPT !.state = "executed", !.executed_at = clock]]
  /\ refused' = None
  /\ UNCHANGED <<clock, passwordVars, change>>

ExecuteMfaReset(g) ==
  LET u == reset[g].user IN
  /\ reset[g].state = "approved"
  /\ reset[g].execute_after <= clock
  /\ ~TargetChanged(g)
  /\ CanBump(u)
  /\ mfa' = mfa \ {u}
  /\ user' = [user EXCEPT ![u] = Bumped(user[u])]
  /\ reset' = [reset EXCEPT ![g] = [@ EXCEPT !.state = "executed", !.executed_at = clock]]
  /\ refused' = None
  /\ UNCHANGED <<clock, passwordVars, change>>

Tick ==
  /\ clock < MaxTime
  /\ clock' = clock + 1
  /\ UNCHANGED <<user, passwordVars, change, governedVars>>

-----------------------------------------------------------------------------
Init ==
  /\ clock = 0
  /\ \E at \in [Users -> Contacts], pw \in [Users -> Passwords] :
       /\ \A u, v \in Users : u # v => at[u] # at[v]
       /\ user = [u \in Users |-> [state |-> "active", version |-> 1, contact |-> at[u]]]
       /\ history = [u \in Users |-> << pw[u] >>]
       /\ everUsed = [u \in Users |-> << pw[u] >>]
  /\ link = [l \in Links |-> NoLink]
  /\ issuing = [t \in Txs |-> NoIssue]
  /\ change = [c \in Changes |-> NoChange]
  /\ reset = [g \in Resets |-> NoReset]
  /\ mfa = {}
  /\ refused = None

PasswordStep ==
  \/ \E t \in Txs, u \in Users : RequestPasswordReset(t, u)
  \/ \E t \in Txs, u \in Users : SupportRecovery(t, u)
  \/ \E t \in Txs, l \in Links : IssuePasswordReset(t, l)
  \/ \E l \in Links, pw \in Passwords : ConsumePasswordReset(l, pw)

ContactStep ==
  \/ \E c \in Changes, u \in Users, new \in Contacts : CreateContactChange(c, u, new)
  \/ \E c \in Changes, proof \in {"old", "new"} :
       VerifyContactChange(c, proof) \/ ApplyContactChange(c, proof)

AccountStep == \E u \in Users : UnlockUser(u) \/ SuspendUser(u) \/ LockUser(u) \/ EnrollFactor(u)

GovernedStep ==
  \E g \in Resets :
    \/ \E s \in L2, u \in Users : InitiateMfaReset(g, s, u)
    \/ \E s \in L3 : ApproveMfaReset(g, s)
    \/ RefuseChangedTarget(g)
    \/ ExecuteMfaReset(g)

Next == PasswordStep \/ ContactStep \/ AccountStep \/ GovernedStep \/ Tick

Spec == Init /\ [][Next]_vars

-----------------------------------------------------------------------------
(***************************************************************************)
(* Properties.                                                             *)
(***************************************************************************)

\* A user has at most k links that can be presented.
LinksWithin(k) == \A u \in Users : Cardinality(LiveLinks(u)) <= k

\* A user has no more links that can be presented than there are transactions that may issue
\* links at the same time, so that links do not pile up over rounds of overlapping requests.
\* With issues one at a time it is one, and a password reset leaves none; two that overlap
\* do leave two, for neither UPDATE retires the link of the other.
LiveLinksBounded == LinksWithin(Cardinality(Txs))

\* A new password differs from each of the HistoryLimit - 1 before it, whatever links
\* and staff the resets came from.  (Not from HistoryLimit: the pruning keeps one row less.)
KeptPasswordsDiffer ==
  \A u \in Users : \A i, j \in DOMAIN everUsed[u] :
    i < j /\ j - i <= HistoryLimit - 1 => everUsed[u][i] # everUsed[u][j]

\* The old channel that a pending request asks a proof from is still the contact of the
\* account: the request is the only pending one of its user, and no change got past it.
PendingIsCurrent ==
  \A c \in Changes : change[c].state = "pending" =>
    /\ change[c].old_value = user[change[c].user].contact
    /\ \A d \in Changes \ {c} : change[d].state = "pending" => change[d].user # change[c].user

\* An approved or executed reset has two different people behind it, and an executed one
\* waited for the delay.
FourEyes ==
  \A g \in Resets :
    /\ reset[g].state \in {"approved", "executed"} =>
         reset[g].approver \notin {None, reset[g].initiator}
    /\ reset[g].state = "executed" => reset[g].executed_at >= reset[g].execute_after

\* Of the requests that saw the same state of an account at most one is ever executed.
OneResetPerVersion ==
  \A g, h \in Resets :
    /\ reset[g].state = "executed" /\ reset[h].state = "executed"
    /\ reset[g].user = reset[h].user /\ reset[g].version = reset[h].version
    => g = h

\* execute_mfa_reset does not look at the account's state; the version makes sure that a
\* suspended account keeps its factors all the same.
SuspendedKeepsFactors ==
  [][\A u \in Users : user[u].state = "suspended" => (u \in mfa => u \in mfa')]_vars

\* A request whose target changed stays as it is for good: the rollback leaves it pending or
\* approved, but no approval, execution or return of the account to an earlier state ever
\* makes it count again.
StaleNeverRuns ==
  [][\A g \in Resets : reset[g].state \in {"pending", "approved"} /\ TargetChanged(g)
       => reset'[g] = reset[g] /\ TargetChanged(g)']_vars
=============================================================================
