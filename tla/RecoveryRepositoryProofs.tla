----------------------- MODULE RecoveryRepositoryProofs -----------------------
(***************************************************************************)
(* What the user row's version buys the governed MFA reset, and what the   *)
(* cancellation of pending requests buys the contact change, for any       *)
(* number of accounts, staff, requests and links.                          *)
(***************************************************************************)
EXTENDS RecoveryRepository, FiniteSetTheorems, TLAPS

\* Every row that was inserted belongs to an account.
Owned ==
  /\ \A l \in Links : link[l].state # "absent" => link[l].user \in Users
  /\ \A t \in Txs : /\ issuing[t] # NoIssue => issuing[t].user \in Users
                    /\ \A l \in issuing[t].rows : link[l].state # "absent"
  /\ \A c \in Changes : change[c].state # "absent" => /\ change[c].user \in Users
                                                        /\ change[c].new_value \in Contacts
  /\ \A g \in Resets : reset[g].state # "absent" => reset[g].user \in Users

\* A request never carries a version its account has not had, and one that carries the
\* current version saw the account as it is: not suspended, and not yet reset.
VersionsTell ==
  \A g \in Resets : reset[g].state # "absent" =>
    LET u == reset[g].user IN
    /\ reset[g].version <= user[u].version
    /\ reset[g].version = user[u].version =>
         user[u].state # "suspended" /\ reset[g].state # "executed"

RecoveryInv == RecoveryTypeOK /\ Owned

GovernedInv == VersionsTell /\ OneResetPerVersion /\ FourEyes

-----------------------------------------------------------------------------
\* An account row written by a handler is an account row of the next version.
LEMMA NextRow ==
  ASSUME NEW row \in UserRow
  PROVE  /\ /\ Bumped(row) \in UserRow
            /\ Bumped(row).version = row.version + 1
            /\ Bumped(row).contact = row.contact
         /\ \A s \in {"active", "locked", "suspended"} :
              /\ Become(row, s) \in UserRow
              /\ Become(row, s).version = row.version + 1
              /\ Become(row, s).contact = row.contact
         /\ \A c \in Contacts :
              /\ Readdressed(row, c) \in UserRow
              /\ Readdressed(row, c).version = row.version + 1
              /\ Readdressed(row, c).contact = c
<1>1. /\ Bumped(row) \in UserRow
      /\ Bumped(row).version = row.version + 1
      /\ Bumped(row).contact = row.contact
  BY DEF UserRow, Bumped
<1>2. ASSUME NEW s \in {"active", "locked", "suspended"}
      PROVE  /\ Become(row, s) \in UserRow
             /\ Become(row, s).version = row.version + 1
             /\ Become(row, s).contact = row.contact
  BY <1>1 DEF UserRow, Become
<1>3. ASSUME NEW c \in Contacts
      PROVE  /\ Readdressed(row, c) \in UserRow
             /\ Readdressed(row, c).version = row.version + 1
             /\ Readdressed(row, c).contact = c
  BY <1>1 DEF UserRow, Readdressed
<1>4. QED
  BY <1>1, <1>2, <1>3

\* The history that is kept is a history.
LEMMA KeptType ==
  ASSUME NEW s \in Seq(Passwords), NEW pw \in Passwords
  PROVE  Kept(<< pw >> \o s) \in Seq(Passwords) /\ << pw >> \o s \in Seq(Passwords)
<1> DEFINE q == << pw >> \o s
           n == IF Len(q) < HistoryLimit - 1 THEN Len(q) ELSE HistoryLimit - 1
<1>1. q \in Seq(Passwords)
  OBVIOUS
<1> HIDE DEF q
<1>2. n \in 0..Len(q)
  BY <1>1, RecoveryAssumption
<1> HIDE DEF n
<1>3. SubSeq(q, 1, n) \in Seq(Passwords)
  BY <1>1, <1>2
<1>4. QED
  BY <1>1, <1>3 DEF Kept, Newest, q, n
-----------------------------------------------------------------------------
\* Empty tables are well typed and hold no foreign row.
LEMMA RecoveryInvInit == Init => RecoveryInv
<1> SUFFICES ASSUME Init PROVE RecoveryInv
  OBVIOUS
<1>1. PICK at \in [Users -> Contacts], pw \in [Users -> Passwords] :
        /\ user = [u \in Users |-> [state |-> "active", version |-> 1, contact |-> at[u]]]
        /\ history = [u \in Users |-> << pw[u] >>]
        /\ everUsed = [u \in Users |-> << pw[u] >>]
  BY DEF Init
<1>2. user \in [Users -> UserRow]
  BY <1>1 DEF UserRow
<1>3. history \in [Users -> Seq(Passwords)] /\ everUsed \in [Users -> Seq(Passwords)]
  BY <1>1
<1>4. NoLink \in LinkRow /\ NoIssue \in IssueTx /\ NoChange \in ChangeRow /\ NoReset \in ResetRow
  BY DEF NoLink, LinkRow, NoIssue, IssueTx, NoChange, ChangeRow, NoReset, ResetRow
<1>5. RecoveryTypeOK
  BY <1>2, <1>3, <1>4 DEF Init, RecoveryTypeOK
<1>6. Owned
  BY DEF Init, Owned, NoLink, NoIssue, NoChange, NoReset
<1>7. QED
  BY <1>5, <1>6 DEF RecoveryInv

\* The handlers of password recovery keep types and owners.
LEMMA PasswordStepKeeps == RecoveryInv /\ PasswordStep => RecoveryInv'
<1> SUFFICES ASSUME RecoveryInv, PasswordStep PROVE RecoveryInv'
  OBVIOUS
<1> USE DEF RecoveryInv
<1>1. ASSUME NEW t \in Txs, NEW u \in Users, RequestPasswordReset(t, u)
      PROVE  RecoveryInv'
  <2>1. [user |-> u, rows |-> LiveLinks(u)] \in IssueTx
    BY DEF IssueTx, LiveLinks
  <2>2. RecoveryTypeOK'
    BY <1>1, <2>1 DEF RequestPasswordReset, RecoveryTypeOK, governedVars
  <2>3. Owned'
    BY <1>1 DEF RequestPasswordReset, RecoveryTypeOK, Owned, governedVars, LiveLinks
  <2>4. QED
    BY <2>2, <2>3
<1>2. ASSUME NEW t \in Txs, NEW u \in Users, SupportRecovery(t, u)
      PROVE  RecoveryInv'
  <2>1. [user |-> u, rows |-> LiveLinks(u)] \in IssueTx
    BY DEF IssueTx, LiveLinks
  <2>2. Become(user[u], "active") \in UserRow
    BY NextRow DEF RecoveryTypeOK
  <2>3. RecoveryTypeOK'
    BY <1>2, <2>1, <2>2 DEF SupportRecovery, RecoveryTypeOK, governedVars
  <2>4. Owned'
    BY <1>2 DEF SupportRecovery, RecoveryTypeOK, Owned, governedVars, LiveLinks
  <2>5. QED
    BY <2>3, <2>4
<1>3. ASSUME NEW t \in Txs, NEW l \in Links, IssuePasswordReset(t, l)
      PROVE  RecoveryInv'
  <2>1. issuing[t].user \in Users
    BY <1>3 DEF IssuePasswordReset, Owned
  <2>2. [state |-> "live", user |-> issuing[t].user, expires_at |-> clock + LinkTTL] \in LinkRow
    BY <2>1, RecoveryAssumption DEF LinkRow, RecoveryTypeOK
  <2>3. \A row \in LinkRow : /\ [row EXCEPT !.state = "consumed"] \in LinkRow
                             /\ [row EXCEPT !.state = "consumed"].user = row.user
    BY DEF LinkRow
  <2>4. NoIssue \in IssueTx
    BY DEF NoIssue, IssueTx
  <2>5. \A k \in Links : /\ link'[k] \in LinkRow
                         /\ k = l => link'[k].user \in Users
                         /\ k # l => /\ link'[k].user = link[k].user
                                     /\ link'[k] = link[k] \/ k \in issuing[t].rows
    BY <1>3, <2>1, <2>2, <2>3 DEF IssuePasswordReset, RecoveryTypeOK
  <2>6. RecoveryTypeOK'
    <3>1. link' = [k \in Links |-> link'[k]]
      BY <1>3 DEF IssuePasswordReset
    <3>2. QED
      BY <1>3, <2>4, <2>5, <3>1 DEF IssuePasswordReset, RecoveryTypeOK, governedVars
  <2>7. Owned'
    <3>1. \A k \in Links : link'[k].state # "absent" => link'[k].user \in Users
      BY <2>5 DEF Owned, RecoveryTypeOK, IssueTx
    <3>2. \A k \in Links : link[k].state # "absent" => link'[k].state # "absent"
      BY <1>3 DEF IssuePasswordReset, RecoveryTypeOK, LinkRow
    <3>3. NoIssue.rows = {}
      BY DEF NoIssue
    <3>4. \A s \in Txs : /\ issuing'[s] # NoIssue => issuing'[s].user \in Users
                         /\ \A k \in issuing'[s].rows : link'[k].state # "absent"
      BY <1>3, <3>2, <3>3 DEF IssuePasswordReset, RecoveryTypeOK, IssueTx, Owned
    <3>5. QED
      BY <1>3, <3>1, <3>4 DEF IssuePasswordReset, Owned, governedVars
  <2>8. QED
    BY <2>6, <2>7
<1>4. ASSUME NEW l \in Links, NEW pw \in Passwords, ConsumePasswordReset(l, pw)
      PROVE  RecoveryInv'
  <2> DEFINE u == link[l].user
  <2>1. u \in Users
    BY <1>4 DEF ConsumePasswordReset, Owned
  <2>2. Become(user[u], "active") \in UserRow
    BY <2>1, NextRow DEF RecoveryTypeOK
  <2>3. /\ Kept(<< pw >> \o history[u]) \in Seq(Passwords)
        /\ << pw >> \o everUsed[u] \in Seq(Passwords)
    BY <2>1, KeptType DEF RecoveryTypeOK
  <2>4. /\ user' = [user EXCEPT ![u] = Become(user[u], "active")]
        /\ history' = [history EXCEPT ![u] = Kept(<< pw >> \o history[u])]
        /\ everUsed' = [everUsed EXCEPT ![u] = << pw >> \o everUsed[u]]
        /\ link' = [link EXCEPT ![l] = [link[l] EXCEPT !.state = "consumed"]]
        /\ UNCHANGED <<clock, issuing, change, reset, mfa, refused>>
    BY <1>4, <2>1 DEF ConsumePasswordReset, governedVars, RecoveryTypeOK
  <2>5. [link[l] EXCEPT !.state = "consumed"] \in LinkRow
    BY DEF RecoveryTypeOK, LinkRow
  <2> HIDE DEF u
  <2>6. RecoveryTypeOK'
    BY <2>1, <2>2, <2>3, <2>4, <2>5 DEF RecoveryTypeOK
  <2>7. \A k \in Links : link'[k].user = link[k].user
    BY <2>4 DEF RecoveryTypeOK, LinkRow
  <2>8. \A k \in Links : link'[k].state # "absent" => link[k].user \in Users
    BY <2>1, <2>4 DEF RecoveryTypeOK, Owned, u
  <2>9. \A k \in Links : link[k].state # "absent" => link'[k].state # "absent"
    BY <2>4 DEF RecoveryTypeOK, LinkRow
  <2>10. Owned'
    BY <2>4, <2>7, <2>8, <2>9 DEF Owned, RecoveryTypeOK, IssueTx
  <2>11. QED
    BY <2>6, <2>10
<1>5. QED
  BY <1>1, <1>2, <1>3, <1>4 DEF PasswordStep

-----------------------------------------------------------------------------
\* Two rows that ask for the same change.
SameRequest(r, row) ==
  /\ r.user = row.user
  /\ r.old_value = row.old_value
  /\ r.new_value = row.new_value

\* A cancellation changes neither the owner nor the values of a request.
LEMMA CancelledRow ==
  ASSUME NEW row \in ChangeRow, NEW u \in Users
  PROVE  /\ Cancelled(row, u) \in ChangeRow
         /\ SameRequest(Cancelled(row, u), row)
         /\ Cancelled(row, u).state = "absent" <=> row.state = "absent"
         /\ Cancelled(row, u).state = "pending" <=> row.state = "pending" /\ row.user # u
  BY DEF Cancelled, ChangeRow, SameRequest

\* Nor does a proof.
LEMMA ProvenRow ==
  ASSUME NEW row \in ChangeRow, NEW proof \in {"old", "new"}
  PROVE  /\ Proven(row, proof) \in ChangeRow
         /\ SameRequest(Proven(row, proof), row)
         /\ Proven(row, proof).state = row.state
  BY DEF Proven, ChangeRow, SameRequest

\* Nor does the application.
LEMMA AppliedRow ==
  ASSUME NEW row \in ChangeRow
  PROVE  /\ [row EXCEPT !.state = "applied"] \in ChangeRow
         /\ SameRequest([row EXCEPT !.state = "applied"], row)
         /\ [row EXCEPT !.state = "applied"].state = "applied"
  BY DEF ChangeRow, SameRequest

\* The handlers of the contact change keep types, owners and PendingIsCurrent.
LEMMA ContactStepKeeps ==
  RecoveryInv /\ PendingIsCurrent /\ ContactStep => RecoveryInv' /\ PendingIsCurrent'
<1> SUFFICES ASSUME RecoveryInv, PendingIsCurrent, ContactStep
             PROVE  RecoveryInv' /\ PendingIsCurrent'
  OBVIOUS
<1>1. /\ user \in [Users -> UserRow]
      /\ change \in [Changes -> ChangeRow]
      /\ clock \in Nat
  BY DEF RecoveryInv, RecoveryTypeOK
<1>2. ASSUME NEW c \in Changes, NEW u \in Users, NEW new \in Contacts,
             CreateContactChange(c, u, new)
      PROVE  RecoveryInv' /\ PendingIsCurrent'
  <2> DEFINE r == [state |-> "pending", user |-> u, old_value |-> user[u].contact,
                   new_value |-> new, old_verified |-> FALSE, new_verified |-> FALSE,
                   expires_at |-> clock + ChangeTTL]
  <2>1. r \in ChangeRow
    BY <1>1, RecoveryAssumption DEF UserRow, ChangeRow
  <2>2. /\ r.state = "pending"
        /\ r.user = u
        /\ r.old_value = user[u].contact
        /\ r.new_value = new
    OBVIOUS
  <2>3. /\ change' = [k \in Changes |-> IF k = c THEN r ELSE Cancelled(change[k], u)]
        /\ UNCHANGED <<clock, user, history, everUsed, link, issuing, reset, mfa, refused>>
    BY <1>2 DEF CreateContactChange, passwordVars, governedVars
  <2> HIDE DEF r
  <2>4. ASSUME NEW k \in Changes
        PROVE  /\ change'[k] \in ChangeRow
               /\ k # c => /\ SameRequest(change'[k], change[k])
                           /\ change'[k].state = "absent" <=> change[k].state = "absent"
                           /\ change'[k].state = "pending" <=>
                                change[k].state = "pending" /\ change[k].user # u
    <3>1. change[k] \in ChangeRow
      BY <1>1
    <3>2. change'[k] = IF k = c THEN r ELSE Cancelled(change[k], u)
      BY <2>3
    <3>3. CASE k = c
      BY <2>1, <3>2, <3>3
    <3>4. CASE k # c
      <4>1. change'[k] = Cancelled(change[k], u)
        BY <3>2, <3>4
      <4>2. QED
        BY <3>1, <3>4, <4>1, CancelledRow
    <3>5. QED
      BY <3>3, <3>4
  <2>5. change'[c] = r
    BY <2>3
  <2>6. RecoveryTypeOK'
    BY <2>3, <2>4 DEF RecoveryInv, RecoveryTypeOK
  <2>7. Owned'
    BY <2>2, <2>3, <2>4, <2>5 DEF RecoveryInv, Owned, SameRequest
  <2>8. PendingIsCurrent'
    BY <2>2, <2>3, <2>4, <2>5 DEF PendingIsCurrent, SameRequest
  <2>9. QED
    BY <2>6, <2>7, <2>8 DEF RecoveryInv
<1>3. ASSUME NEW c \in Changes, NEW proof \in {"old", "new"}, VerifyContactChange(c, proof)
      PROVE  RecoveryInv' /\ PendingIsCurrent'
  <2>1. /\ change' = [change EXCEPT ![c] = Proven(change[c], proof)]
        /\ UNCHANGED <<clock, user, history, everUsed, link, issuing, reset, mfa, refused>>
    BY <1>3 DEF VerifyContactChange, passwordVars, governedVars
  <2>2. ASSUME NEW k \in Changes
        PROVE  /\ change'[k] \in ChangeRow
               /\ SameRequest(change'[k], change[k])
               /\ change'[k].state = change[k].state
    <3>1. change[k] \in ChangeRow /\ SameRequest(change[k], change[k])
      BY <1>1 DEF SameRequest
    <3>2. change'[k] = IF k = c THEN Proven(change[k], proof) ELSE change[k]
      BY <1>1, <2>1
    <3>3. CASE k = c
      BY <3>1, <3>2, <3>3, ProvenRow
    <3>4. QED
      BY <3>1, <3>2, <3>3
  <2>3. RecoveryTypeOK'
    BY <2>1, <2>2 DEF RecoveryInv, RecoveryTypeOK
  <2>4. Owned'
    BY <2>1, <2>2 DEF RecoveryInv, Owned, SameRequest
  <2>5. PendingIsCurrent'
    BY <2>1, <2>2 DEF PendingIsCurrent, SameRequest
  <2>6. QED
    BY <2>3, <2>4, <2>5 DEF RecoveryInv
<1>4. ASSUME NEW c \in Changes, NEW proof \in {"old", "new"}, ApplyContactChange(c, proof)
      PROVE  RecoveryInv' /\ PendingIsCurrent'
  <2> DEFINE u == change[c].user
             new == change[c].new_value
             r == [Proven(change[c], proof) EXCEPT !.state = "applied"]
  <2>1. /\ change' = [change EXCEPT ![c] = r]
        /\ user' = [user EXCEPT ![u] = Readdressed(user[u], new)]
        /\ change[c].state = "pending"
        /\ UNCHANGED <<clock, history, everUsed, link, issuing, reset, mfa, refused>>
    BY <1>4 DEF ApplyContactChange, CanVerify, passwordVars, governedVars
  <2>2. u \in Users /\ new \in Contacts
    BY <2>1 DEF RecoveryInv, Owned
  <2>3. /\ Readdressed(user[u], new) \in UserRow
        /\ Readdressed(user[u], new).contact = new
    BY <1>1, <2>2, NextRow
  <2>4. r \in ChangeRow /\ r.user = u /\ r.new_value = new /\ r.state = "applied"
    <3>1. Proven(change[c], proof) \in ChangeRow /\ SameRequest(Proven(change[c], proof), change[c])
      BY <1>1, ProvenRow
    <3>2. r \in ChangeRow /\ SameRequest(r, Proven(change[c], proof)) /\ r.state = "applied"
      BY <3>1, AppliedRow
    <3>3. QED
      BY <3>1, <3>2 DEF SameRequest
  <2> HIDE DEF r, u, new
  <2>5. RecoveryTypeOK'
    BY <2>1, <2>2, <2>3, <2>4 DEF RecoveryInv, RecoveryTypeOK
  <2>6. \A k \in Changes : /\ k # c => change'[k] = change[k]
                           /\ k = c => change'[k] = r
    BY <1>1, <2>1
  <2>7. Owned'
    BY <2>1, <2>2, <2>4, <2>6 DEF RecoveryInv, Owned
  <2>8. \A v \in Users : v # u => user'[v] = user[v]
    BY <1>1, <2>1
  <2>9. \A k \in Changes : change'[k].state = "pending" =>
          k # c /\ change[k].state = "pending" /\ change[k].user # u /\ change[k].user \in Users
    BY <2>1, <2>4, <2>6 DEF PendingIsCurrent, RecoveryInv, Owned, u
  <2>10. PendingIsCurrent'
    BY <2>6, <2>8, <2>9 DEF PendingIsCurrent
  <2>11. QED
    BY <2>5, <2>7, <2>10 DEF RecoveryInv
<1>5. QED
  BY <1>2, <1>3, <1>4 DEF ContactStep
-----------------------------------------------------------------------------
\* Row r is row, or a later version of it with the same contact.
Later(r, row) == r = row \/ (r.version = row.version + 1 /\ r.contact = row.contact)

\* Changing one account to a later version.
LEMMA OneAccountMoves ==
  ASSUME RecoveryInv, NEW u \in Users, NEW r \in UserRow, Later(r, user[u]),
         user' = [user EXCEPT ![u] = r]
  PROVE  /\ user' \in [Users -> UserRow]
         /\ \A v \in Users : Later(user'[v], user[v])
  BY DEF RecoveryInv, RecoveryTypeOK, Later

\* Unlock, suspension, lock and enrolment.
LEMMA AccountStepKeeps ==
  RecoveryInv /\ AccountStep =>
    /\ RecoveryInv'
    /\ \A u \in Users : Later(user'[u], user[u])
    /\ UNCHANGED <<change, reset>>
<1> SUFFICES ASSUME RecoveryInv, NEW u \in Users,
                    UnlockUser(u) \/ SuspendUser(u) \/ LockUser(u) \/ EnrollFactor(u)
             PROVE  /\ RecoveryInv'
                    /\ \A v \in Users : Later(user'[v], user[v])
                    /\ UNCHANGED <<change, reset>>
  BY DEF AccountStep
<1>1. user \in [Users -> UserRow]
  BY DEF RecoveryInv, RecoveryTypeOK
<1>2. CASE EnrollFactor(u)
  <2>1. RecoveryTypeOK'
    BY <1>2 DEF EnrollFactor, RecoveryInv, RecoveryTypeOK, passwordVars
  <2>2. Owned'
    BY <1>2 DEF EnrollFactor, RecoveryInv, Owned, passwordVars
  <2>3. QED
    BY <1>2, <2>1, <2>2 DEF EnrollFactor, RecoveryInv, Later
<1>3. ASSUME NEW s \in {"active", "locked", "suspended"},
             user' = [user EXCEPT ![u] = Become(user[u], s)],
             UNCHANGED <<clock, passwordVars, change, governedVars>>
      PROVE  /\ RecoveryInv'
             /\ \A v \in Users : Later(user'[v], user[v])
             /\ UNCHANGED <<change, reset>>
  <2>1. Become(user[u], s) \in UserRow /\ Later(Become(user[u], s), user[u])
    BY <1>1, NextRow DEF Later
  <2>2. user' \in [Users -> UserRow] /\ \A v \in Users : Later(user'[v], user[v])
    BY <1>3, <2>1, OneAccountMoves
  <2>3. RecoveryTypeOK'
    BY <1>3, <2>2 DEF RecoveryInv, RecoveryTypeOK, passwordVars, governedVars
  <2>4. Owned'
    BY <1>3 DEF RecoveryInv, Owned, passwordVars, governedVars
  <2>5. QED
    BY <1>3, <2>2, <2>3, <2>4 DEF RecoveryInv, governedVars
<1>4. CASE UnlockUser(u)
  BY <1>3, <1>4 DEF UnlockUser
<1>5. CASE SuspendUser(u)
  BY <1>3, <1>5 DEF SuspendUser, Suspended
<1>6. CASE LockUser(u)
  BY <1>3, <1>6 DEF LockUser
<1>7. QED
  BY <1>2, <1>4, <1>5, <1>6

\* The password handlers as they look to the rest of the account.
LEMMA PasswordStepMoves ==
  RecoveryInv /\ PasswordStep =>
    (\A u \in Users : Later(user'[u], user[u])) /\ UNCHANGED <<change, reset, mfa>>
<1> SUFFICES ASSUME RecoveryInv, PasswordStep
             PROVE  (\A u \in Users : Later(user'[u], user[u])) /\ UNCHANGED <<change, reset, mfa>>
  OBVIOUS
<1>1. user \in [Users -> UserRow]
  BY DEF RecoveryInv, RecoveryTypeOK
<1>2. ASSUME NEW u \in Users, user' = [user EXCEPT ![u] = Become(user[u], "active")]
      PROVE  \A v \in Users : Later(user'[v], user[v])
  <2>1. Become(user[u], "active") \in UserRow /\ Later(Become(user[u], "active"), user[u])
    BY <1>1, NextRow DEF Later
  <2>2. QED
    BY <1>2, <2>1, OneAccountMoves
<1>3. ASSUME user' = user PROVE \A v \in Users : Later(user'[v], user[v])
  BY <1>3 DEF Later
<1>4. ASSUME NEW l \in Links, NEW pw \in Passwords, ConsumePasswordReset(l, pw)
      PROVE  \E u \in Users : user' = [user EXCEPT ![u] = Become(user[u], "active")]
  <2>1. link[l].user \in Users
    BY <1>4 DEF ConsumePasswordReset, RecoveryInv, Owned
  <2>2. QED
    BY <1>4, <2>1 DEF ConsumePasswordReset
<1>5. \/ user' = user
      \/ \E u \in Users : user' = [user EXCEPT ![u] = Become(user[u], "active")]
  BY <1>4 DEF PasswordStep, RequestPasswordReset, SupportRecovery, IssuePasswordReset
<1>6. UNCHANGED <<change, reset, mfa>>
  BY DEF PasswordStep, RequestPasswordReset, SupportRecovery, IssuePasswordReset,
         ConsumePasswordReset, governedVars
<1>7. QED
  BY <1>2, <1>3, <1>5, <1>6

\* An account that moves on leaves the requests behind: what they carry stays true.
LEMMA LaterKeepsGoverned ==
  ASSUME RecoveryInv, GovernedInv, UNCHANGED reset,
         \A u \in Users : user'[u] = user[u] \/ user'[u].version = user[u].version + 1
  PROVE  GovernedInv'
<1>1. \A u \in Users : user[u].version \in Nat
  BY DEF RecoveryInv, RecoveryTypeOK, UserRow
<1>2. \A g \in Resets : reset[g].version \in Nat
  BY DEF RecoveryInv, RecoveryTypeOK, ResetRow
<1>3. VersionsTell'
  BY <1>1, <1>2 DEF GovernedInv, VersionsTell, RecoveryInv, Owned
<1>4. OneResetPerVersion' /\ FourEyes'
  BY DEF GovernedInv, OneResetPerVersion, FourEyes
<1>5. QED
  BY <1>3, <1>4 DEF GovernedInv

\* An account that keeps its contact keeps its pending request current.
LEMMA LaterKeepsPending ==
  ASSUME RecoveryInv, PendingIsCurrent, \A u \in Users : Later(user'[u], user[u]),
         UNCHANGED change
  PROVE  PendingIsCurrent'
  BY DEF PendingIsCurrent, Later, RecoveryInv, Owned

\* A contact change, too, gives the account a new version.
LEMMA ContactStepMoves ==
  RecoveryInv /\ ContactStep =>
    /\ \A u \in Users : user'[u] = user[u] \/ user'[u].version = user[u].version + 1
    /\ UNCHANGED <<reset, mfa>>
<1> SUFFICES ASSUME RecoveryInv, ContactStep
             PROVE  /\ \A u \in Users : \/ user'[u] = user[u]
                                        \/ user'[u].version = user[u].version + 1
                    /\ UNCHANGED <<reset, mfa>>
  OBVIOUS
<1>1. user \in [Users -> UserRow]
  BY DEF RecoveryInv, RecoveryTypeOK
<1>2. ASSUME NEW c \in Changes, NEW proof \in {"old", "new"}, ApplyContactChange(c, proof)
      PROVE  \A u \in Users : user'[u] = user[u] \/ user'[u].version = user[u].version + 1
  <2> DEFINE w == change[c].user
             new == change[c].new_value
  <2>1. w \in Users /\ new \in Contacts
    BY <1>2 DEF ApplyContactChange, CanVerify, RecoveryInv, Owned
  <2>2. Readdressed(user[w], new).version = user[w].version + 1
    BY <1>1, <2>1, NextRow
  <2>3. user' = [user EXCEPT ![w] = Readdressed(user[w], new)]
    BY <1>2 DEF ApplyContactChange
  <2> HIDE DEF w, new
  <2>4. QED
    BY <1>1, <2>2, <2>3
<1>3. UNCHANGED <<reset, mfa>>
  BY DEF ContactStep, CreateContactChange, VerifyContactChange, ApplyContactChange, governedVars
<1>4. QED
  BY <1>2, <1>3 DEF ContactStep, CreateContactChange, VerifyContactChange

\* The governed request itself: only the row it is about changes, and an execution
\* leaves its version behind.
LEMMA GovernedStepKeeps ==
  RecoveryInv /\ GovernedInv /\ GovernedStep =>
    /\ RecoveryInv'
    /\ GovernedInv'
    /\ \A u \in Users : Later(user'[u], user[u])
    /\ UNCHANGED change
<1> SUFFICES ASSUME RecoveryInv, GovernedInv, GovernedStep
             PROVE  /\ RecoveryInv'
                    /\ GovernedInv'
                    /\ \A u \in Users : Later(user'[u], user[u])
                    /\ UNCHANGED change
  OBVIOUS
<1>1. /\ user \in [Users -> UserRow]
      /\ reset \in [Resets -> ResetRow]
      /\ clock \in Nat
  BY DEF RecoveryInv, RecoveryTypeOK
<1>2. /\ \A u \in Users : user[u].version \in Nat
      /\ \A g \in Resets : reset[g].version \in Nat /\ reset[g].execute_after \in Nat
  BY <1>1 DEF UserRow, ResetRow
<1>3. ASSUME NEW g \in Resets, NEW s \in L2, NEW u \in Users, InitiateMfaReset(g, s, u)
      PROVE  /\ RecoveryInv'
             /\ GovernedInv'
             /\ \A v \in Users : Later(user'[v], user[v])
             /\ UNCHANGED change
  <2> DEFINE r == [state |-> "pending", user |-> u, initiator |-> s, approver |-> None,
                   version |-> user[u].version, execute_after |-> clock + Delay,
                   executed_at |-> 0]
  <2>1. r \in ResetRow
    BY <1>1, <1>2, RecoveryAssumption DEF ResetRow
  <2>2. r.state = "pending" /\ r.user = u /\ r.version = user[u].version
    OBVIOUS
  <2>3. /\ reset' = [reset EXCEPT ![g] = r]
        /\ user[u].state # "suspended"
        /\ refused' = None
        /\ UNCHANGED <<clock, user, history, everUsed, link, issuing, change, mfa>>
    BY <1>3 DEF InitiateMfaReset, passwordVars
  <2> HIDE DEF r
  <2>4. \A h \in Resets : reset'[h] = IF h = g THEN r ELSE reset[h]
    BY <1>1, <2>3
  <2>5. RecoveryTypeOK'
    BY <2>1, <2>3 DEF RecoveryInv, RecoveryTypeOK
  <2>6. Owned'
    BY <2>2, <2>3, <2>4 DEF RecoveryInv, Owned
  <2>7. VersionsTell'
    BY <1>2, <2>2, <2>3, <2>4 DEF GovernedInv, VersionsTell
  <2>8. OneResetPerVersion' /\ FourEyes'
    BY <2>2, <2>4 DEF GovernedInv, OneResetPerVersion, FourEyes
  <2>9. QED
    BY <2>3, <2>5, <2>6, <2>7, <2>8 DEF RecoveryInv, GovernedInv, Later
<1>4. ASSUME NEW g \in Resets, NEW s \in L3, ApproveMfaReset(g, s)
      PROVE  /\ RecoveryInv'
             /\ GovernedInv'
             /\ \A v \in Users : Later(user'[v], user[v])
             /\ UNCHANGED change
  <2> DEFINE r == [reset[g] EXCEPT !.state = "approved", !.approver = s]
  <2>1. /\ r \in ResetRow
        /\ r.state = "approved" /\ r.approver = s
        /\ r.user = reset[g].user /\ r.version = reset[g].version
        /\ r.initiator = reset[g].initiator
    BY <1>1 DEF ResetRow
  <2>2. /\ reset' = [reset EXCEPT ![g] = r]
        /\ reset[g].state = "pending"
        /\ reset[g].initiator # s
        /\ refused' = None
        /\ UNCHANGED <<clock, user, history, everUsed, link, issuing, change, mfa>>
    BY <1>4 DEF ApproveMfaReset, passwordVars
  <2> HIDE DEF r
  <2>3. \A h \in Resets : reset'[h] = IF h = g THEN r ELSE reset[h]
    BY <1>1, <2>2
  <2>4. RecoveryTypeOK'
    BY <2>1, <2>2 DEF RecoveryInv, RecoveryTypeOK
  <2>5. Owned'
    BY <2>1, <2>2, <2>3 DEF RecoveryInv, Owned
  <2>6. VersionsTell'
    BY <1>2, <2>1, <2>2, <2>3 DEF GovernedInv, VersionsTell
  <2>7. OneResetPerVersion'
    BY <2>1, <2>3 DEF GovernedInv, OneResetPerVersion
  <2>8. FourEyes'
    BY <2>1, <2>2, <2>3, RecoveryAssumption DEF GovernedInv, FourEyes
  <2>9. QED
    BY <2>2, <2>4, <2>5, <2>6, <2>7, <2>8 DEF RecoveryInv, GovernedInv, Later
<1>5. ASSUME NEW g \in Resets, RefuseChangedTarget(g)
      PROVE  /\ RecoveryInv'
             /\ GovernedInv'
             /\ \A v \in Users : Later(user'[v], user[v])
             /\ UNCHANGED change
  <2>1. /\ refused' = g
        /\ UNCHANGED <<clock, user, history, everUsed, link, issuing, change, reset, mfa>>
    BY <1>5 DEF RefuseChangedTarget, passwordVars
  <2>2. RecoveryTypeOK' /\ Owned'
    BY <2>1 DEF RecoveryInv, RecoveryTypeOK, Owned
  <2>3. GovernedInv'
    BY <2>1, LaterKeepsGoverned
  <2>4. QED
    BY <2>1, <2>2, <2>3 DEF RecoveryInv, Later
<1>6. ASSUME NEW g \in Resets, ExecuteMfaReset(g)
      PROVE  /\ RecoveryInv'
             /\ GovernedInv'
             /\ \A v \in Users : Later(user'[v], user[v])
             /\ UNCHANGED change
  <2> DEFINE u == reset[g].user
             r == [reset[g] EXCEPT !.state = "executed", !.executed_at = clock]
  <2>1. /\ r \in ResetRow
        /\ r.state = "executed" /\ r.executed_at = clock
        /\ r.user = u /\ r.version = reset[g].version
        /\ r.initiator = reset[g].initiator /\ r.approver = reset[g].approver
        /\ r.execute_after = reset[g].execute_after
    BY <1>1 DEF ResetRow
  <2>2. /\ reset' = [reset EXCEPT ![g] = r]
        /\ reset[g].state = "approved"
        /\ reset[g].execute_after <= clock
        /\ user[u].version = reset[g].version
        /\ user' = [user EXCEPT ![u] = Bumped(user[u])]
        /\ mfa' = mfa \ {u}
        /\ refused' = None
        /\ UNCHANGED <<clock, history, everUsed, link, issuing, change>>
    BY <1>6 DEF ExecuteMfaReset, TargetChanged, passwordVars
  <2>3. u \in Users
    BY <2>2 DEF RecoveryInv, Owned
  <2>4. Bumped(user[u]) \in UserRow /\ Later(Bumped(user[u]), user[u])
    BY <1>1, <2>3, NextRow DEF Later
  <2>5. Bumped(user[u]).version = user[u].version + 1
    BY <1>1, <2>3, NextRow
  <2> HIDE DEF r, u
  <2>6. user' \in [Users -> UserRow] /\ \A v \in Users : Later(user'[v], user[v])
    BY <2>2, <2>3, <2>4, OneAccountMoves
  <2>7. /\ user'[u].version = user[u].version + 1
        /\ \A v \in Users : v # u => user'[v] = user[v]
    BY <1>1, <2>2, <2>3, <2>5
  <2>8. \A h \in Resets : reset'[h] = IF h = g THEN r ELSE reset[h]
    BY <1>1, <2>2
  <2>9. RecoveryTypeOK'
    BY <2>1, <2>2, <2>6 DEF RecoveryInv, RecoveryTypeOK
  <2>10. Owned'
    BY <2>1, <2>2, <2>3, <2>8 DEF RecoveryInv, Owned
  <2>11. VersionsTell'
    <3> SUFFICES ASSUME NEW h \in Resets, reset'[h].state # "absent"
                 PROVE  LET w == reset'[h].user IN
                        /\ reset'[h].version <= user'[w].version
                        /\ reset'[h].version = user'[w].version =>
                             user'[w].state # "suspended" /\ reset'[h].state # "executed"
      BY DEF VersionsTell
    <3>1. CASE h = g
      BY <1>2, <2>1, <2>2, <2>3, <2>7, <2>8, <3>1
    <3>2. CASE h # g /\ reset[h].user = u
      BY <1>2, <2>3, <2>7, <2>8, <3>2 DEF GovernedInv, VersionsTell
    <3>3. CASE h # g /\ reset[h].user # u
      BY <2>7, <2>8, <3>3 DEF GovernedInv, VersionsTell, RecoveryInv, Owned
    <3>4. QED
      BY <3>1, <3>2, <3>3
  <2>12. \A h \in Resets : reset[h].state = "executed" /\ reset[h].user = u =>
           reset[h].version # reset[g].version
    BY <2>2 DEF GovernedInv, VersionsTell
  <2>13. OneResetPerVersion'
    BY <2>1, <2>8, <2>12 DEF GovernedInv, OneResetPerVersion
  <2>14. FourEyes'
    BY <2>1, <2>2, <2>8 DEF GovernedInv, FourEyes
  <2>15. QED
    BY <2>2, <2>6, <2>9, <2>10, <2>11, <2>13, <2>14 DEF RecoveryInv, GovernedInv
<1>7. QED
  BY <1>3, <1>4, <1>5, <1>6 DEF GovernedStep

-----------------------------------------------------------------------------
AllInv == RecoveryInv /\ PendingIsCurrent /\ GovernedInv

\* No request, no promise.
LEMMA AllInvInit == Init => AllInv
<1> SUFFICES ASSUME Init PROVE AllInv
  OBVIOUS
<1>1. /\ \A c \in Changes : change[c].state = "absent"
      /\ \A g \in Resets : reset[g].state = "absent"
  BY DEF Init, NoChange, NoReset
<1>2. PendingIsCurrent
  BY <1>1 DEF PendingIsCurrent
<1>3. GovernedInv
  BY <1>1 DEF GovernedInv, VersionsTell, OneResetPerVersion, FourEyes
<1>4. QED
  BY <1>2, <1>3, RecoveryInvInit DEF AllInv

\* Every step keeps the whole invariant.
LEMMA AllInvNext == AllInv /\ [Next]_vars => AllInv'
<1> SUFFICES ASSUME AllInv, [Next]_vars PROVE AllInv'
  OBVIOUS
<1>1. RecoveryInv /\ PendingIsCurrent /\ GovernedInv
  BY DEF AllInv
<1>2. ASSUME NEW r, NEW w, Later(r, w) PROVE r = w \/ r.version = w.version + 1
  BY <1>2 DEF Later
<1>3. CASE PasswordStep
  <2>1. RecoveryInv'
    BY <1>1, <1>3, PasswordStepKeeps
  <2>2. (\A u \in Users : Later(user'[u], user[u])) /\ UNCHANGED <<change, reset>>
    BY <1>1, <1>3, PasswordStepMoves
  <2>3. PendingIsCurrent'
    BY <1>1, <2>2, LaterKeepsPending
  <2>4. GovernedInv'
    BY <1>1, <1>2, <2>2, LaterKeepsGoverned
  <2>5. QED
    BY <2>1, <2>3, <2>4 DEF AllInv
<1>4. CASE ContactStep
  <2>1. RecoveryInv' /\ PendingIsCurrent'
    BY <1>1, <1>4, ContactStepKeeps
  <2>2. /\ \A u \in Users : user'[u] = user[u] \/ user'[u].version = user[u].version + 1
        /\ UNCHANGED reset
    BY <1>1, <1>4, ContactStepMoves
  <2>3. GovernedInv'
    BY <1>1, <2>2, LaterKeepsGoverned
  <2>4. QED
    BY <2>1, <2>3 DEF AllInv
<1>5. CASE AccountStep
  <2>1. /\ RecoveryInv'
        /\ \A u \in Users : Later(user'[u], user[u])
        /\ UNCHANGED <<change, reset>>
    BY <1>1, <1>5, AccountStepKeeps
  <2>2. PendingIsCurrent'
    BY <1>1, <2>1, LaterKeepsPending
  <2>3. GovernedInv'
    BY <1>1, <1>2, <2>1, LaterKeepsGoverned
  <2>4. QED
    BY <2>1, <2>2, <2>3 DEF AllInv
<1>6. CASE GovernedStep
  <2>1. /\ RecoveryInv'
        /\ GovernedInv'
        /\ \A u \in Users : Later(user'[u], user[u])
        /\ UNCHANGED change
    BY <1>1, <1>6, GovernedStepKeeps
  <2>2. PendingIsCurrent'
    BY <1>1, <2>1, LaterKeepsPending
  <2>3. QED
    BY <2>1, <2>2 DEF AllInv
<1>7. ASSUME UNCHANGED <<user, history, everUsed, link, issuing, change, reset, mfa, refused>>,
             clock' \in Nat
      PROVE  AllInv'
  <2>1. RecoveryTypeOK' /\ Owned'
    BY <1>1, <1>7 DEF RecoveryInv, RecoveryTypeOK, Owned
  <2>2. PendingIsCurrent'
    BY <1>1, <1>7 DEF PendingIsCurrent
  <2>3. GovernedInv'
    BY <1>1, <1>7, LaterKeepsGoverned
  <2>4. QED
    BY <2>1, <2>2, <2>3 DEF AllInv, RecoveryInv
<1>8. CASE Tick
  <2>1. clock' \in Nat
    BY <1>1, <1>8 DEF Tick, RecoveryInv, RecoveryTypeOK
  <2>2. QED
    BY <1>7, <1>8, <2>1 DEF Tick, passwordVars, governedVars
<1>9. CASE UNCHANGED vars
  BY <1>1, <1>7, <1>9 DEF vars, passwordVars, governedVars, RecoveryInv, RecoveryTypeOK
<1>10. QED
  BY <1>3, <1>4, <1>5, <1>6, <1>8, <1>9 DEF Next

\* The invariant of the recovery and governance tables.
THEOREM RecoveryTables == Spec => []AllInv
  BY AllInvInit, AllInvNext, PTL DEF Spec

\* The rows written by the handlers of recovery_repository.py keep their types.
THEOREM RecoveryTypeCorrect == Spec => []RecoveryTypeOK
<1>1. AllInv => RecoveryTypeOK
  BY DEF AllInv, RecoveryInv
<1>2. QED
  BY <1>1, RecoveryTables, PTL

\* create_contact_change and verify_contact_change never leave a request pending whose
\* old channel is no longer the account's.
THEOREM PendingRequestsAreCurrent == Spec => []PendingIsCurrent
<1>1. AllInv => PendingIsCurrent
  BY DEF AllInv
<1>2. QED
  BY <1>1, RecoveryTables, PTL

\* approve_mfa_reset and execute_mfa_reset keep the four-eyes rule and the delay.
THEOREM ResetsTakeFourEyes == Spec => []FourEyes
<1>1. AllInv => FourEyes
  BY DEF AllInv, GovernedInv
<1>2. QED
  BY <1>1, RecoveryTables, PTL

\* execute_mfa_reset runs at most once per account version.
THEOREM ResetsRunOncePerVersion == Spec => []OneResetPerVersion
<1>1. AllInv => OneResetPerVersion
  BY DEF AllInv, GovernedInv
<1>2. QED
  BY <1>1, RecoveryTables, PTL

\* execute_mfa_reset never strips a suspended account of its factors.
THEOREM SuspensionProtectsFactors == Spec => SuspendedKeepsFactors
<1> DEFINE Keeps == \A u \in Users : user[u].state = "suspended" => (u \in mfa => u \in mfa')
<1>1. AllInv /\ [Next]_vars => [Keeps]_vars
  <2> SUFFICES ASSUME AllInv, Next PROVE Keeps
    OBVIOUS
  <2>1. RecoveryInv /\ VersionsTell
    BY DEF AllInv, GovernedInv
  <2>2. ASSUME NEW g \in Resets, ExecuteMfaReset(g) PROVE Keeps
    <3>1. /\ reset[g].state = "approved"
          /\ user[reset[g].user].version = reset[g].version
          /\ mfa' = mfa \ {reset[g].user}
      BY <2>2 DEF ExecuteMfaReset, TargetChanged
    <3>2. user[reset[g].user].state # "suspended"
      BY <2>1, <3>1 DEF VersionsTell
    <3>3. QED
      BY <3>1, <3>2
  <2>3. ASSUME NEW u \in Users, EnrollFactor(u) PROVE Keeps
    BY <2>3 DEF EnrollFactor
  <2>4. ASSUME UNCHANGED mfa PROVE Keeps
    BY <2>4
  <2>5. CASE PasswordStep
    BY <2>1, <2>4, <2>5, PasswordStepMoves
  <2>6. CASE ContactStep
    BY <2>1, <2>4, <2>6, ContactStepMoves
  <2>7. CASE AccountStep
    BY <2>3, <2>4, <2>7 DEF AccountStep, UnlockUser, SuspendUser, LockUser, governedVars
  <2>8. CASE GovernedStep
    BY <2>2, <2>4, <2>8
    DEF GovernedStep, InitiateMfaReset, ApproveMfaReset, RefuseChangedTarget
  <2>9. CASE Tick
    BY <2>4, <2>9 DEF Tick, governedVars
  <2>10. QED
    BY <2>5, <2>6, <2>7, <2>8, <2>9 DEF Next
<1>2. QED
  BY <1>1, RecoveryTables, PTL DEF Spec, SuspendedKeepsFactors
\* A request that approve_mfa_reset or execute_mfa_reset answered TARGET_CHANGED is never
\* approved or executed later, although the rollback keeps it open: no handler ever takes
\* the version of an account back.
THEOREM StaleRequestsStayDead == Spec => StaleNeverRuns
<1> DEFINE Stays == \A g \in Resets :
              reset[g].state \in {"pending", "approved"} /\ TargetChanged(g)
                => reset'[g] = reset[g] /\ TargetChanged(g)'
<1>1. AllInv /\ [Next]_vars => [Stays]_vars
  <2> SUFFICES ASSUME AllInv, Next, NEW g \in Resets,
                      reset[g].state \in {"pending", "approved"}, TargetChanged(g)
               PROVE  reset'[g] = reset[g] /\ TargetChanged(g)'
    OBVIOUS
  <2>1. RecoveryInv /\ GovernedInv /\ reset[g].user \in Users
    BY DEF AllInv, RecoveryInv, Owned
  <2>2. reset \in [Resets -> ResetRow] /\ user \in [Users -> UserRow]
    BY <2>1 DEF RecoveryInv, RecoveryTypeOK
  <2>3. reset[g].version \in Nat /\ user[reset[g].user].version \in Nat
    BY <2>1, <2>2 DEF UserRow, ResetRow
  <2>4. reset[g].version < user[reset[g].user].version
    BY <2>1, <2>3 DEF GovernedInv, VersionsTell, TargetChanged
  <2>5. \A u \in Users : user'[u] = user[u] \/ user'[u].version = user[u].version + 1
    <3>1. \A u \in Users : Later(user'[u], user[u]) =>
            user'[u] = user[u] \/ user'[u].version = user[u].version + 1
      BY DEF Later
    <3>2. CASE Tick
      BY <3>2 DEF Tick
    <3>3. QED
      BY <2>1, <3>1, <3>2, PasswordStepMoves, ContactStepMoves, AccountStepKeeps,
         GovernedStepKeeps DEF Next
  <2>6. ASSUME reset'[g] = reset[g] PROVE TargetChanged(g)'
    BY <2>1, <2>3, <2>4, <2>5, <2>6 DEF TargetChanged
  <2>7. reset'[g] = reset[g]
    <3>1. CASE GovernedStep
      <4>1. ASSUME NEW h \in Resets, NEW s \in L2, NEW u \in Users, InitiateMfaReset(h, s, u)
            PROVE  reset'[g] = reset[g]
        BY <2>2, <4>1 DEF InitiateMfaReset
      <4>2. ASSUME NEW h \in Resets, NEW s \in L3, ApproveMfaReset(h, s)
            PROVE  reset'[g] = reset[g]
        BY <2>2, <4>2 DEF ApproveMfaReset
      <4>3. ASSUME NEW h \in Resets, ExecuteMfaReset(h) PROVE reset'[g] = reset[g]
        BY <2>2, <4>3 DEF ExecuteMfaReset
      <4>4. QED
        BY <3>1, <4>1, <4>2, <4>3 DEF GovernedStep, RefuseChangedTarget
    <3>2. CASE Tick
      BY <3>2 DEF Tick, governedVars
    <3>3. QED
      BY <2>1, <3>1, <3>2, PasswordStepMoves, ContactStepMoves, AccountStepKeeps DEF Next
  <2>8. QED
    BY <2>6, <2>7
<1>2. QED
  BY <1>1, RecoveryTables, PTL DEF Spec, StaleNeverRuns

-----------------------------------------------------------------------------
(***************************************************************************)
(* The password history.  The table is the newest end of everything the    *)
(* user ever had: at least the HistoryLimit - 1 newest of it.              *)
(***************************************************************************)
HistoryIsNewest ==
  \A u \in Users : \A i \in DOMAIN everUsed[u] :
    i <= HistoryLimit - 1 => i \in DOMAIN history[u] /\ history[u][i] = everUsed[u][i]

PasswordInv == HistoryIsNewest /\ KeptPasswordsDiffer

\* Putting a password in front of a list.
LEMMA InFront ==
  ASSUME NEW s \in Seq(Passwords), NEW pw \in Passwords
  PROVE  /\ << pw >> \o s \in Seq(Passwords)
         /\ Len(<< pw >> \o s) = Len(s) + 1
         /\ DOMAIN (<< pw >> \o s) = 1..(Len(s) + 1)
         /\ (<< pw >> \o s)[1] = pw
         /\ \A i \in 2..(Len(s) + 1) : i - 1 \in DOMAIN s /\ (<< pw >> \o s)[i] = s[i - 1]
<1>1. Len(s) \in Nat /\ DOMAIN s = 1..Len(s) /\ << pw >> \in Seq(Passwords) /\ Len(<< pw >>) = 1
  OBVIOUS
<1>2. /\ << pw >> \o s \in Seq(Passwords) /\ Len(<< pw >> \o s) = Len(s) + 1
      /\ \A i \in 1..(Len(s) + 1) : (<< pw >> \o s)[i] = IF i <= 1 THEN << pw >>[i] ELSE s[i - 1]
  BY <1>1
<1>3. QED
  BY <1>1, <1>2

\* The newest n of a list.
LEMMA NewestRows ==
  ASSUME NEW s \in Seq(Passwords), NEW n \in Nat
  PROVE  /\ DOMAIN Newest(s, n) = {i \in DOMAIN s : i <= n}
         /\ \A i \in DOMAIN Newest(s, n) : Newest(s, n)[i] = s[i]
<1> DEFINE m == IF Len(s) < n THEN Len(s) ELSE n
<1>1. Len(s) \in Nat /\ DOMAIN s = 1..Len(s)
  OBVIOUS
<1>2. m \in Nat /\ m <= Len(s) /\ 1..m = {i \in 1..Len(s) : i <= n}
  BY <1>1
<1> HIDE DEF m
<1>3. Len(SubSeq(s, 1, m)) = m /\ DOMAIN SubSeq(s, 1, m) = 1..m
  BY <1>1, <1>2
<1>4. \A i \in 1..m : SubSeq(s, 1, m)[i] = s[i]
  BY <1>1, <1>2
<1>5. Newest(s, n) = SubSeq(s, 1, m)
  BY DEF Newest, m
<1>6. QED
  BY <1>1, <1>2, <1>3, <1>4, <1>5

\* A step either leaves the passwords alone or is a reset.
LEMMA OnlyResetsChangePasswords ==
  ASSUME [Next]_vars
  PROVE  \/ UNCHANGED <<history, everUsed>>
         \/ \E l \in Links, pw \in Passwords : ConsumePasswordReset(l, pw)
<1>1. CASE PasswordStep
  BY <1>1 DEF PasswordStep, RequestPasswordReset, SupportRecovery, IssuePasswordReset
<1>2. CASE ContactStep
  BY <1>2 DEF ContactStep, CreateContactChange, VerifyContactChange, ApplyContactChange,
              passwordVars
<1>3. CASE AccountStep
  BY <1>3 DEF AccountStep, UnlockUser, SuspendUser, LockUser, EnrollFactor, passwordVars
<1>4. CASE GovernedStep
  BY <1>4 DEF GovernedStep, InitiateMfaReset, ApproveMfaReset, RefuseChangedTarget,
              ExecuteMfaReset, passwordVars
<1>5. CASE Tick \/ UNCHANGED vars
  BY <1>5 DEF Tick, vars, passwordVars
<1>6. QED
  BY <1>1, <1>2, <1>3, <1>4, <1>5 DEF Next

LEMMA PasswordInvNext ==
  ASSUME RecoveryInv, PasswordInv, [Next]_vars
  PROVE  PasswordInv'
<1>1. /\ history \in [Users -> Seq(Passwords)] /\ everUsed \in [Users -> Seq(Passwords)]
      /\ HistoryLimit \in Nat \ {0} /\ HistoryLimit - 1 \in Nat
  BY RecoveryAssumption DEF RecoveryInv, RecoveryTypeOK
<1>2. CASE UNCHANGED <<history, everUsed>>
  BY <1>2 DEF PasswordInv, HistoryIsNewest, KeptPasswordsDiffer
<1>3. ASSUME NEW l \in Links, NEW pw \in Passwords, ConsumePasswordReset(l, pw)
      PROVE  PasswordInv'
  <2> DEFINE u == link[l].user
             h == history[u]
             e == everUsed[u]
             h2 == Kept(<< pw >> \o h)
             e2 == << pw >> \o e
  <2>1. u \in Users
    BY <1>3 DEF ConsumePasswordReset, RecoveryInv, Owned
  <2>2. /\ history' = [history EXCEPT ![u] = h2]
        /\ everUsed' = [everUsed EXCEPT ![u] = e2]
        /\ \A i \in DOMAIN Newest(h, HistoryLimit) : h[i] # pw
    BY <1>3 DEF ConsumePasswordReset
  <2>3. h \in Seq(Passwords) /\ e \in Seq(Passwords)
    BY <1>1, <2>1
  <2>4. /\ \A i \in DOMAIN e : i <= HistoryLimit - 1 => i \in DOMAIN h /\ h[i] = e[i]
        /\ \A i, j \in DOMAIN e : i < j /\ j - i <= HistoryLimit - 1 => e[i] # e[j]
    BY <2>1 DEF PasswordInv, HistoryIsNewest, KeptPasswordsDiffer
  <2> HIDE DEF h, e
  <2>5. /\ DOMAIN e2 = 1..(Len(e) + 1) /\ e2[1] = pw /\ Len(e) \in Nat /\ DOMAIN e = 1..Len(e)
        /\ \A i \in 2..(Len(e) + 1) : i - 1 \in DOMAIN e /\ e2[i] = e[i - 1]
    BY <2>3, InFront
  <2>6. /\ << pw >> \o h \in Seq(Passwords) /\ Len(h) \in Nat /\ DOMAIN h = 1..Len(h)
        /\ DOMAIN (<< pw >> \o h) = 1..(Len(h) + 1) /\ (<< pw >> \o h)[1] = pw
        /\ \A i \in 2..(Len(h) + 1) : i - 1 \in DOMAIN h /\ (<< pw >> \o h)[i] = h[i - 1]
    BY <2>3, InFront
  <2>7. /\ DOMAIN h2 = {i \in 1..(Len(h) + 1) : i <= HistoryLimit - 1}
        /\ \A i \in DOMAIN h2 : h2[i] = (<< pw >> \o h)[i]
    BY <1>1, <2>6, NewestRows DEF Kept
  <2>8. \A i \in DOMAIN h : i <= HistoryLimit => h[i] # pw
    BY <1>1, <2>2, <2>3, NewestRows
  <2> HIDE DEF h2, e2
  <2>9. ASSUME NEW i \in DOMAIN e2, i <= HistoryLimit - 1
        PROVE  i \in DOMAIN h2 /\ h2[i] = e2[i]
    <3>1. CASE i = 1
      <4>1. e2[i] = pw /\ (<< pw >> \o h)[i] = pw
        BY <2>5, <2>6, <3>1
      <4>2. i \in 1..(Len(h) + 1)
        BY <2>6, <3>1
      <4>3. i \in DOMAIN h2
        BY <2>7, <2>9, <4>2
      <4>4. QED
        BY <2>7, <4>1, <4>3
    <3>2. CASE i # 1
      <4>1. i \in 2..(Len(e) + 1) /\ i - 1 \in DOMAIN e /\ i - 1 <= HistoryLimit - 1
        BY <1>1, <2>5, <2>9, <3>2
      <4>2. i - 1 \in DOMAIN h /\ h[i - 1] = e[i - 1]
        BY <2>4, <4>1
      <4>3. i \in 2..(Len(h) + 1)
        BY <2>6, <4>1, <4>2
      <4>4. i \in DOMAIN h2 /\ h2[i] = h[i - 1]
        BY <2>6, <2>7, <2>9, <4>3
      <4>5. QED
        BY <2>5, <4>1, <4>2, <4>4
    <3>3. QED
      BY <3>1, <3>2
  <2>10. ASSUME NEW i \in DOMAIN e2, NEW j \in DOMAIN e2, i < j, j - i <= HistoryLimit - 1
         PROVE  e2[i] # e2[j]
    <3>1. j \in 2..(Len(e) + 1) /\ j - 1 \in DOMAIN e /\ e2[j] = e[j - 1]
      BY <2>5, <2>10
    <3>2. CASE i = 1
      <4>1. j - 1 <= HistoryLimit - 1
        BY <2>10, <3>2
      <4>2. j - 1 \in DOMAIN h /\ h[j - 1] = e[j - 1]
        BY <2>4, <3>1, <4>1
      <4>3. j - 1 <= HistoryLimit
        BY <1>1, <3>1, <4>1
      <4>4. h[j - 1] # pw
        BY <2>8, <4>2, <4>3
      <4>5. QED
        BY <2>5, <3>1, <3>2, <4>2, <4>4
    <3>3. CASE i # 1
      <4>1. i \in 2..(Len(e) + 1) /\ i - 1 \in DOMAIN e /\ e2[i] = e[i - 1]
        BY <2>5, <3>3
      <4>2. i - 1 < j - 1 /\ (j - 1) - (i - 1) <= HistoryLimit - 1
        BY <1>1, <2>10, <3>1, <4>1
      <4>3. QED
        BY <2>4, <3>1, <4>1, <4>2
    <3>4. QED
      BY <3>2, <3>3
  <2>11. \A v \in Users : /\ history'[v] = IF v = u THEN h2 ELSE history[v]
                          /\ everUsed'[v] = IF v = u THEN e2 ELSE everUsed[v]
    BY <1>1, <2>2
  <2> HIDE DEF u
  <2>12. HistoryIsNewest'
    BY <2>9, <2>11 DEF PasswordInv, HistoryIsNewest
  <2>13. KeptPasswordsDiffer'
    BY <2>10, <2>11 DEF PasswordInv, KeptPasswordsDiffer
  <2>14. QED
    BY <2>12, <2>13 DEF PasswordInv
<1>4. QED
  BY <1>2, <1>3, OnlyResetsChangePasswords

\* consume_password_reset never accepts one of the HistoryLimit - 1 passwords before it,
\* although the DELETE prunes the table in the same transaction.
THEOREM NewPasswordsDiffer == Spec => []KeptPasswordsDiffer
<1>1. Init => PasswordInv
  <2> SUFFICES ASSUME Init PROVE PasswordInv
    OBVIOUS
  <2>1. PICK pw \in [Users -> Passwords] : /\ history = [u \in Users |-> << pw[u] >>]
                                           /\ everUsed = [u \in Users |-> << pw[u] >>]
    BY DEF Init
  <2>2. history = everUsed /\ \A u \in Users : DOMAIN everUsed[u] = {1}
    BY <2>1
  <2>3. QED
    BY <2>2 DEF PasswordInv, HistoryIsNewest, KeptPasswordsDiffer
<1>2. AllInv /\ PasswordInv /\ [Next]_vars => PasswordInv'
  BY PasswordInvNext DEF AllInv
<1>3. PasswordInv => KeptPasswordsDiffer
  BY DEF PasswordInv
<1>4. QED
  BY <1>1, <1>2, <1>3, RecoveryTables, PTL DEF Spec

-----------------------------------------------------------------------------
(***************************************************************************)
(* Reset links.  issue_password_reset retires what its UPDATE saw; another *)
(* one for the same user that is open at the same time is not seen, so the *)
(* theorem is about behaviours without such pairs.  Everything else may    *)
(* come between its two steps.                                             *)
(***************************************************************************)
IssuesApart ==
  \A s, t \in Txs : /\ issuing[s] # NoIssue /\ issuing[t] # NoIssue
                    /\ issuing[s].user = issuing[t].user
                    => s = t

\* An open issue has seen every link that its user still has.
SeesLinks ==
  \A t \in Txs : issuing[t] # NoIssue => LiveLinks(issuing[t].user) \subseteq issuing[t].rows

LinkInv ==
  /\ SeesLinks
  /\ \A u \in Users : \A k, l \in LiveLinks(u) : k = l

\* A step either issues a link or makes none live.
LEMMA OnlyIssuesMakeLinks ==
  ASSUME RecoveryInv, [Next]_vars
  PROVE  \/ \E t \in Txs, l \in Links : IssuePasswordReset(t, l)
         \/ /\ \A l \in Links : link'[l].state = "live" => link'[l] = link[l]
            /\ \A t \in Txs : \/ issuing'[t] = issuing[t]
                              \/ /\ UNCHANGED link
                                 /\ issuing'[t].rows = LiveLinks(issuing'[t].user)
<1>1. issuing \in [Txs -> IssueTx] /\ link \in [Links -> LinkRow]
  BY DEF RecoveryInv, RecoveryTypeOK
<1> DEFINE Goal == /\ \A l \in Links : link'[l].state = "live" => link'[l] = link[l]
                   /\ \A t \in Txs : \/ issuing'[t] = issuing[t]
                                     \/ /\ UNCHANGED link
                                        /\ issuing'[t].rows = LiveLinks(issuing'[t].user)
<1>2. ASSUME UNCHANGED <<link, issuing>> PROVE Goal
  BY <1>2
<1>3. ASSUME NEW t \in Txs, NEW u \in Users, UNCHANGED link,
             issuing' = [issuing EXCEPT ![t] = [user |-> u, rows |-> LiveLinks(u)]]
      PROVE  Goal
  <2> DEFINE r == [user |-> u, rows |-> LiveLinks(u)]
  <2>1. r.user = u /\ r.rows = LiveLinks(u)
    OBVIOUS
  <2>2. issuing' = [issuing EXCEPT ![t] = r]
    BY <1>3
  <2> HIDE DEF r
  <2>3. \A s \in Txs : issuing'[s] = IF s = t THEN r ELSE issuing[s]
    BY <1>1, <2>2
  <2>4. QED
    BY <1>3, <2>1, <2>3
<1>4. ASSUME NEW l \in Links, NEW pw \in Passwords, ConsumePasswordReset(l, pw) PROVE Goal
  <2>1. link' = [link EXCEPT ![l] = [link[l] EXCEPT !.state = "consumed"]] /\ issuing' = issuing
    BY <1>1, <1>4 DEF ConsumePasswordReset
  <2>2. [link[l] EXCEPT !.state = "consumed"].state = "consumed"
    BY <1>1 DEF LinkRow
  <2>3. QED
    BY <1>1, <2>1, <2>2
<1> HIDE DEF Goal
<1>5. CASE PasswordStep
  <2>1. ASSUME NEW t \in Txs, NEW u \in Users, RequestPasswordReset(t, u) PROVE Goal
    BY <1>3, <2>1 DEF RequestPasswordReset
  <2>2. ASSUME NEW t \in Txs, NEW u \in Users, SupportRecovery(t, u) PROVE Goal
    BY <1>3, <2>2 DEF SupportRecovery
  <2>3. QED
    BY <1>4, <1>5, <2>1, <2>2 DEF PasswordStep, Goal
<1>6. CASE ContactStep
  BY <1>2, <1>6 DEF ContactStep, CreateContactChange, VerifyContactChange, ApplyContactChange,
                    passwordVars, Goal
<1>7. CASE AccountStep
  BY <1>2, <1>7 DEF AccountStep, UnlockUser, SuspendUser, LockUser, EnrollFactor, passwordVars,
                    Goal
<1>8. CASE GovernedStep
  BY <1>2, <1>8 DEF GovernedStep, InitiateMfaReset, ApproveMfaReset, RefuseChangedTarget,
                    ExecuteMfaReset, passwordVars, Goal
<1>9. CASE Tick \/ UNCHANGED vars
  BY <1>2, <1>9 DEF Tick, vars, passwordVars, Goal
<1>10. QED
  BY <1>5, <1>6, <1>7, <1>8, <1>9 DEF Next

LEMMA LinkInvNext ==
  ASSUME IssuesApart, RecoveryInv, LinkInv, [Next]_vars
  PROVE  LinkInv'
<1>1. issuing \in [Txs -> IssueTx] /\ link \in [Links -> LinkRow]
  BY DEF RecoveryInv, RecoveryTypeOK
<1>2. ASSUME NEW t \in Txs, NEW l \in Links, IssuePasswordReset(t, l) PROVE LinkInv'
  <2>1. LiveLinks(issuing[t].user) \subseteq issuing[t].rows
    BY <1>2 DEF LinkInv, SeesLinks, IssuePasswordReset
  <2>2. /\ link'[l].user = issuing[t].user
        /\ \A k \in Links \ {l} : k \in issuing[t].rows => link'[k].state = "consumed"
        /\ \A k \in Links \ {l} : k \notin issuing[t].rows => link'[k] = link[k]
    <3>1. \A row \in LinkRow : [row EXCEPT !.state = "consumed"].state = "consumed"
      BY DEF LinkRow
    <3>2. QED
      BY <1>1, <1>2, <3>1 DEF IssuePasswordReset
  <2>3. ASSUME NEW u \in Users, NEW j \in LiveLinks(u)', NEW k \in LiveLinks(u)' PROVE j = k
    <3>1. \A i \in LiveLinks(u)' : i = l \/ (i \in LiveLinks(u) /\ i \notin issuing[t].rows)
      BY <2>2 DEF LiveLinks
    <3>2. l \in LiveLinks(u)' => u = issuing[t].user
      BY <2>2 DEF LiveLinks
    <3>3. CASE u = issuing[t].user
      BY <2>1, <3>1, <3>3
    <3>4. CASE u # issuing[t].user
      BY <3>1, <3>2, <3>4 DEF LinkInv
    <3>5. QED
      BY <3>3, <3>4
  <2>4. ASSUME NEW s \in Txs, issuing'[s] # NoIssue
        PROVE  issuing'[s] = issuing[s] /\ issuing[s] # NoIssue /\ issuing[s].user # issuing[t].user
    <3>1. issuing'[s] = IF s = t THEN NoIssue ELSE issuing[s]
      BY <1>1, <1>2 DEF IssuePasswordReset
    <3>2. issuing'[s] = issuing[s] /\ s # t
      BY <2>4, <3>1
    <3>3. QED
      BY <1>2, <2>4, <3>2 DEF IssuesApart, IssuePasswordReset
  <2>5. SeesLinks'
    <3> SUFFICES ASSUME NEW s \in Txs, issuing'[s] # NoIssue
                 PROVE  {k \in Links : link'[k].state = "live" /\ link'[k].user = issuing'[s].user}
                          \subseteq issuing'[s].rows
      BY DEF SeesLinks, LiveLinks
    <3>1. issuing'[s] = issuing[s] /\ issuing[s] # NoIssue /\ issuing[s].user # issuing[t].user
      BY <2>4
    <3>2. LiveLinks(issuing[s].user) \subseteq issuing[s].rows
      BY <3>1 DEF LinkInv, SeesLinks
    <3>3. {k \in Links : link'[k].state = "live" /\ link'[k].user = issuing[s].user}
            \subseteq LiveLinks(issuing[s].user)
      BY <2>2, <3>1 DEF LiveLinks
    <3>4. QED
      BY <3>1, <3>2, <3>3
  <2>6. QED
    BY <2>5, <2>3 DEF LinkInv
<1>3. CASE /\ \A l \in Links : link'[l].state = "live" => link'[l] = link[l]
           /\ \A t \in Txs : \/ issuing'[t] = issuing[t]
                             \/ /\ UNCHANGED link
                                /\ issuing'[t].rows = LiveLinks(issuing'[t].user)
  <2>1. \A u : LiveLinks(u)' \subseteq LiveLinks(u)
    BY <1>3 DEF LiveLinks
  <2>2. SeesLinks'
    <3> SUFFICES ASSUME NEW t \in Txs, issuing'[t] # NoIssue
                 PROVE  {l \in Links : link'[l].state = "live" /\ link'[l].user = issuing'[t].user}
                          \subseteq issuing'[t].rows
      BY DEF SeesLinks, LiveLinks
    <3>1. CASE issuing'[t] = issuing[t]
      BY <1>3, <3>1 DEF LinkInv, SeesLinks, LiveLinks
    <3>2. CASE UNCHANGED link /\ issuing'[t].rows = LiveLinks(issuing'[t].user)
      BY <3>2 DEF LiveLinks
    <3>3. QED
      BY <1>3, <3>1, <3>2
  <2>3. QED
    BY <2>1, <2>2 DEF LinkInv
<1>4. QED
  BY <1>2, <1>3, OnlyIssuesMakeLinks

\* While no two links are being issued for one user, a user has one that can be presented,
\* so that a reset leaves none: consume_password_reset needs to retire no other.
THEOREM LinksAreSingle == Spec /\ []IssuesApart => []LinksWithin(1)
<1>1. Init => LinkInv
  BY DEF Init, LinkInv, SeesLinks, LiveLinks, NoLink
<1>2. AllInv /\ LinkInv /\ IssuesApart /\ [Next]_vars => LinkInv'
  BY LinkInvNext DEF AllInv
<1>3. LinkInv => LinksWithin(1)
  <2> SUFFICES ASSUME LinkInv, NEW u \in Users PROVE Cardinality(LiveLinks(u)) <= 1
    BY DEF LinksWithin
  <2>1. CASE LiveLinks(u) = {}
    <3>1. Cardinality({}) = 0
      BY FS_EmptySet
    <3>2. QED
      BY <2>1, <3>1
  <2>2. CASE LiveLinks(u) # {}
    <3>1. PICK l : l \in LiveLinks(u)
      BY <2>2
    <3>2. LiveLinks(u) = {l}
      BY <3>1 DEF LinkInv
    <3>3. Cardinality({l}) = 1
      BY FS_Singleton
    <3>4. QED
      BY <3>2, <3>3
  <2>3. QED
    BY <2>1, <2>2
<1>4. QED
  BY <1>1, <1>2, <1>3, RecoveryTables, PTL DEF Spec
-----------------------------------------------------------------------------
(***************************************************************************)
(* Reset links when issues do overlap.  While at most k of them are open   *)
(* for a user at once, the user has at most k links: they do not pile up   *)
(* over rounds of overlapping issues.  As with the cap on sessions, every  *)
(* set P of open issues leaves room for a link each, or one of them has    *)
(* missed few enough links to make that room when it commits.              *)
(***************************************************************************)
Issuing(u) == {t \in Txs : issuing[t] # NoIssue /\ issuing[t].user = u}

Overlaps(k) == \A u \in Users : Cardinality(Issuing(u)) <= k

Missed(u, t) == LiveLinks(u) \ issuing[t].rows

Fits(k, u, P) ==
  \/ Cardinality(LiveLinks(u)) + Cardinality(P) <= k
  \/ \E t \in P : Cardinality(Missed(u, t)) + Cardinality(P) <= k

OverlapInv(k) == \A u \in Users : \A P \in SUBSET Issuing(u) : Fits(k, u, P)

\* Sets of links and of transactions have a number of elements.
LEMMA SubsetCounts ==
  ASSUME NEW S, IsFiniteSet(S), NEW A \in SUBSET S, NEW B \in SUBSET A
  PROVE  /\ IsFiniteSet(A) /\ IsFiniteSet(B)
         /\ Cardinality(A) \in Nat /\ Cardinality(B) \in Nat /\ Cardinality(B) <= Cardinality(A)
<1>1. IsFiniteSet(A)
  BY FS_Subset
<1>2. IsFiniteSet(B) /\ Cardinality(B) <= Cardinality(A)
  BY <1>1, FS_Subset
<1>3. QED
  BY <1>1, <1>2, FS_CardinalityType

\* One more element.
LEMMA OneMore ==
  ASSUME NEW S, IsFiniteSet(S), NEW A \in SUBSET S, NEW x, NEW B \in SUBSET (A \cup {x})
  PROVE  /\ Cardinality(A) \in Nat /\ Cardinality(B) \in Nat
         /\ Cardinality(B) <= Cardinality(A) + 1
         /\ x \notin A => Cardinality(A \cup {x}) = Cardinality(A) + 1
<1>1. IsFiniteSet(A) /\ Cardinality(A) \in Nat
  BY FS_Subset, FS_CardinalityType
<1>2. /\ IsFiniteSet(A \cup {x})
      /\ Cardinality(A \cup {x}) = IF x \in A THEN Cardinality(A) ELSE Cardinality(A) + 1
  BY <1>1, FS_AddElement
<1> DEFINE C == A \cup {x}
<1>3. IsFiniteSet(C) /\ B \in SUBSET C
  BY <1>2
<1> HIDE DEF C
<1>4. IsFiniteSet(B) /\ Cardinality(B) <= Cardinality(C)
  BY <1>3, FS_Subset
<1>5. Cardinality(B) \in Nat
  BY <1>4, FS_CardinalityType
<1>6. Cardinality(B) <= Cardinality(A) + 1
  BY <1>1, <1>2, <1>4, <1>5 DEF C
<1>7. QED
  BY <1>1, <1>2, <1>5, <1>6

\* While no link is issued, open issues miss nothing more, and a new one misses nothing.
LEMMA OverlapWithoutIssue ==
  ASSUME IsFiniteSet(Links), IsFiniteSet(Txs), NEW k \in Nat \ {0}, OverlapInv(k), Overlaps(k)',
         \A l \in Links : link'[l].state = "live" => link'[l] = link[l],
         \A t \in Txs : \/ issuing'[t] = issuing[t]
                        \/ UNCHANGED link /\ issuing'[t].rows = LiveLinks(issuing'[t].user),
         NEW u \in Users, NEW P \in SUBSET Issuing(u)'
  PROVE  Fits(k, u, P)'
<1> DEFINE C == LiveLinks(u)
           D == LiveLinks(u)'
<1>1. D \subseteq C /\ C \in SUBSET Links
  BY DEF LiveLinks
<1>2. P \in SUBSET Txs /\ \A t \in P : issuing'[t] # NoIssue /\ issuing'[t].user = u
  BY DEF Issuing
<1>3. Cardinality(C) \in Nat /\ Cardinality(D) \in Nat /\ Cardinality(D) <= Cardinality(C)
  <2> HIDE DEF C, D
  <2>1. QED
    BY <1>1, SubsetCounts
<1>4. Cardinality(P) \in Nat /\ Cardinality(P) <= k
  <2> DEFINE Q == Issuing(u)'
  <2>1. Q \in SUBSET Txs /\ P \in SUBSET Q /\ Cardinality(Q) <= k
    BY DEF Overlaps, Issuing
  <2> HIDE DEF Q
  <2>2. Cardinality(P) \in Nat /\ Cardinality(Q) \in Nat /\ Cardinality(P) <= Cardinality(Q)
    BY <2>1, SubsetCounts
  <2>3. QED
    BY <2>1, <2>2
<1>5. CASE \A t \in P : issuing'[t] = issuing[t]
  <2>1. P \in SUBSET Issuing(u)
    BY <1>2, <1>5 DEF Issuing
  <2>2. Fits(k, u, P)
    BY <2>1 DEF OverlapInv
  <2>3. CASE Cardinality(C) + Cardinality(P) <= k
    <3>1. Cardinality(D) + Cardinality(P) <= k
      BY <1>3, <1>4, <2>3
    <3>2. QED
      BY <3>1 DEF Fits
  <2>4. ASSUME NEW t \in P, Cardinality(Missed(u, t)) + Cardinality(P) <= k PROVE Fits(k, u, P)'
    <3> DEFINE M == Missed(u, t)
               N == Missed(u, t)'
    <3>1. N \in SUBSET M /\ M \in SUBSET Links
      BY <1>1, <1>5 DEF Missed
    <3>2. Cardinality(M) + Cardinality(P) <= k
      BY <2>4
    <3> HIDE DEF M, N
    <3>3. Cardinality(M) \in Nat /\ Cardinality(N) \in Nat /\ Cardinality(N) <= Cardinality(M)
      BY <3>1, SubsetCounts
    <3>4. Cardinality(N) + Cardinality(P) <= k
      BY <1>4, <3>2, <3>3
    <3>5. QED
      BY <3>4 DEF Fits, N
  <2>5. QED
    BY <2>2, <2>3, <2>4 DEF Fits
<1>6. CASE \E t \in P : issuing'[t] # issuing[t]
  <2>1. PICK t \in P : issuing'[t] # issuing[t]
    BY <1>6
  <2>2. UNCHANGED link /\ issuing'[t].rows = LiveLinks(u)
    BY <1>2, <2>1
  <2>3. Missed(u, t)' = {}
    BY <2>2 DEF Missed, LiveLinks
  <2>4. Cardinality(Missed(u, t)') = 0
    BY <2>3, FS_EmptySet
  <2>5. Cardinality(Missed(u, t)') + Cardinality(P) <= k
    BY <1>4, <2>4
  <2>6. QED
    BY <2>5 DEF Fits
<1>7. QED
  BY <1>5, <1>6

\* issue_password_reset leaves its user the new link and the ones it has missed.
LEMMA IssueCounts ==
  ASSUME RecoveryInv, IsFiniteSet(Links), NEW t \in Txs, NEW l \in Links, IssuePasswordReset(t, l),
         NEW u \in Users
  PROVE  /\ u # issuing[t].user => LiveLinks(u)' \subseteq LiveLinks(u)
         /\ LiveLinks(u)' \subseteq LiveLinks(u) \cup {l}
         /\ u = issuing[t].user => LiveLinks(u)' \subseteq Missed(u, t) \cup {l}
<1>1. link \in [Links -> LinkRow]
  BY DEF RecoveryInv, RecoveryTypeOK
<1>2. \A row \in LinkRow : [row EXCEPT !.state = "consumed"].state = "consumed"
  BY DEF LinkRow
<1>3. /\ link'[l].user = issuing[t].user
      /\ \A k \in Links \ {l} : k \in issuing[t].rows => link'[k].state = "consumed"
      /\ \A k \in Links \ {l} : k \notin issuing[t].rows => link'[k] = link[k]
  BY <1>1, <1>2 DEF IssuePasswordReset
<1>4. QED
  BY <1>3 DEF LiveLinks, Missed

\* An issue that commits was one of the set, or another of it has missed one link more.
LEMMA OverlapWithIssue ==
  ASSUME IsFiniteSet(Links), IsFiniteSet(Txs), NEW k \in Nat \ {0}, RecoveryInv, OverlapInv(k),
         NEW t \in Txs, NEW l \in Links, IssuePasswordReset(t, l),
         NEW u \in Users, NEW P \in SUBSET Issuing(u)'
  PROVE  Fits(k, u, P)'
<1>1. /\ issuing \in [Txs -> IssueTx] /\ issuing[t] # NoIssue /\ issuing' = [issuing EXCEPT ![t] = NoIssue]
  BY DEF RecoveryInv, RecoveryTypeOK, IssuePasswordReset
<1>2. issuing'[t] = NoIssue /\ \A s \in Txs \ {t} : issuing'[s] = issuing[s]
  BY <1>1
<1>3. P \in SUBSET Issuing(u) /\ P \in SUBSET Txs /\ t \notin P /\ \A s \in P : issuing'[s] = issuing[s]
  BY <1>2 DEF Issuing
<1>4. /\ u # issuing[t].user => LiveLinks(u)' \subseteq LiveLinks(u)
      /\ LiveLinks(u)' \subseteq LiveLinks(u) \cup {l}
      /\ u = issuing[t].user => LiveLinks(u)' \subseteq Missed(u, t) \cup {l}
  BY IssueCounts
<1> DEFINE C == LiveLinks(u)
           D == LiveLinks(u)'
<1>5. C \in SUBSET Links
  BY DEF LiveLinks
<1>6. Cardinality(P) \in Nat
  BY <1>3, FS_Subset, FS_CardinalityType
<1>7. CASE u # issuing[t].user
  <2>1. Fits(k, u, P)
    BY <1>3 DEF OverlapInv
  <2>2. Cardinality(C) \in Nat /\ Cardinality(D) \in Nat /\ Cardinality(D) <= Cardinality(C)
    <3>1. D \in SUBSET C
      BY <1>4, <1>7
    <3> HIDE DEF C, D
    <3>2. QED
      BY <1>5, <3>1, SubsetCounts
  <2>3. CASE Cardinality(C) + Cardinality(P) <= k
    <3>1. Cardinality(D) + Cardinality(P) <= k
      BY <1>6, <2>2, <2>3
    <3>2. QED
      BY <3>1 DEF Fits
  <2>4. ASSUME NEW s \in P, Cardinality(Missed(u, s)) + Cardinality(P) <= k PROVE Fits(k, u, P)'
    <3> DEFINE M == Missed(u, s)
               N == Missed(u, s)'
    <3>1. N \in SUBSET M /\ M \in SUBSET Links
      BY <1>3, <1>4, <1>5, <1>7 DEF Missed
    <3>2. Cardinality(M) + Cardinality(P) <= k
      BY <2>4
    <3> HIDE DEF M, N
    <3>3. Cardinality(M) \in Nat /\ Cardinality(N) \in Nat /\ Cardinality(N) <= Cardinality(M)
      BY <3>1, SubsetCounts
    <3>4. Cardinality(N) + Cardinality(P) <= k
      BY <1>6, <3>2, <3>3
    <3>5. QED
      BY <3>4 DEF Fits, N
  <2>5. QED
    BY <2>1, <2>3, <2>4 DEF Fits
<1>8. CASE u = issuing[t].user
  <2> DEFINE Q == P \cup {t}
  <2>1. Q \in SUBSET Issuing(u)
    BY <1>1, <1>3, <1>8 DEF Issuing
  <2>2. Fits(k, u, Q)
    BY <2>1 DEF OverlapInv
  <2>3. Cardinality(Q) = Cardinality(P) + 1
    BY <1>3, OneMore
  <2> HIDE DEF Q
  <2>4. CASE Cardinality(C) + Cardinality(Q) <= k
    <3>1. D \in SUBSET (C \cup {l})
      BY <1>4
    <3> HIDE DEF C, D
    <3>2. Cardinality(C) \in Nat /\ Cardinality(D) \in Nat /\ Cardinality(D) <= Cardinality(C) + 1
      BY <1>5, <3>1, OneMore
    <3>3. Cardinality(D) + Cardinality(P) <= k
      BY <1>6, <2>3, <2>4, <3>2
    <3>4. QED
      BY <3>3 DEF Fits, D
  <2>5. ASSUME NEW s \in Q, Cardinality(Missed(u, s)) + Cardinality(Q) <= k PROVE Fits(k, u, P)'
    <3> DEFINE M == Missed(u, s)
               N == Missed(u, s)'
    <3>1. M \in SUBSET Links /\ Cardinality(M) + Cardinality(Q) <= k
      BY <1>5, <2>5 DEF Missed
    <3>2. CASE s = t
      <4>1. D \in SUBSET (M \cup {l})
        BY <1>4, <1>8, <3>2
      <4> HIDE DEF M, D
      <4>2. Cardinality(M) \in Nat /\ Cardinality(D) \in Nat /\ Cardinality(D) <= Cardinality(M) + 1
        BY <3>1, <4>1, OneMore
      <4>3. Cardinality(D) + Cardinality(P) <= k
        BY <1>6, <2>3, <3>1, <4>2
      <4>4. QED
        BY <4>3 DEF Fits, D
    <3>3. CASE s \in P
      <4>1. N \in SUBSET (M \cup {l})
        BY <1>3, <1>4, <3>3 DEF Missed
      <4> HIDE DEF M, N
      <4>2. Cardinality(M) \in Nat /\ Cardinality(N) \in Nat /\ Cardinality(N) <= Cardinality(M) + 1
        BY <3>1, <4>1, OneMore
      <4>3. Cardinality(N) + Cardinality(P) <= k
        BY <1>6, <2>3, <3>1, <4>2
      <4>4. QED
        BY <3>3, <4>3 DEF Fits, N
    <3>4. QED
      BY <3>2, <3>3 DEF Q
  <2>6. QED
    BY <2>2, <2>4, <2>5 DEF Fits
<1>9. QED
  BY <1>7, <1>8

LEMMA OverlapInvNext ==
  ASSUME IsFiniteSet(Links), IsFiniteSet(Txs), NEW k \in Nat \ {0}, RecoveryInv, OverlapInv(k),
         Overlaps(k)', [Next]_vars
  PROVE  OverlapInv(k)'
<1>1. ASSUME NEW u \in Users, NEW P \in SUBSET Issuing(u)' PROVE Fits(k, u, P)'
  <2>1. CASE \E t \in Txs, l \in Links : IssuePasswordReset(t, l)
    BY <2>1, OverlapWithIssue
  <2>2. CASE /\ \A l \in Links : link'[l].state = "live" => link'[l] = link[l]
             /\ \A t \in Txs : \/ issuing'[t] = issuing[t]
                               \/ UNCHANGED link /\ issuing'[t].rows = LiveLinks(issuing'[t].user)
    BY <2>2, OverlapWithoutIssue
  <2>3. QED
    BY <2>1, <2>2, OnlyIssuesMakeLinks
<1>2. QED
  BY <1>1 DEF OverlapInv

LEMMA OverlapInvInit ==
  ASSUME NEW k \in Nat \ {0}, Init
  PROVE  OverlapInv(k)
<1>1. \A u : LiveLinks(u) = {} /\ Issuing(u) = {}
  BY DEF Init, LiveLinks, NoLink, Issuing
<1>2. \A u : Cardinality(LiveLinks(u)) = 0 /\ Cardinality({}) = 0
  BY <1>1, FS_EmptySet
<1>3. ASSUME NEW u \in Users, NEW P \in SUBSET Issuing(u) PROVE Fits(k, u, P)
  <2>1. P = {}
    BY <1>1
  <2>2. QED
    BY <1>2, <2>1 DEF Fits
<1>4. QED
  BY <1>3 DEF OverlapInv

\* issue_password_reset: while at most k links are being issued for a user at once, the user
\* has at most k that can be presented, however many rounds of issues overlap.
THEOREM LinkExcessIsBounded ==
  ASSUME IsFiniteSet(Links), IsFiniteSet(Txs), NEW k \in Nat \ {0}
  PROVE  Spec /\ []Overlaps(k) => []LinksWithin(k)
<1>1. Init => OverlapInv(k)
  BY OverlapInvInit
<1>2. AllInv /\ OverlapInv(k) /\ Overlaps(k)' /\ [Next]_vars => OverlapInv(k)'
  BY OverlapInvNext DEF AllInv
<1>3. OverlapInv(k) => LinksWithin(k)
  <2> SUFFICES ASSUME OverlapInv(k), NEW u \in Users PROVE Cardinality(LiveLinks(u)) <= k
    BY DEF LinksWithin
  <2>1. {} \in SUBSET Issuing(u) /\ Cardinality({}) = 0
    BY FS_EmptySet
  <2>2. Fits(k, u, {})
    BY <2>1 DEF OverlapInv
  <2>3. LiveLinks(u) \in SUBSET Links
    BY DEF LiveLinks
  <2>4. Cardinality(LiveLinks(u)) \in Nat
    BY <2>3, FS_Subset, FS_CardinalityType
  <2>5. QED
    BY <2>1, <2>2, <2>4 DEF Fits
<1>4. QED
  BY <1>1, <1>2, <1>3, RecoveryTables, PTL DEF Spec

\* issue_password_reset, whatever overlaps: a user has at most as many links that can be
\* presented as there are transactions that issue them.
THEOREM PoolBoundsLinks ==
  ASSUME IsFiniteSet(Links), IsFiniteSet(Txs), Txs # {}
  PROVE  Spec => []LiveLinksBounded
<1> DEFINE k == Cardinality(Txs)
<1>1. k \in Nat \ {0}
  BY FS_CardinalityType, FS_EmptySet
<1>2. Overlaps(k)
  <2> SUFFICES ASSUME NEW u \in Users PROVE Cardinality(Issuing(u)) <= k
    BY DEF Overlaps
  <2>1. Issuing(u) \in SUBSET Txs
    BY DEF Issuing
  <2>2. QED
    BY <2>1, FS_Subset
<1>3. Overlaps(k)'
  <2> SUFFICES ASSUME NEW u \in Users PROVE Cardinality(Issuing(u)') <= k
    BY DEF Overlaps
  <2>1. Issuing(u)' \in SUBSET Txs
    BY DEF Issuing
  <2>2. QED
    BY <2>1, FS_Subset
<1> HIDE DEF k
<1>4. Init => OverlapInv(k)
  BY <1>1, OverlapInvInit
<1>5. AllInv /\ OverlapInv(k) /\ [Next]_vars => OverlapInv(k)'
  BY <1>1, <1>3, OverlapInvNext DEF AllInv
<1>6. OverlapInv(k) => LiveLinksBounded
  <2> SUFFICES ASSUME OverlapInv(k), NEW u \in Users PROVE Cardinality(LiveLinks(u)) <= k
    BY DEF LiveLinksBounded, LinksWithin, k
  <2>1. {} \in SUBSET Issuing(u) /\ Cardinality({}) = 0
    BY FS_EmptySet
  <2>2. Fits(k, u, {})
    BY <2>1 DEF OverlapInv
  <2>3. LiveLinks(u) \in SUBSET Links
    BY DEF LiveLinks
  <2>4. Cardinality(LiveLinks(u)) \in Nat
    BY <2>3, FS_Subset, FS_CardinalityType
  <2>5. QED
    BY <1>1, <2>1, <2>2, <2>4 DEF Fits
<1>7. QED
  BY <1>4, <1>5, <1>6, RecoveryTables, PTL DEF Spec
=============================================================================
