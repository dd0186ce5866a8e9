--------------------------- MODULE MembershipProofs ---------------------------
(***************************************************************************)
(* An invitation is accepted at most once, for any number of accounts,     *)
(* addresses, invitations, roles and overlapping requests.                 *)
(* The lock an accepting request takes keeps its invitation as it was when *)
(* the request decided (HeldBy), and no two requests hold one (Apart).     *)
(* While no two requests about one member overlap, what a request decided  *)
(* on is still so when it commits (CalmInv); hence one role per member,    *)
(* members only in the organization, and an owner (OwnerInv); and while no *)
(* member moves to an invited address, no invitation to one (PostInv).     *)
(***************************************************************************)
EXTENDS Membership, FiniteSetTheorems, TLAPS

\* What an open request holds: the accepting one its lock, the inviting one the
\* identifier of the row it will insert.
HeldBy(t) ==
  /\ tx[t].op = "idle" => tx[t] = NoTx
  /\ tx[t].op \notin {"idle", "invite"} => tx[t].member \in Users
  /\ tx[t].op \in {"replace", "invite", "accept"} => tx[t].role \in Roles
  /\ tx[t].op = "accept" =>
       /\ tx[t].invitation \in Invitations
       /\ invitation[tx[t].invitation].state = "pending"
  /\ tx[t].op = "invite" =>
       /\ tx[t].member \in Emails
       /\ tx[t].invitation \in Invitations
       /\ invitation[tx[t].invitation].state = "absent"

\* No two requests hold the same invitation.
Apart ==
  \A s, t \in Txs : s # t /\ tx[s].invitation # None => tx[s].invitation # tx[t].invitation

\* An invitation is to nobody until it is there; when it can be accepted it is to an address
\* and proposes a role.
Drawn ==
  \A i \in Invitations : /\ invitation[i].state = "absent" => invitation[i].invitee = None
                         /\ invitation[i].state = "pending" => /\ invitation[i].role \in Roles
                                                               /\ invitation[i].invitee \in Emails

\* Bindings point to the invitation they come from.
Sourced ==
  \A j \in DOMAIN binding : binding[j].via # None =>
    /\ invitation[binding[j].via].state \in {"accepted", "revoked"}
    /\ \A k \in DOMAIN binding : binding[k].via = binding[j].via => j = k

MembershipInv == MembershipTypeOK /\ Apart /\ (\A t \in Txs : HeldBy(t)) /\ Drawn /\ Sourced

-----------------------------------------------------------------------------
\* Revoking rows changes nothing but their activity.
LEMMA RevokedTable ==
  ASSUME MembershipTypeOK, NEW rows
  PROVE  /\ Revoked(rows) \in Seq(BindingRow)
         /\ DOMAIN Revoked(rows) = DOMAIN binding
         /\ Len(Revoked(rows)) = Len(binding)
         /\ \A k \in DOMAIN binding : /\ Revoked(rows)[k].user = binding[k].user
                                      /\ Revoked(rows)[k].via = binding[k].via
                                      /\ Revoked(rows)[k].role = binding[k].role
                                      /\ Revoked(rows)[k].active <=> binding[k].active /\ k \notin rows
<1>1. binding \in Seq(BindingRow)
  BY DEF MembershipTypeOK
<1>2. \A row \in BindingRow : /\ [row EXCEPT !.active = FALSE] \in BindingRow
                              /\ [row EXCEPT !.active = FALSE].user = row.user
                              /\ [row EXCEPT !.active = FALSE].via = row.via
                              /\ [row EXCEPT !.active = FALSE].role = row.role
                              /\ [row EXCEPT !.active = FALSE].active = FALSE
  BY DEF BindingRow
<1>3. DOMAIN binding = 1..Len(binding) /\ Len(binding) \in Nat
  BY <1>1
<1>4. \A k \in DOMAIN binding : binding[k] \in BindingRow
  BY <1>1
<1>5. \A k \in DOMAIN binding : binding[k].active \in BOOLEAN
  BY <1>4 DEF BindingRow
<1>6. \A k \in DOMAIN binding : Revoked(rows)[k] \in BindingRow
  BY <1>2, <1>4 DEF Revoked
<1>7. Revoked(rows) = [k \in 1..Len(binding) |-> Revoked(rows)[k]]
  BY <1>3 DEF Revoked
<1>8. Revoked(rows) \in Seq(BindingRow)
  BY <1>3, <1>6, <1>7
<1>9. DOMAIN Revoked(rows) = DOMAIN binding /\ Len(Revoked(rows)) = Len(binding)
  BY <1>3, <1>7, <1>8
<1>10. QED
  BY <1>2, <1>4, <1>5, <1>8, <1>9 DEF Revoked

\* A grant adds one row at the end.
LEMMA GrantedTable ==
  ASSUME NEW table \in Seq(BindingRow), NEW row \in BindingRow
  PROVE  /\ Append(table, row) \in Seq(BindingRow)
         /\ DOMAIN Append(table, row) = DOMAIN table \cup {Len(table) + 1}
         /\ Len(table) + 1 \notin DOMAIN table
         /\ \A k \in DOMAIN table : Append(table, row)[k] = table[k]
         /\ Append(table, row)[Len(table) + 1] = row
  OBVIOUS

\* Every row names an invitation or none.
LEMMA ViaTyped ==
  ASSUME MembershipInv
  PROVE  \A j \in DOMAIN binding : binding[j].via # None => binding[j].via \in Invitations
<1>1. binding \in Seq(BindingRow)
  BY DEF MembershipInv, MembershipTypeOK
<1>2. \A j \in DOMAIN binding : binding[j] \in BindingRow
  BY <1>1
<1>3. QED
  BY <1>2 DEF BindingRow

\* A request that is open or closed is well typed.
LEMMA TxRows ==
  /\ NoTx \in TxState
  /\ NoTx.invitation = None /\ NoTx.rows = {} /\ NoTx.op = "idle"
  BY DEF NoTx, TxState

-----------------------------------------------------------------------------
\* The tables are empty at first.
LEMMA MembershipInvInit == Init => MembershipInv
<1> SUFFICES ASSUME Init PROVE MembershipInv
  OBVIOUS
<1>1. NoInvitation \in InvitationRow
  BY DEF NoInvitation, InvitationRow
<1>2. << >> \in Seq(BindingRow) /\ DOMAIN << >> = {}
  OBVIOUS
<1>3. MembershipTypeOK
  BY <1>1, <1>2, TxRows DEF Init, MembershipTypeOK
<1>4. Apart /\ (\A t \in Txs : HeldBy(t)) /\ Drawn
  BY TxRows DEF Init, Apart, HeldBy, Drawn, NoInvitation
<1>5. Sourced
  BY <1>2 DEF Init, Sourced
<1>6. QED
  BY <1>3, <1>4, <1>5 DEF MembershipInv

\* Opening a request, once its decision has given it what it may hold.
LEMMA OpenKeeps ==
  ASSUME MembershipInv, NEW t \in Txs, NEW op \in Ops, NEW u \in Users \cup Emails,
         NEW role \in Roles \cup {None}, NEW i \in Invitations \cup {None},
         Open(t, op, u, role, i),
         i # None => \A s \in Txs : tx[s].invitation # i,
         op \in {"replace", "invite", "accept"} => role \in Roles,
         op = "accept" => i # None /\ invitation[i].state = "pending",
         op = "invite" => i # None /\ invitation[i].state = "absent" /\ u \in Emails,
         op # "invite" => u \in Users
  PROVE  MembershipInv'
<1> DEFINE r == [op |-> op, updated |-> FALSE, member |-> u, role |-> role,
                 invitation |-> i, rows |-> {}, mail |-> {}]
<1>1. r \in TxState
  BY DEF TxState, Ops
<1>2. /\ r.op = op /\ r.member = u /\ r.role = role /\ r.invitation = i /\ r.rows = {}
      /\ op # "idle"
  BY DEF Ops
<1>3. /\ tx' = [tx EXCEPT ![t] = r]
      /\ UNCHANGED <<clock, erased, email, binding, invitation, scoped>>
  BY DEF Open
<1>4. raced' \in SUBSET {"owners", "member", "address"}
  BY DEF Open, Races, MembershipInv, MembershipTypeOK
<1> HIDE DEF r
<1>5. \A s \in Txs : tx'[s] = IF s = t THEN r ELSE tx[s]
  BY <1>3 DEF MembershipInv, MembershipTypeOK
<1>6. MembershipTypeOK'
  BY <1>1, <1>3, <1>4 DEF MembershipInv, MembershipTypeOK
<1>7. Apart'
  BY <1>2, <1>5 DEF MembershipInv, Apart
<1>8. ASSUME NEW s \in Txs
      PROVE  HeldBy(s)'
  <2>1. CASE s = t
    BY <1>2, <1>3, <1>5, <2>1 DEF HeldBy
  <2>2. CASE s # t
    BY <1>3, <1>5, <2>2 DEF MembershipInv, HeldBy
  <2>3. QED
    BY <2>1, <2>2
<1>9. Drawn' /\ Sourced'
  BY <1>3 DEF MembershipInv, Drawn, Sourced
<1>10. QED
  BY <1>6, <1>7, <1>8, <1>9 DEF MembershipInv

\* Every decision opens its request with what OpenKeeps asks for.
LEMMA DecideKeeps ==
  ASSUME MembershipInv, NEW t \in Txs, Decide(t)
  PROVE  MembershipInv'
<1>1. ASSUME NEW a \in Users, NEW m \in Users, NEW role \in Roles, ReplaceDecide(t, a, m, role)
      PROVE  MembershipInv'
  BY <1>1, OpenKeeps DEF ReplaceDecide, Ops
<1>2. ASSUME NEW a \in Users, NEW m \in Users, OffboardDecide(t, a, m)
      PROVE  MembershipInv'
  BY <1>2, OpenKeeps DEF OffboardDecide, Ops
<1>3. ASSUME NEW u \in Users, CreateDecide(t, u)
      PROVE  MembershipInv'
  BY <1>3, OpenKeeps DEF CreateDecide, Ops, Roles
<1>4. ASSUME NEW u \in Users, EraseDecide(t, u)
      PROVE  MembershipInv'
  BY <1>4, OpenKeeps DEF EraseDecide, Ops
<1>5. ASSUME NEW u \in Users, SwitchDecide(t, u)
      PROVE  MembershipInv'
  BY <1>5, OpenKeeps DEF SwitchDecide, Ops
<1>6. ASSUME NEW a \in Users, NEW e \in Emails, NEW i \in Invitations, NEW role \in PlainRoles,
             InviteDecide(t, a, i, e, role)
      PROVE  MembershipInv'
  <2>1. role \in Roles /\ i # None
    BY MembershipAssumption DEF Roles
  <2>2. QED
    BY <1>6, <2>1, OpenKeeps DEF InviteDecide, Ops
<1>7. ASSUME NEW u \in Users, NEW i \in Invitations, AcceptDecide(t, u, i)
      PROVE  MembershipInv'
  <2>1. invitation[i].role \in Roles /\ i # None
    BY <1>7, MembershipAssumption DEF AcceptDecide, MembershipInv, Drawn
  <2>2. QED
    BY <1>7, <2>1, OpenKeeps DEF AcceptDecide, Ops
<1>8. QED
  BY <1>1, <1>2, <1>3, <1>4, <1>5, <1>6, <1>7 DEF Decide

-----------------------------------------------------------------------------
\* The UPDATE changes nothing but what the request knows.
LEMMA UpdateKeeps ==
  ASSUME MembershipInv, NEW t \in Txs, Update(t)
  PROVE  MembershipInv'
<1> DEFINE rows == IF tx[t].op = "invite" THEN {} ELSE ActiveRows(tx[t].member)
           mail == IF tx[t].op = "invite" THEN PendingFor(tx[t].member) ELSE {}
           r == [tx[t] EXCEPT !.updated = TRUE, !.rows = rows, !.mail = mail]
<1>1. /\ tx' = [tx EXCEPT ![t] = r]
      /\ UNCHANGED <<clock, erased, email, binding, invitation, scoped, raced>>
  BY DEF Update
<1>2. rows \in SUBSET Nat
  BY DEF ActiveRows, MembershipInv, MembershipTypeOK
<1>3. mail \in SUBSET Invitations
  BY DEF PendingFor, SentTo
<1>4. tx[t] \in TxState
  BY DEF MembershipInv, MembershipTypeOK
<1> HIDE DEF rows, mail
<1>5. /\ r \in TxState
      /\ r.op = tx[t].op /\ r.member = tx[t].member /\ r.role = tx[t].role
      /\ r.invitation = tx[t].invitation
  BY <1>2, <1>3, <1>4 DEF TxState
<1>6. tx[t].op # "idle"
  BY DEF Update
<1> HIDE DEF r
<1>7. \A s \in Txs : tx'[s] = IF s = t THEN r ELSE tx[s]
  BY <1>1 DEF MembershipInv, MembershipTypeOK
<1>8. MembershipTypeOK'
  BY <1>1, <1>5 DEF MembershipInv, MembershipTypeOK
<1>9. Apart'
  BY <1>5, <1>7 DEF MembershipInv, Apart
<1>10. ASSUME NEW s \in Txs
       PROVE  HeldBy(s)'
  <2>1. CASE s = t
    BY <1>1, <1>5, <1>6, <1>7, <2>1 DEF MembershipInv, HeldBy
  <2>2. CASE s # t
    BY <1>1, <1>7, <2>2 DEF MembershipInv, HeldBy
  <2>3. QED
    BY <2>1, <2>2
<1>11. Drawn' /\ Sourced'
  BY <1>1 DEF MembershipInv, Drawn, Sourced
<1>12. QED
  BY <1>8, <1>9, <1>10, <1>11 DEF MembershipInv

\* A request that ends leaves to the others what they hold, unless it has changed it.
LEMMA CloseKeeps ==
  ASSUME MembershipInv, NEW t \in Txs, Close(t),
         \A s \in Txs \ {t} : tx[s].op \in {"accept", "invite"} =>
            invitation'[tx[s].invitation] = invitation[tx[s].invitation]
  PROVE  /\ tx' \in [Txs -> TxState]
         /\ Apart'
         /\ \A s \in Txs : HeldBy(s)'
<1>1. \A s \in Txs : tx'[s] = IF s = t THEN NoTx ELSE tx[s]
  BY DEF Close, MembershipInv, MembershipTypeOK
<1>2. tx' \in [Txs -> TxState]
  BY TxRows DEF Close, MembershipInv, MembershipTypeOK
<1>3. Apart'
  BY <1>1, TxRows DEF MembershipInv, Apart
<1>4. ASSUME NEW s \in Txs
      PROVE  HeldBy(s)'
  <2>1. CASE s = t
    BY <1>1, <2>1, TxRows DEF HeldBy
  <2>2. CASE s # t
    BY <1>1, <2>2 DEF MembershipInv, HeldBy
  <2>3. QED
    BY <2>1, <2>2
<1>5. QED
  BY <1>2, <1>3, <1>4

\* A grant without an invitation, on a table whose rows come from where they came from.
LEMMA GrantKeepsSourced ==
  ASSUME MembershipInv, NEW table \in Seq(BindingRow), NEW u \in Users, NEW role \in Roles,
         DOMAIN table = DOMAIN binding,
         \A k \in DOMAIN binding : table[k].user = binding[k].user /\ table[k].via = binding[k].via,
         binding' = Granted(table, u, role, None),
         invitation' = invitation
  PROVE  binding' \in Seq(BindingRow) /\ Sourced'
<1> DEFINE n == Len(table) + 1
           row == [user |-> u, role |-> role, active |-> TRUE, via |-> None]
<1>1. row \in BindingRow /\ row.via = None
  BY DEF BindingRow
<1>2. binding' = Append(table, row)
  BY DEF Granted
<1> HIDE DEF row
<1>3. /\ binding' \in Seq(BindingRow)
      /\ DOMAIN binding' = DOMAIN binding \cup {n}
      /\ \A k \in DOMAIN binding : binding'[k] = table[k]
      /\ binding'[n].via = None
  BY <1>1, <1>2, GrantedTable
<1> HIDE DEF n
<1>4. QED
  BY <1>3 DEF MembershipInv, Sourced

\* create_organization.
LEMMA CreateCommitKeeps ==
  ASSUME MembershipInv, NEW t \in Txs, CreateCommit(t)
  PROVE  MembershipInv'
<1>1. tx[t].member \in Users /\ "OWNER" \in Roles
  BY DEF CreateCommit, MembershipInv, HeldBy, Roles
<1>2. binding' \in Seq(BindingRow) /\ Sourced'
  BY <1>1, GrantKeepsSourced DEF CreateCommit, MembershipInv, MembershipTypeOK
<1>3. tx' \in [Txs -> TxState] /\ Apart' /\ \A s \in Txs : HeldBy(s)'
  BY CloseKeeps DEF CreateCommit
<1>4. MembershipTypeOK' /\ Drawn'
  BY <1>2, <1>3 DEF CreateCommit, MembershipInv, MembershipTypeOK, Drawn
<1>5. QED
  BY <1>2, <1>3, <1>4 DEF MembershipInv

\* replace_member_role.
LEMMA ReplaceCommitKeeps ==
  ASSUME MembershipInv, NEW t \in Txs, ReplaceCommit(t)
  PROVE  MembershipInv'
<1>1. tx[t].member \in Users /\ tx[t].role \in Roles
  BY DEF ReplaceCommit, MembershipInv, HeldBy
<1> DEFINE table == Revoked(tx[t].rows)
<1>2. /\ table \in Seq(BindingRow) /\ DOMAIN table = DOMAIN binding
      /\ \A k \in DOMAIN binding : table[k].user = binding[k].user /\ table[k].via = binding[k].via
  BY RevokedTable DEF MembershipInv
<1>3. /\ binding' = Granted(table, tx[t].member, tx[t].role, None)
      /\ Close(t)
      /\ UNCHANGED <<clock, erased, email, invitation, scoped, raced>>
  BY DEF ReplaceCommit
<1> HIDE DEF table
<1>4. binding' \in Seq(BindingRow) /\ Sourced'
  BY <1>1, <1>2, <1>3, GrantKeepsSourced
<1>5. tx' \in [Txs -> TxState] /\ Apart' /\ \A s \in Txs : HeldBy(s)'
  BY <1>3, CloseKeeps
<1>6. MembershipTypeOK' /\ Drawn'
  BY <1>3, <1>4, <1>5 DEF MembershipInv, MembershipTypeOK, Drawn
<1>7. QED
  BY <1>4, <1>5, <1>6 DEF MembershipInv

\* offboard_member.
LEMMA OffboardCommitKeeps ==
  ASSUME MembershipInv, NEW t \in Txs, OffboardCommit(t)
  PROVE  MembershipInv'
<1>1. /\ binding' = Revoked(tx[t].rows) /\ invitation' = invitation
      /\ binding' \in Seq(BindingRow) /\ DOMAIN binding' = DOMAIN binding
      /\ \A k \in DOMAIN binding : binding'[k].user = binding[k].user /\ binding'[k].via = binding[k].via
  BY RevokedTable DEF OffboardCommit, MembershipInv
<1>2. Sourced'
  BY <1>1 DEF MembershipInv, Sourced
<1>3. tx' \in [Txs -> TxState] /\ Apart' /\ \A s \in Txs : HeldBy(s)'
  BY CloseKeeps DEF OffboardCommit
<1>4. MembershipTypeOK' /\ Drawn'
  BY <1>1, <1>3 DEF OffboardCommit, MembershipInv, MembershipTypeOK, Drawn
<1>5. QED
  BY <1>2, <1>3, <1>4 DEF MembershipInv

\* execute_erasure waits for whoever is accepting an invitation of the account.
LEMMA EraseCommitKeeps ==
  ASSUME MembershipInv, NEW t \in Txs, EraseCommit(t)
  PROVE  MembershipInv'
<1>1. /\ binding' = Revoked(tx[t].rows)
      /\ binding' \in Seq(BindingRow) /\ DOMAIN binding' = DOMAIN binding
      /\ \A k \in DOMAIN binding : binding'[k].user = binding[k].user /\ binding'[k].via = binding[k].via
  <2>1. binding' = Revoked(tx[t].rows) /\ MembershipTypeOK
    BY DEF EraseCommit, MembershipInv
  <2>2. QED
    BY <2>1, RevokedTable
<1>2. tx[t].member \in Users /\ tx[t].member # None
  BY MembershipAssumption DEF EraseCommit, MembershipInv, HeldBy
<1>3. \A i \in Invitations : invitation[i] \in InvitationRow
  BY DEF MembershipInv, MembershipTypeOK
<1>4. \A row \in InvitationRow :
        /\ [row EXCEPT !.state = "revoked", !.invitee = None] \in InvitationRow
        /\ [row EXCEPT !.state = "revoked", !.invitee = None].state = "revoked"
  BY DEF InvitationRow
<1> DEFINE gone == SentTo(email[tx[t].member])
<1>5. \A i \in Invitations : invitation'[i] =
        IF i \in gone THEN [invitation[i] EXCEPT !.state = "revoked", !.invitee = None] ELSE invitation[i]
  BY DEF EraseCommit
<1>51. \A i \in gone : ~Locked(i, t) /\ invitation[i].invitee # None
  BY DEF EraseCommit, SentTo
<1> HIDE DEF gone
<1>6. /\ invitation' \in [Invitations -> InvitationRow]
      /\ \A i \in Invitations : invitation'[i] = invitation[i] \/ invitation'[i].state = "revoked"
  BY <1>3, <1>4, <1>5 DEF EraseCommit
<1>7. Sourced' /\ Drawn'
  <2>1. \A j \in DOMAIN binding : binding[j].via # None => binding[j].via \in Invitations
    BY ViaTyped
  <2>2. Sourced'
    BY <1>1, <1>6, <2>1 DEF MembershipInv, Sourced
  <2>3. Drawn'
    BY <1>6 DEF MembershipInv, Drawn
  <2>4. QED
    BY <2>2, <2>3
<1>8. ASSUME NEW s \in Txs \ {t}, tx[s].op \in {"accept", "invite"}
      PROVE  invitation'[tx[s].invitation] = invitation[tx[s].invitation]
  <2>1. tx[s].invitation \in Invitations
    BY <1>8 DEF MembershipInv, HeldBy
  <2>2. tx[s].invitation \notin gone
    BY <1>8, <1>51, <2>1 DEF MembershipInv, HeldBy, Drawn, Locked
  <2>3. QED
    BY <1>5, <2>1, <2>2
<1>9. tx' \in [Txs -> TxState] /\ Apart' /\ \A s \in Txs : HeldBy(s)'
  BY <1>8, CloseKeeps DEF EraseCommit
<1>10. MembershipTypeOK'
  BY <1>1, <1>2, <1>6, <1>9 DEF EraseCommit, MembershipInv, MembershipTypeOK
<1>11. QED
  BY <1>7, <1>9, <1>10 DEF MembershipInv

\* create_organization_invitation waits for whoever is accepting one it replaces.
LEMMA InviteCommitKeeps ==
  ASSUME MembershipInv, NEW t \in Txs, InviteCommit(t)
  PROVE  MembershipInv'
<1> DEFINE new == [state |-> "pending", invitee |-> tx[t].member, role |-> tx[t].role,
                   expires_at |-> clock + InviteTTL]
<1>1. /\ tx[t].member \in Emails /\ tx[t].role \in Roles /\ tx[t].invitation \in Invitations
      /\ invitation[tx[t].invitation].state = "absent"
  BY DEF InviteCommit, MembershipInv, HeldBy
<1>2. new \in InvitationRow /\ new.role \in Roles /\ new.state = "pending" /\ new.invitee \in Emails
  BY <1>1, MembershipAssumption DEF InvitationRow, MembershipInv, MembershipTypeOK
<1>3. \A row \in InvitationRow :
        /\ [row EXCEPT !.state = "revoked"] \in InvitationRow
        /\ [row EXCEPT !.state = "revoked"].state = "revoked"
        /\ [row EXCEPT !.state = "revoked"].invitee = row.invitee
  BY DEF InvitationRow
<1>4. \A i \in Invitations : invitation[i] \in InvitationRow
  BY DEF MembershipInv, MembershipTypeOK
<1>5. invitation' = [i \in Invitations |->
        CASE i = tx[t].invitation -> new
          [] i \in tx[t].mail /\ invitation[i].state = "pending" ->
               [invitation[i] EXCEPT !.state = "revoked"]
          [] OTHER -> invitation[i]]
  BY DEF InviteCommit
<1> HIDE DEF new
<1>6. \A i \in Invitations :
        \/ i = tx[t].invitation /\ invitation'[i] = new
        \/ /\ i # tx[t].invitation /\ i \in tx[t].mail /\ invitation[i].state = "pending"
           /\ invitation'[i] = [invitation[i] EXCEPT !.state = "revoked"]
        \/ i # tx[t].invitation /\ invitation'[i] = invitation[i]
  BY <1>1, <1>5
<1>7. invitation' \in [Invitations -> InvitationRow]
  BY <1>2, <1>3, <1>4, <1>5, <1>6
<1>8. Drawn'
  BY <1>2, <1>3, <1>4, <1>6 DEF MembershipInv, Drawn
<1>9. Sourced'
  <2>1. \A j \in DOMAIN binding : binding[j].via # None =>
          /\ binding[j].via \in Invitations
          /\ invitation'[binding[j].via] = invitation[binding[j].via]
    BY <1>1, <1>6, ViaTyped DEF MembershipInv, Sourced
  <2>2. binding' = binding
    BY DEF InviteCommit
  <2>3. QED
    BY <2>1, <2>2 DEF MembershipInv, Sourced
<1>10. ASSUME NEW s \in Txs \ {t}, tx[s].op \in {"accept", "invite"}
       PROVE  invitation'[tx[s].invitation] = invitation[tx[s].invitation]
  <2>1. tx[s].invitation \in Invitations /\ tx[s].invitation # tx[t].invitation
    BY <1>1, <1>10, MembershipAssumption DEF MembershipInv, HeldBy, Apart
  <2>2. ~(tx[s].invitation \in tx[t].mail /\ invitation[tx[s].invitation].state = "pending")
    BY <1>10 DEF MembershipInv, HeldBy, InviteCommit, Locked
  <2>3. QED
    BY <1>6, <2>1, <2>2
<1>11. tx' \in [Txs -> TxState] /\ Apart' /\ \A s \in Txs : HeldBy(s)'
  BY <1>10, CloseKeeps DEF InviteCommit
<1>12. MembershipTypeOK'
  BY <1>7, <1>11 DEF InviteCommit, MembershipInv, MembershipTypeOK
<1>13. QED
  BY <1>8, <1>9, <1>11, <1>12 DEF MembershipInv

\* accept_organization_invitation: no binding has used the invitation yet, since it is
\* pending, and none will, since it is not any more.
LEMMA AcceptCommitKeeps ==
  ASSUME MembershipInv, NEW t \in Txs, AcceptCommit(t)
  PROVE  MembershipInv'
<1> DEFINE i == tx[t].invitation
           n == Len(binding) + 1
<1>1. /\ tx[t].member \in Users /\ tx[t].role \in Roles /\ i \in Invitations /\ i # None
      /\ invitation[i].state = "pending"
  BY MembershipAssumption DEF AcceptCommit, MembershipInv, HeldBy
<1>2. binding \in Seq(BindingRow) /\ invitation[i] \in InvitationRow
  BY <1>1 DEF MembershipInv, MembershipTypeOK
<1>3. /\ binding' \in Seq(BindingRow)
      /\ DOMAIN binding' = DOMAIN binding \cup {n} /\ n \notin DOMAIN binding
      /\ \A k \in DOMAIN binding : binding'[k] = binding[k]
      /\ binding'[n].user = tx[t].member /\ binding'[n].via = i
  <2> DEFINE row == [user |-> tx[t].member, role |-> tx[t].role, active |-> TRUE, via |-> i]
  <2>1. row \in BindingRow /\ row.user = tx[t].member /\ row.via = i
    BY <1>1 DEF BindingRow
  <2>2. binding' = Append(binding, row)
    BY DEF AcceptCommit, Granted
  <2> HIDE DEF row
  <2>3. QED
    BY <1>2, <2>1, <2>2, GrantedTable
<1>4. /\ invitation' \in [Invitations -> InvitationRow]
      /\ invitation'[i].state = "accepted"
      /\ \A j \in Invitations : j # i => invitation'[j] = invitation[j]
  BY <1>1, <1>2 DEF AcceptCommit, InvitationRow, MembershipInv, MembershipTypeOK
<1> HIDE DEF n
<1>5. \A j \in DOMAIN binding : binding[j].via # None => binding[j].via \in Invitations \ {i}
  BY <1>1, ViaTyped DEF MembershipInv, Sourced
<1>6. Sourced'
  BY <1>1, <1>3, <1>4, <1>5 DEF MembershipInv, Sourced
<1>7. Drawn'
  BY <1>4 DEF MembershipInv, Drawn
<1>8. tx' \in [Txs -> TxState] /\ Apart' /\ \A s \in Txs : HeldBy(s)'
  <2>1. \A s \in Txs \ {t} : tx[s].op \in {"accept", "invite"} =>
          tx[s].invitation \in Invitations /\ tx[s].invitation # i
    BY <1>1 DEF MembershipInv, HeldBy, Apart
  <2>2. Close(t)
    BY DEF AcceptCommit
  <2>3. QED
    BY <1>4, <2>1, <2>2, CloseKeeps
<1>9. MembershipTypeOK'
  BY <1>3, <1>4, <1>8 DEF AcceptCommit, MembershipInv, MembershipTypeOK
<1>10. QED
  BY <1>6, <1>7, <1>8, <1>9 DEF MembershipInv

\* switch_workspace, and a request that fails.
LEMMA SwitchOrRollbackKeeps ==
  ASSUME MembershipInv, NEW t \in Txs, SwitchCommit(t) \/ Rollback(t)
  PROVE  MembershipInv'
<1>1. /\ Close(t)
      /\ UNCHANGED <<clock, erased, email, binding, invitation, raced>>
  BY DEF SwitchCommit, Rollback
<1>2. scoped' \in SUBSET Users
  BY DEF SwitchCommit, Rollback, MembershipInv, MembershipTypeOK, HeldBy
<1>3. tx' \in [Txs -> TxState] /\ Apart' /\ \A s \in Txs : HeldBy(s)'
  BY <1>1, CloseKeeps
<1>4. MembershipTypeOK' /\ Drawn' /\ Sourced'
  BY <1>1, <1>2, <1>3 DEF MembershipInv, MembershipTypeOK, Drawn, Sourced
<1>5. QED
  BY <1>3, <1>4 DEF MembershipInv

\* revoke_organization_invitation waits for whoever holds the invitation.
LEMMA RevokeInvitationKeeps ==
  ASSUME MembershipInv, NEW i \in Invitations, RevokeInvitation(i)
  PROVE  MembershipInv'
<1>1. invitation[i] \in InvitationRow
  BY DEF MembershipInv, MembershipTypeOK
<1>2. /\ invitation' \in [Invitations -> InvitationRow]
      /\ invitation'[i].state = "revoked" /\ invitation'[i].invitee = invitation[i].invitee
      /\ \A j \in Invitations : j # i => invitation'[j] = invitation[j]
  BY <1>1 DEF RevokeInvitation, InvitationRow, MembershipInv, MembershipTypeOK
<1>3. UNCHANGED <<clock, erased, email, binding, tx, scoped, raced>>
  BY DEF RevokeInvitation
<1>4. \A s \in Txs : tx[s].invitation # i
  BY DEF RevokeInvitation
<1>5. MembershipTypeOK' /\ Apart' /\ Drawn'
  BY <1>2, <1>3 DEF MembershipInv, MembershipTypeOK, Apart, Drawn
<1>6. \A s \in Txs : HeldBy(s)'
  BY <1>2, <1>3, <1>4 DEF MembershipInv, HeldBy
<1>7. Sourced'
  <2>1. \A j \in DOMAIN binding : binding[j].via # None => binding[j].via \in Invitations
    BY ViaTyped
  <2>2. QED
    BY <1>2, <1>3, <2>1 DEF MembershipInv, Sourced
<1>8. QED
  BY <1>5, <1>6, <1>7 DEF MembershipInv

\* MembershipInv is inductive.
LEMMA MembershipInvNext == MembershipInv /\ [Next]_vars => MembershipInv'
<1> SUFFICES ASSUME MembershipInv, [Next]_vars
             PROVE  MembershipInv'
  OBVIOUS
<1>1. ASSUME NEW t \in Txs, Commit(t)
      PROVE  MembershipInv'
  BY <1>1, CreateCommitKeeps, ReplaceCommitKeeps, OffboardCommitKeeps, EraseCommitKeeps,
     InviteCommitKeeps, AcceptCommitKeeps, SwitchOrRollbackKeeps DEF Commit
<1>2. ASSUME NEW u \in Users, Refresh(u)
      PROVE  MembershipInv'
  BY <1>2 DEF Refresh, MembershipInv, MembershipTypeOK, Apart, HeldBy, Drawn, Sourced
<1>20. ASSUME NEW u \in Users, NEW e \in Emails, ChangeEmail(u, e)
       PROVE  MembershipInv'
  BY <1>20 DEF ChangeEmail, MembershipInv, MembershipTypeOK, Apart, HeldBy, Drawn, Sourced
<1>3. CASE Tick
  BY <1>3 DEF Tick, MembershipInv, MembershipTypeOK, Apart, HeldBy, Drawn, Sourced
<1>4. CASE UNCHANGED vars
  BY <1>4 DEF vars, MembershipInv, MembershipTypeOK, Apart, HeldBy, Drawn, Sourced
<1>5. QED
  BY <1>1, <1>2, <1>20, <1>3, <1>4, DecideKeeps, UpdateKeeps, SwitchOrRollbackKeeps,
     RevokeInvitationKeeps DEF Next

\* The tables, the open requests and the observer stay well typed: in particular every
\* binding has a role of the catalog, since an invitation cannot be accepted without one.
THEOREM MembershipTypeCorrect == Spec => []MembershipTypeOK
<1>1. MembershipInv => MembershipTypeOK
  BY DEF MembershipInv
<1>2. QED
  BY <1>1, MembershipInvInit, MembershipInvNext, PTL DEF Spec

\* accept_organization_invitation: however requests overlap and addresses change hands, an
\* invitation is behind at most one binding, and cannot be accepted again.
THEOREM InvitationsAreAcceptedOnce == Spec => []AcceptedOnce
<1>1. MembershipInv => AcceptedOnce
  BY DEF MembershipInv, Sourced, AcceptedOnce
<1>2. QED
  BY <1>1, MembershipInvInit, MembershipInvNext, PTL DEF Spec
-----------------------------------------------------------------------------
(***************************************************************************)
(* Requests that do not overlap.  As long as no two requests about one     *)
(* member do, a request finds at its commit what its decision was based    *)
(* on, although it has locked nothing (Plan); as long as no two requests   *)
(* that may remove an owner do either, the owner that made the decision    *)
(* safe is still there (Covered).                                          *)
(***************************************************************************)
\* No two open requests are about one member.
Alone ==
  \A s, t \in Txs : s # t /\ tx[s].op # "idle" /\ tx[t].op # "idle" => tx[s].member # tx[t].member

\* What the decision of a request rested on, and what its UPDATE has found.
Plan(t) ==
  /\ tx[t].op \in {"create", "accept"} => ActiveRows(tx[t].member) = {}
  /\ tx[t].op \in {"replace", "switch"} => ActiveRows(tx[t].member) # {}
  /\ tx[t].op \in {"create", "accept"} => tx[t].member \notin erased
  /\ tx[t].op \in {"replace", "offboard", "erase"} /\ tx[t].updated =>
       tx[t].rows = ActiveRows(tx[t].member)

\* The tables, as far as they are about one account.
Account(u) ==
  /\ \A j, k \in ActiveRows(u) : j = k
  /\ u \in erased => ActiveRows(u) = {}
  /\ u \in scoped => ActiveRows(u) # {}

\* Before there is an owner nobody can invite, and there is nobody to be managed.
Founding ==
  binding = << >> => /\ \A i \in Invitations : invitation[i].state = "absent"
                     /\ \A t \in Txs : tx[t].op \in {"idle", "create", "erase"}

\* The invitations an inviting request replaces are to its address, or to an erased one.
Mailed ==
  \A t \in Txs : \A i \in tx[t].mail : /\ invitation[i].state # "absent"
                                       /\ invitation[i].invitee \in {tx[t].member, None}

CalmInv ==
  /\ Founding /\ Mailed
  /\ "member" \notin raced => Alone /\ (\A t \in Txs : Plan(t)) /\ (\A u \in Users : Account(u))

Removes(t) == MayRemoveOwner(tx[t].op, tx[t].role)

\* Every request that may remove an owner leaves another one.
Covered(t) == Removes(t) /\ binding # << >> => (Owners \ erased) \ {tx[t].member} # {}

OwnerInv ==
  raced \subseteq {"address"} =>
    /\ \A s, t \in Txs : s # t => ~(Removes(s) /\ Removes(t))
    /\ \A t \in Txs : Covered(t)
    /\ binding # << >> => Owners \ erased # {}

\* The rows that count for an account, and whether one of them is an owner's, of any table.
ActiveIn(table, u) == {k \in DOMAIN table : table[k].active /\ table[k].user = u}
OwnsIn(table, u) == \E k \in ActiveIn(table, u) : table[k].role = "OWNER"

\* A step that concerns one account only.
Elsewhere(u) ==
  \A v \in Users \ {u} : /\ ActiveIn(binding', v) = ActiveIn(binding, v)
                         /\ OwnsIn(binding', v) <=> OwnsIn(binding, v)
                         /\ v \in erased' <=> v \in erased
                         /\ v \in scoped' <=> v \in scoped

-----------------------------------------------------------------------------
\* The definitions of the model, as those of its table.
LEMMA RowsInTable ==
  /\ \A u : ActiveRows(u) = ActiveIn(binding, u) /\ (RolesOf(u) = {} <=> ActiveRows(u) = {})
  /\ \A u \in Users : u \in Owners <=> OwnsIn(binding, u)
  /\ \A u : HasPermission(u) <=> OwnsIn(binding, u)
  BY DEF ActiveRows, ActiveIn, RolesOf, Owners, OwnsIn, HasPermission

\* Revoking all rows of an account leaves it none, and the others theirs.
LEMMA RevokedRows ==
  ASSUME MembershipTypeOK, NEW u
  PROVE  /\ ActiveIn(Revoked(ActiveRows(u)), u) = {}
         /\ \A v : v # u => /\ ActiveIn(Revoked(ActiveRows(u)), v) = ActiveIn(binding, v)
                            /\ OwnsIn(Revoked(ActiveRows(u)), v) <=> OwnsIn(binding, v)
<1> DEFINE table == Revoked(ActiveRows(u))
<1>1. /\ DOMAIN table = DOMAIN binding
      /\ \A k \in DOMAIN binding : /\ table[k].user = binding[k].user
                                   /\ table[k].role = binding[k].role
                                   /\ table[k].active <=> binding[k].active /\ k \notin ActiveRows(u)
  BY RevokedTable
<1> HIDE DEF table
<1>2. ActiveIn(table, u) = {}
  BY <1>1 DEF ActiveIn, ActiveRows
<1>3. ASSUME NEW v, v # u
      PROVE  ActiveIn(table, v) = ActiveIn(binding, v) /\ (OwnsIn(table, v) <=> OwnsIn(binding, v))
  <2>1. ActiveIn(table, v) = ActiveIn(binding, v)
    BY <1>1, <1>3 DEF ActiveIn, ActiveRows
  <2>2. \A k \in ActiveIn(binding, v) : table[k].role = binding[k].role
    BY <1>1 DEF ActiveIn
  <2>3. QED
    BY <2>1, <2>2 DEF OwnsIn
<1>4. QED
  BY <1>2, <1>3 DEF table

\* A grant gives an account one row more, and the others none.
LEMMA GrantedRows ==
  ASSUME NEW table \in Seq(BindingRow), NEW u \in Users, NEW role \in Roles,
         NEW i \in Invitations \cup {None}
  PROVE  /\ ActiveIn(Granted(table, u, role, i), u) = ActiveIn(table, u) \cup {Len(table) + 1}
         /\ role = "OWNER" => OwnsIn(Granted(table, u, role, i), u)
         /\ \A v : v # u => /\ ActiveIn(Granted(table, u, role, i), v) = ActiveIn(table, v)
                            /\ OwnsIn(Granted(table, u, role, i), v) <=> OwnsIn(table, v)
<1> DEFINE row == [user |-> u, role |-> role, active |-> TRUE, via |-> i]
           n == Len(table) + 1
           G == Granted(table, u, role, i)
<1>1. row \in BindingRow /\ row.user = u /\ row.role = role /\ row.active = TRUE
  BY DEF BindingRow
<1>2. G = Append(table, row)
  BY DEF Granted
<1> HIDE DEF row, G
<1>3. /\ DOMAIN G = DOMAIN table \cup {n} /\ n \notin DOMAIN table
      /\ \A k \in DOMAIN table : G[k] = table[k]
      /\ G[n] = row
  BY <1>1, <1>2, GrantedTable
<1> HIDE DEF n
<1>4. ActiveIn(G, u) = ActiveIn(table, u) \cup {n}
  BY <1>1, <1>3 DEF ActiveIn
<1>5. role = "OWNER" => OwnsIn(G, u)
  BY <1>1, <1>3, <1>4 DEF OwnsIn
<1>6. ASSUME NEW v, v # u
      PROVE  ActiveIn(G, v) = ActiveIn(table, v) /\ (OwnsIn(G, v) <=> OwnsIn(table, v))
  <2>1. ActiveIn(G, v) = ActiveIn(table, v)
    BY <1>1, <1>3, <1>6 DEF ActiveIn
  <2>2. \A k \in ActiveIn(table, v) : G[k] = table[k]
    BY <1>3 DEF ActiveIn
  <2>3. QED
    BY <2>1, <2>2 DEF OwnsIn
<1>7. QED
  BY <1>4, <1>5, <1>6 DEF G, n

-----------------------------------------------------------------------------
\* Whoever finds an active row finds a table that is not empty.
LEMMA SomeRow ==
  ASSUME NEW u, ActiveRows(u) # {}
  PROVE  binding # << >>
  BY DEF ActiveRows

\* No request makes the table empty again, and none that needs an owner is there before.
LEMMA FoundingNext ==
  ASSUME MembershipInv, Founding, [Next]_vars
  PROVE  Founding'
<1> SUFFICES ASSUME binding' = << >>
             PROVE  /\ \A i \in Invitations : invitation'[i].state = "absent"
                    /\ \A t \in Txs : tx'[t].op \in {"idle", "create", "erase"}
  BY DEF Founding
<1>1. binding \in Seq(BindingRow) /\ tx \in [Txs -> TxState]
  BY DEF MembershipInv, MembershipTypeOK
<1>2. ASSUME NEW rows, binding' = Revoked(rows) PROVE binding = << >>
  BY <1>1, <1>2 DEF Revoked
<1>3. ASSUME NEW table \in Seq(BindingRow), NEW u \in Users, NEW role \in Roles,
             NEW i \in Invitations \cup {None}, binding' = Granted(table, u, role, i)
      PROVE  FALSE
  <2> DEFINE row == [user |-> u, role |-> role, active |-> TRUE, via |-> i]
  <2>1. row \in BindingRow
    BY DEF BindingRow
  <2>2. binding' = Append(table, row)
    BY <1>3 DEF Granted
  <2> HIDE DEF row
  <2>3. Len(table) + 1 \in DOMAIN binding'
    BY <2>1, <2>2, GrantedTable
  <2>4. QED
    BY <2>3
<1>4. ASSUME NEW t \in Txs, Decide(t) PROVE binding = << >> /\ UNCHANGED <<binding, invitation>>
  BY <1>4 DEF Decide, ReplaceDecide, OffboardDecide, CreateDecide, EraseDecide, SwitchDecide,
              InviteDecide, AcceptDecide, Open
<1>5. ASSUME NEW t \in Txs, Commit(t), tx[t].op \notin {"create", "replace", "accept"}
      PROVE  binding = << >>
  BY <1>2, <1>5 DEF Commit, CreateCommit, ReplaceCommit, OffboardCommit, EraseCommit, InviteCommit,
                    AcceptCommit, SwitchCommit
<1>6. ASSUME NEW t \in Txs, Commit(t) PROVE tx[t].op \notin {"create", "replace", "accept"}
  <2>1. CASE CreateCommit(t)
    <3>1. tx[t].member \in Users /\ "OWNER" \in Roles
      BY <2>1 DEF CreateCommit, MembershipInv, HeldBy, Roles
    <3>2. QED
      BY <1>1, <1>3, <2>1, <3>1 DEF CreateCommit
  <2>2. CASE ReplaceCommit(t)
    <3>1. tx[t].member \in Users /\ tx[t].role \in Roles
      BY <2>2 DEF ReplaceCommit, MembershipInv, HeldBy
    <3>2. Revoked(tx[t].rows) \in Seq(BindingRow)
      BY RevokedTable DEF MembershipInv
    <3>3. QED
      BY <1>3, <2>2, <3>1, <3>2 DEF ReplaceCommit
  <2>3. CASE AcceptCommit(t)
    <3>1. tx[t].member \in Users /\ tx[t].role \in Roles /\ tx[t].invitation \in Invitations
      BY <2>3 DEF AcceptCommit, MembershipInv, HeldBy
    <3>2. QED
      BY <1>1, <1>3, <2>3, <3>1 DEF AcceptCommit
  <2>4. CASE OffboardCommit(t) \/ EraseCommit(t) \/ InviteCommit(t) \/ SwitchCommit(t)
    BY <2>4 DEF OffboardCommit, EraseCommit, InviteCommit, SwitchCommit
  <2>5. QED
    BY <1>6, <2>1, <2>2, <2>3, <2>4 DEF Commit
<1>7. binding = << >>
  BY <1>4, <1>5, <1>6 DEF Next, Update, Rollback, RevokeInvitation, ChangeEmail, Refresh, Tick, vars
<1>8. /\ \A i \in Invitations : invitation[i].state = "absent"
      /\ \A t \in Txs : tx[t].op \in {"idle", "create", "erase"}
  BY <1>7 DEF Founding
<1>9. \A u : ActiveRows(u) = {} /\ RolesOf(u) = {} /\ ~HasPermission(u)
  BY <1>7 DEF ActiveRows, RolesOf, HasPermission
<1>10. ASSUME NEW t \in Txs, Close(t), UNCHANGED invitation
       PROVE  /\ \A i \in Invitations : invitation'[i].state = "absent"
              /\ \A s \in Txs : tx'[s].op \in {"idle", "create", "erase"}
  BY <1>1, <1>8, <1>10 DEF Close, NoTx
<1>11. ASSUME NEW t \in Txs, NEW u, NEW role, NEW i, NEW op \in {"create", "erase"},
              Open(t, op, u, role, i)
       PROVE  /\ \A j \in Invitations : invitation'[j].state = "absent"
              /\ \A s \in Txs : tx'[s].op \in {"idle", "create", "erase"}
  BY <1>1, <1>8, <1>11 DEF Open
<1>12. ASSUME NEW t \in Txs, Decide(t)
       PROVE  /\ \A j \in Invitations : invitation'[j].state = "absent"
              /\ \A s \in Txs : tx'[s].op \in {"idle", "create", "erase"}
  <2>1. ~ \E a, m \in Users, role \in Roles : ReplaceDecide(t, a, m, role)
    BY <1>9 DEF ReplaceDecide
  <2>2. ~ \E a, m \in Users : OffboardDecide(t, a, m)
    BY <1>9 DEF OffboardDecide
  <2>3. ~ \E a \in Users, e \in Emails, i \in Invitations, role \in PlainRoles : InviteDecide(t, a, i, e, role)
    BY <1>9 DEF InviteDecide
  <2>4. ~ \E u \in Users, i \in Invitations : AcceptDecide(t, u, i)
    BY <1>8 DEF AcceptDecide
  <2>5. ~ \E u \in Users : SwitchDecide(t, u)
    BY <1>9 DEF SwitchDecide
  <2>6. PICK u \in Users : CreateDecide(t, u) \/ EraseDecide(t, u)
    BY <1>12, <2>1, <2>2, <2>3, <2>4, <2>5 DEF Decide
  <2>7. QED
    BY <1>11, <2>6 DEF CreateDecide, EraseDecide
<1>13. ASSUME NEW t \in Txs, Update(t)
       PROVE  /\ \A j \in Invitations : invitation'[j].state = "absent"
              /\ \A s \in Txs : tx'[s].op \in {"idle", "create", "erase"}
  <2>1. \A s \in Txs : tx'[s].op = tx[s].op
    BY <1>1, <1>13 DEF Update, TxState
  <2>2. QED
    BY <1>8, <1>13, <2>1 DEF Update
<1>14. ASSUME NEW t \in Txs, EraseCommit(t)
       PROVE  /\ \A j \in Invitations : invitation'[j].state = "absent"
              /\ \A s \in Txs : tx'[s].op \in {"idle", "create", "erase"}
  <2>1. \A j \in Invitations : j \notin SentTo(email[tx[t].member])
    BY <1>8 DEF MembershipInv, Drawn, SentTo
  <2>2. \A j \in Invitations : invitation'[j] = invitation[j]
    BY <1>14, <2>1 DEF EraseCommit
  <2>3. \A s \in Txs : tx'[s].op \in {"idle", "create", "erase"}
    BY <1>1, <1>8, <1>14 DEF EraseCommit, Close, NoTx
  <2>4. QED
    BY <1>8, <2>2, <2>3
<1>15. ASSUME NEW t \in Txs, Commit(t)
       PROVE  EraseCommit(t)
  BY <1>6, <1>8, <1>15 DEF Commit, CreateCommit, ReplaceCommit, OffboardCommit, InviteCommit,
                    AcceptCommit, SwitchCommit
<1>16. ASSUME NEW i \in Invitations PROVE ~RevokeInvitation(i)
  BY <1>8 DEF RevokeInvitation
<1>17. QED
  BY <1>8, <1>10, <1>12, <1>13, <1>14, <1>15, <1>16 DEF Next, Rollback, ChangeEmail, Refresh, Tick, vars
\* An invitation that is there keeps its address, or loses it.
LEMMA InviteesStay ==
  ASSUME MembershipInv, [Next]_vars, NEW i \in Invitations, invitation[i].state # "absent"
  PROVE  invitation'[i].state # "absent" /\ invitation'[i].invitee \in {invitation[i].invitee, None}
<1>1. invitation \in [Invitations -> InvitationRow] /\ invitation[i] \in InvitationRow
  BY DEF MembershipInv, MembershipTypeOK
<1>2. ASSUME NEW t \in Txs, Decide(t) PROVE UNCHANGED invitation
  BY <1>2 DEF Decide, ReplaceDecide, OffboardDecide, CreateDecide, EraseDecide, SwitchDecide,
              InviteDecide, AcceptDecide, Open
<1>3. ASSUME NEW t \in Txs, InviteCommit(t)
      PROVE  invitation'[i].state # "absent" /\ invitation'[i].invitee \in {invitation[i].invitee, None}
  <2>1. i # tx[t].invitation
    BY <1>3 DEF InviteCommit, MembershipInv, HeldBy
  <2>2. QED
    BY <1>1, <1>3, <2>1 DEF InviteCommit, InvitationRow
<1>4. ASSUME NEW t \in Txs, EraseCommit(t)
      PROVE  invitation'[i].state # "absent" /\ invitation'[i].invitee \in {invitation[i].invitee, None}
  BY <1>1, <1>4 DEF EraseCommit, InvitationRow
<1>5. ASSUME NEW t \in Txs, AcceptCommit(t)
      PROVE  invitation'[i].state # "absent" /\ invitation'[i].invitee \in {invitation[i].invitee, None}
  BY <1>1, <1>5 DEF AcceptCommit, InvitationRow
<1>6. ASSUME NEW j \in Invitations, RevokeInvitation(j)
      PROVE  invitation'[i].state # "absent" /\ invitation'[i].invitee \in {invitation[i].invitee, None}
  BY <1>1, <1>6 DEF RevokeInvitation, InvitationRow
<1>7. QED
  BY <1>2, <1>3, <1>4, <1>5, <1>6
  DEF Next, Commit, CreateCommit, ReplaceCommit, OffboardCommit, SwitchCommit, Update, Rollback,
      ChangeEmail, Refresh, Tick, vars

\* What becomes of a request in a step.
LEMMA RequestMoves ==
  ASSUME MembershipInv, [Next]_vars, NEW t \in Txs
  PROVE  \/ tx'[t] = tx[t]
         \/ tx'[t].mail = {}
         \/ Update(t) /\ tx'[t].member = tx[t].member /\ tx'[t].mail = PendingFor(tx[t].member)
<1>1. tx \in [Txs -> TxState] /\ tx[t] \in TxState
  BY DEF MembershipInv, MembershipTypeOK
<1>2. ASSUME NEW s \in Txs, NEW op, NEW u, NEW role, NEW i, Open(s, op, u, role, i)
      PROVE  tx'[t] = tx[t] \/ tx'[t].mail = {}
  BY <1>1, <1>2 DEF Open
<1>3. ASSUME NEW s \in Txs, Close(s)
      PROVE  tx'[t] = tx[t] \/ tx'[t].mail = {}
  BY <1>1, <1>3 DEF Close, NoTx
<1>4. ASSUME NEW s \in Txs, Update(s)
      PROVE  \/ tx'[t] = tx[t]
             \/ tx'[t].mail = {}
             \/ Update(t) /\ tx'[t].member = tx[t].member /\ tx'[t].mail = PendingFor(tx[t].member)
  <2>1. CASE s # t
    BY <1>1, <1>4, <2>1 DEF Update
  <2>2. CASE s = t /\ tx[t].op = "invite"
    BY <1>1, <1>4, <2>2 DEF Update, TxState
  <2>3. CASE s = t /\ tx[t].op # "invite"
    BY <1>1, <1>4, <2>3 DEF Update, TxState
  <2>4. QED
    BY <2>1, <2>2, <2>3
<1>5. ASSUME NEW s \in Txs, Decide(s) PROVE tx'[t] = tx[t] \/ tx'[t].mail = {}
  BY <1>2, <1>5 DEF Decide, ReplaceDecide, OffboardDecide, CreateDecide, EraseDecide, SwitchDecide,
              InviteDecide, AcceptDecide
<1>6. ASSUME NEW s \in Txs, Commit(s) \/ Rollback(s) PROVE Close(s)
  BY <1>6 DEF Commit, CreateCommit, ReplaceCommit, OffboardCommit, EraseCommit, InviteCommit,
              AcceptCommit, SwitchCommit, Rollback
<1>7. QED
  BY <1>3, <1>4, <1>5, <1>6 DEF Next, RevokeInvitation, ChangeEmail, Refresh, Tick, vars

\* Mailed is inductive.
LEMMA MailedNext ==
  ASSUME MembershipInv, Mailed, [Next]_vars
  PROVE  Mailed'
<1> SUFFICES ASSUME NEW t \in Txs, NEW i \in tx'[t].mail
             PROVE  invitation'[i].state # "absent" /\ invitation'[i].invitee \in {tx'[t].member, None}
  BY DEF Mailed
<1>1. tx[t].mail \subseteq Invitations
  BY DEF MembershipInv, MembershipTypeOK, TxState
<1>2. CASE tx'[t] = tx[t]
  BY <1>1, <1>2, InviteesStay DEF Mailed
<1>3. CASE tx'[t].member = tx[t].member /\ tx'[t].mail = PendingFor(tx[t].member)
  BY <1>3, InviteesStay DEF PendingFor, SentTo
<1>4. QED
  BY <1>2, <1>3, RequestMoves

-----------------------------------------------------------------------------
\* The part of CalmInv that an overlap may break.
Calm == Alone /\ (\A t \in Txs : Plan(t)) /\ (\A u \in Users : Account(u))

\* A request that ends, having touched its own member only, leaves to the others what they
\* rest on.
LEMMA CloseKeepsCalm ==
  ASSUME MembershipInv, Calm, NEW t \in Txs, tx[t].op # "idle", Close(t),
         NEW u, u = tx[t].member, Elsewhere(u), u \in Users => Account(u)'
  PROVE  Calm'
<1>1. \A s \in Txs : tx'[s] = IF s = t THEN NoTx ELSE tx[s]
  BY DEF Close, MembershipInv, MembershipTypeOK
<1>2. Alone'
  BY <1>1, TxRows DEF Calm, Alone
<1>3. ASSUME NEW v \in Users, v # u
      PROVE  /\ ActiveRows(v)' = ActiveRows(v)
             /\ (v \in erased' <=> v \in erased) /\ (v \in scoped' <=> v \in scoped)
  BY <1>3 DEF Elsewhere, ActiveIn, ActiveRows
<1>4. ASSUME NEW s \in Txs
      PROVE  Plan(s)'
  <2>1. CASE s = t \/ tx[s].op \in {"idle", "invite"}
    BY <1>1, <2>1, TxRows DEF Plan
  <2>2. CASE s # t /\ tx[s].op \notin {"idle", "invite"}
    <3>1. PICK v \in Users : v = tx[s].member /\ v = tx'[s].member /\ v # u
      BY <1>1, <2>2 DEF Calm, Alone, MembershipInv, HeldBy
    <3>2. /\ tx'[s] = tx[s]
          /\ ActiveRows(v)' = ActiveRows(v)
          /\ (v \in erased' <=> v \in erased)
      BY <1>1, <1>3, <2>2, <3>1
    <3>3. Plan(s)
      BY DEF Calm
    <3>4. QED
      BY <3>1, <3>2, <3>3 DEF Plan
  <2>3. QED
    BY <2>1, <2>2
<1>5. ASSUME NEW v \in Users
      PROVE  Account(v)'
  <2>1. CASE v = u
    BY <2>1
  <2>2. CASE v # u
    <3>1. Account(v)
      BY DEF Calm
    <3>2. QED
      BY <1>3, <2>2, <3>1 DEF Account
  <2>3. QED
    BY <2>1, <2>2
<1>6. QED
  BY <1>2, <1>4, <1>5 DEF Calm

\* What every commit does to the account it is about, and to no other; only an invitation is
\* about none.
LEMMA CommitsCalmly ==
  ASSUME MembershipInv, Founding, Mailed, Calm, NEW t \in Txs, Commit(t),
         tx[t].op # "invite", NEW u, u = tx[t].member
  PROVE  /\ u \in Users /\ tx[t].op # "idle" /\ Close(t) /\ raced' = raced
         /\ Elsewhere(u) /\ Account(u)'
<1>1. /\ tx[t].op # "idle" /\ Close(t) /\ raced' = raced
  BY DEF Commit, CreateCommit, ReplaceCommit, OffboardCommit, EraseCommit, InviteCommit,
         AcceptCommit, SwitchCommit
<1>2. u \in Users /\ u # None
  BY <1>1, MembershipAssumption DEF MembershipInv, HeldBy
<1>3. /\ Plan(t) /\ Account(u) /\ HeldBy(t) /\ MembershipTypeOK
      /\ binding \in Seq(BindingRow) /\ invitation \in [Invitations -> InvitationRow]
  BY <1>2 DEF Calm, MembershipInv, MembershipTypeOK
<1>4. ActiveRows(u) = ActiveIn(binding, u)
  BY RowsInTable
<1>5. ASSUME ActiveIn(binding', u) = ActiveIn(binding, u),
             u \in erased' => u \in erased, u \in scoped' => ActiveRows(u) # {}
      PROVE  Account(u)'
  <2>1. ActiveRows(u)' = ActiveRows(u)
    BY <1>5 DEF ActiveIn, ActiveRows
  <2>2. QED
    BY <1>3, <1>5, <2>1 DEF Account
<1>6. ASSUME ActiveIn(binding', u) = {}, u \notin scoped'
      PROVE  Account(u)'
  BY <1>3, <1>6 DEF Account, ActiveIn, ActiveRows
<1>7. ASSUME NEW n, ActiveIn(binding', u) = {n}, u \notin erased'
      PROVE  Account(u)'
  BY <1>7 DEF Account, ActiveIn, ActiveRows
<1>8. CASE CreateCommit(t)
  <2>0. "OWNER" \in Roles
    BY DEF Roles
  <2>1. binding = << >> /\ ActiveIn(binding, u) = {}
    BY <1>8 DEF CreateCommit, ActiveIn
  <2>2. binding' = Granted(binding, u, "OWNER", None)
    BY <1>8 DEF CreateCommit
  <2>3. /\ ActiveIn(binding', u) = {Len(binding) + 1}
        /\ \A v : v # u => ActiveIn(binding', v) = ActiveIn(binding, v)
                           /\ (OwnsIn(binding', v) <=> OwnsIn(binding, v))
    <3>1. /\ ActiveIn(binding', u) = ActiveIn(binding, u) \cup {Len(binding) + 1}
          /\ \A v : v # u => ActiveIn(binding', v) = ActiveIn(binding, v)
                             /\ (OwnsIn(binding', v) <=> OwnsIn(binding, v))
      BY <1>2, <1>3, <2>0, <2>2, GrantedRows
    <3>2. QED
      BY <1>4, <2>1, <3>1
  <2>5. u \notin erased'
    BY <1>3, <1>8 DEF CreateCommit, Plan
  <2>6. Account(u)'
    BY <1>7, <2>3, <2>5
  <2>7. Elsewhere(u)
    BY <1>8, <2>3 DEF CreateCommit, Elsewhere
  <2>8. QED
    BY <1>1, <1>2, <2>6, <2>7
<1>9. CASE ReplaceCommit(t)
  <2> DEFINE table == Revoked(ActiveRows(u))
  <2>1. tx[t].rows = ActiveRows(u) /\ ActiveRows(u) # {} /\ tx[t].role \in Roles
    BY <1>3, <1>9 DEF ReplaceCommit, Plan, HeldBy
  <2>2. binding' = Granted(table, u, tx[t].role, None)
    BY <1>9, <2>1 DEF ReplaceCommit
  <2>3. table \in Seq(BindingRow)
    BY <1>3, RevokedTable
  <2>4. /\ ActiveIn(table, u) = {}
        /\ \A v : v # u => ActiveIn(table, v) = ActiveIn(binding, v)
                           /\ (OwnsIn(table, v) <=> OwnsIn(binding, v))
    BY <1>3, RevokedRows
  <2> HIDE DEF table
  <2>5. /\ ActiveIn(binding', u) = {Len(table) + 1}
        /\ \A v : v # u => ActiveIn(binding', v) = ActiveIn(table, v)
                           /\ (OwnsIn(binding', v) <=> OwnsIn(table, v))
    BY <1>2, <2>1, <2>2, <2>3, <2>4, GrantedRows
  <2>6. u \notin erased'
    BY <1>3, <1>9, <2>1 DEF ReplaceCommit, Account
  <2>7. Account(u)'
    BY <1>7, <2>5, <2>6
  <2>8. Elsewhere(u)
    BY <1>9, <2>4, <2>5 DEF ReplaceCommit, Elsewhere
  <2>9. QED
    BY <1>1, <1>2, <2>7, <2>8
<1>10. CASE OffboardCommit(t)
  <2>1. binding' = Revoked(ActiveRows(u))
    BY <1>3, <1>10 DEF OffboardCommit, Plan
  <2>2. /\ ActiveIn(binding', u) = {}
        /\ \A v : v # u => ActiveIn(binding', v) = ActiveIn(binding, v)
                           /\ (OwnsIn(binding', v) <=> OwnsIn(binding, v))
    BY <1>3, <2>1, RevokedRows
  <2>3. Account(u)'
    BY <1>6, <1>10, <2>2 DEF OffboardCommit
  <2>4. Elsewhere(u)
    BY <1>10, <2>2 DEF OffboardCommit, Elsewhere
  <2>5. QED
    BY <1>1, <1>2, <2>3, <2>4
<1>11. CASE EraseCommit(t)
  <2>1. binding' = Revoked(ActiveRows(u))
    BY <1>3, <1>11 DEF EraseCommit, Plan
  <2>2. /\ ActiveIn(binding', u) = {}
        /\ \A v : v # u => ActiveIn(binding', v) = ActiveIn(binding, v)
                           /\ (OwnsIn(binding', v) <=> OwnsIn(binding, v))
    BY <1>3, <2>1, RevokedRows
  <2>3. Account(u)'
    BY <1>6, <1>11, <2>2 DEF EraseCommit
  <2>4. Elsewhere(u)
    BY <1>11, <2>2 DEF EraseCommit, Elsewhere
  <2>5. QED
    BY <1>1, <1>2, <2>3, <2>4
<1>12. ~InviteCommit(t)
  BY DEF InviteCommit
<1>13. CASE AcceptCommit(t)
  <2> DEFINE i == tx[t].invitation
  <2>1. /\ i \in Invitations /\ tx[t].role \in Roles /\ ActiveRows(u) = {} /\ u \notin erased
    BY <1>3, <1>13 DEF AcceptCommit, HeldBy, Plan
  <2>2. binding' = Granted(binding, u, tx[t].role, i)
    BY <1>13 DEF AcceptCommit
  <2>3. /\ ActiveIn(binding', u) = {Len(binding) + 1}
        /\ \A v : v # u => ActiveIn(binding', v) = ActiveIn(binding, v)
                           /\ (OwnsIn(binding', v) <=> OwnsIn(binding, v))
    <3>1. /\ ActiveIn(binding', u) = ActiveIn(binding, u) \cup {Len(binding) + 1}
          /\ \A v : v # u => ActiveIn(binding', v) = ActiveIn(binding, v)
                             /\ (OwnsIn(binding', v) <=> OwnsIn(binding, v))
      BY <1>2, <1>3, <2>1, <2>2, GrantedRows
    <3>2. QED
      BY <1>4, <2>1, <3>1
  <2>6. u \notin erased'
    BY <1>13, <2>1 DEF AcceptCommit
  <2>7. Account(u)'
    BY <1>7, <2>3, <2>6
  <2>9. Elsewhere(u)
    BY <1>13, <2>3 DEF AcceptCommit, Elsewhere
  <2>10. QED
    BY <1>1, <1>2, <2>7, <2>9
<1>14. CASE SwitchCommit(t)
  <2>1. ActiveRows(u) # {} /\ UNCHANGED <<binding, invitation, erased>>
    BY <1>3, <1>14 DEF SwitchCommit, Plan
  <2>2. Account(u)'
    BY <1>5, <1>14, <2>1 DEF SwitchCommit
  <2>3. Elsewhere(u)
    BY <1>14, <2>1 DEF SwitchCommit, Elsewhere
  <2>4. QED
    BY <1>1, <1>2, <2>2, <2>3
<1>15. QED
  BY <1>8, <1>9, <1>10, <1>11, <1>12, <1>13, <1>14 DEF Commit
\* Opening a request that no other is about, on what its decision has found.
LEMMA OpenKeepsCalm ==
  ASSUME MembershipInv, Calm, NEW t \in Txs, NEW op \in Ops, NEW u \in Users \cup Emails,
         NEW role, NEW i, Open(t, op, u, role, i), "member" \notin raced',
         op \in {"create", "accept"} => ActiveRows(u) = {},
         op \in {"replace", "switch"} => ActiveRows(u) # {},
         op \in {"create", "accept"} => u \notin erased
  PROVE  Calm'
<1> DEFINE r == [op |-> op, updated |-> FALSE, member |-> u, role |-> role,
                 invitation |-> i, rows |-> {}, mail |-> {}]
<1>1. r.op = op /\ r.member = u /\ r.updated = FALSE
  OBVIOUS
<1>2. /\ tx' = [tx EXCEPT ![t] = r] /\ tx[t] = NoTx
      /\ UNCHANGED <<clock, erased, email, binding, invitation, scoped>>
      /\ raced' = raced \cup Races(t, op, u, role)
  BY DEF Open
<1> HIDE DEF r
<1>3. \A s \in Txs : tx'[s] = IF s = t THEN r ELSE tx[s]
  BY <1>2 DEF MembershipInv, MembershipTypeOK
<1>4. \A s \in Txs \ {t} : ~(tx[s].op # "idle" /\ tx[s].member = u)
  <2>1. "member" \notin Races(t, op, u, role)
    BY <1>2
  <2>2. QED
    BY <2>1 DEF Races, Same
<1>5. Alone'
  BY <1>1, <1>3, <1>4 DEF Calm, Alone
<1>6. \A v : ActiveRows(v)' = ActiveRows(v)
  BY <1>2 DEF ActiveRows
<1>7. ASSUME NEW s \in Txs PROVE Plan(s)'
  <2>1. CASE s = t
    <3>1. tx'[s].member = u /\ tx'[s].op = op /\ tx'[s].updated = FALSE
      BY <1>1, <1>3, <2>1
    <3>2. QED
      BY <1>2, <1>6, <3>1 DEF Plan, ActiveRows
  <2>2. CASE s # t
    <3>1. tx'[s] = tx[s] /\ Plan(s)
      BY <1>3, <2>2 DEF Calm
    <3>2. QED
      BY <1>2, <3>1 DEF Plan, ActiveRows
  <2>3. QED
    BY <2>1, <2>2
<1>8. ASSUME NEW v \in Users PROVE Account(v)'
  BY <1>2, <1>6 DEF Calm, Account
<1>9. QED
  BY <1>5, <1>7, <1>8 DEF Calm

\* Every decision finds what OpenKeepsCalm asks for.
LEMMA DecideKeepsCalm ==
  ASSUME MembershipInv, Calm, NEW t \in Txs, Decide(t), "member" \notin raced'
  PROVE  Calm'
<1> USE RowsInTable
<1>1. ASSUME NEW a \in Users, NEW m \in Users, NEW role \in Roles, ReplaceDecide(t, a, m, role)
      PROVE  Calm'
  BY <1>1, OpenKeepsCalm DEF ReplaceDecide, Ops
<1>2. ASSUME NEW a \in Users, NEW m \in Users, OffboardDecide(t, a, m)
      PROVE  Calm'
  BY <1>2, OpenKeepsCalm DEF OffboardDecide, Ops
<1>3. ASSUME NEW u \in Users, CreateDecide(t, u)
      PROVE  Calm'
  <2>1. ActiveRows(u) = {} /\ u \notin erased /\ Open(t, "create", u, "OWNER", None)
    BY <1>3 DEF CreateDecide, ActiveRows
  <2>2. QED
    BY <2>1, OpenKeepsCalm DEF Ops
<1>4. ASSUME NEW u \in Users, EraseDecide(t, u)
      PROVE  Calm'
  BY <1>4, OpenKeepsCalm DEF EraseDecide, Ops
<1>5. ASSUME NEW u \in Users, SwitchDecide(t, u)
      PROVE  Calm'
  BY <1>5, OpenKeepsCalm DEF SwitchDecide, Ops
<1>6. ASSUME NEW a \in Users, NEW e \in Emails, NEW i \in Invitations, NEW role \in PlainRoles,
             InviteDecide(t, a, i, e, role)
      PROVE  Calm'
  BY <1>6, OpenKeepsCalm DEF InviteDecide, Ops
<1>7. ASSUME NEW u \in Users, NEW i \in Invitations, AcceptDecide(t, u, i)
      PROVE  Calm'
  BY <1>7, OpenKeepsCalm DEF AcceptDecide, Ops
<1>8. QED
  BY <1>1, <1>2, <1>3, <1>4, <1>5, <1>6, <1>7 DEF Decide

\* The UPDATE finds the rows of its member.
LEMMA UpdateKeepsCalm ==
  ASSUME MembershipInv, Calm, NEW t \in Txs, Update(t)
  PROVE  Calm'
<1>1. tx \in [Txs -> TxState] /\ UNCHANGED <<clock, erased, email, binding, invitation, scoped>>
  BY DEF MembershipInv, MembershipTypeOK, Update
<1>2. \A s \in Txs : s # t => tx'[s] = tx[s]
  BY <1>1 DEF Update
<1>3. /\ tx'[t].op = tx[t].op /\ tx'[t].member = tx[t].member
      /\ tx'[t].rows = IF tx[t].op = "invite" THEN {} ELSE ActiveRows(tx[t].member)
  BY <1>1 DEF Update, TxState
<1>4. \A v : ActiveRows(v)' = ActiveRows(v)
  BY <1>1 DEF ActiveRows
<1>5. Alone'
  BY <1>2, <1>3 DEF Calm, Alone
<1>6. ASSUME NEW s \in Txs PROVE Plan(s)'
  <2>1. CASE s = t
    <3>1. PICK u : u = tx[t].member /\ u = tx'[t].member
      BY <1>3
    <3>2. Plan(t)
      BY DEF Calm
    <3>3. QED
      BY <1>1, <1>3, <1>4, <2>1, <3>1, <3>2 DEF Plan
  <2>2. CASE s # t
    <3>1. tx'[s] = tx[s] /\ Plan(s)
      BY <1>2, <2>2 DEF Calm
    <3>2. QED
      BY <1>1, <3>1 DEF Plan, ActiveRows
  <2>3. QED
    BY <2>1, <2>2
<1>7. ASSUME NEW v \in Users PROVE Account(v)'
  BY <1>1, <1>4 DEF Calm, Account
<1>8. QED
  BY <1>5, <1>6, <1>7 DEF Calm

\* An invitation that is revoked, an address that is changed and a session that leaves the
\* organization are nobody's plan.
LEMMA OthersKeepCalm ==
  ASSUME MembershipInv, Calm, UNCHANGED <<erased, binding, tx>>, scoped' \subseteq scoped
  PROVE  Calm'
<1>1. \A v : ActiveRows(v)' = ActiveRows(v)
  BY DEF ActiveRows
<1>2. Alone'
  BY DEF Calm, Alone
<1>3. ASSUME NEW s \in Txs PROVE Plan(s)'
  <2>1. PICK u : u = tx[s].member /\ u = tx'[s].member
    OBVIOUS
  <2>2. Plan(s)
    BY DEF Calm
  <2>3. QED
    BY <1>1, <2>1, <2>2 DEF Plan
<1>4. ASSUME NEW v \in Users PROVE Account(v)'
  BY <1>1 DEF Calm, Account
<1>5. QED
  BY <1>2, <1>3, <1>4 DEF Calm

\* The observer forgets nothing.
LEMMA RacedGrows ==
  ASSUME [Next]_vars
  PROVE  raced \subseteq raced'
<1>1. ASSUME NEW t \in Txs, Decide(t) PROVE raced \subseteq raced'
  BY <1>1 DEF Decide, ReplaceDecide, OffboardDecide, CreateDecide, EraseDecide, SwitchDecide,
              InviteDecide, AcceptDecide, Open
<1>2. ASSUME NEW t \in Txs, Commit(t) PROVE raced' = raced
  BY <1>2 DEF Commit, CreateCommit, ReplaceCommit, OffboardCommit, EraseCommit, InviteCommit,
              AcceptCommit, SwitchCommit
<1>3. QED
  BY <1>1, <1>2 DEF Next, Update, Rollback, RevokeInvitation, ChangeEmail, Refresh, Tick, vars

\* CalmInv is inductive.
LEMMA CalmInvNext == MembershipInv /\ CalmInv /\ [Next]_vars => CalmInv'
<1> SUFFICES ASSUME MembershipInv, CalmInv, [Next]_vars PROVE CalmInv'
  OBVIOUS
<1>1. Founding' /\ Mailed'
  BY FoundingNext, MailedNext DEF CalmInv
<1> SUFFICES ASSUME "member" \notin raced' PROVE Calm'
  BY <1>1 DEF CalmInv, Calm
<1>2. Founding /\ Mailed /\ Calm
  BY RacedGrows DEF CalmInv, Calm
<1>3. ASSUME NEW t \in Txs, Decide(t) PROVE Calm'
  BY <1>2, <1>3, DecideKeepsCalm
<1>4. ASSUME NEW t \in Txs, Update(t) PROVE Calm'
  BY <1>2, <1>4, UpdateKeepsCalm
<1>5. ASSUME NEW t \in Txs, Commit(t) PROVE Calm'
  <2>1. PICK u : u = tx[t].member
    OBVIOUS
  <2>2. CASE tx[t].op = "invite"
    <3>1. tx[t].op # "idle" /\ Close(t) /\ UNCHANGED <<erased, binding, scoped>> /\ u \notin Users
      BY <1>5, <2>1, <2>2, MembershipAssumption
      DEF Commit, CreateCommit, ReplaceCommit, OffboardCommit, EraseCommit, InviteCommit, AcceptCommit,
          SwitchCommit, MembershipInv, HeldBy
    <3>2. Elsewhere(u)
      BY <3>1 DEF Elsewhere
    <3>3. QED
      BY <1>2, <2>1, <3>1, <3>2, CloseKeepsCalm
  <2>3. CASE tx[t].op # "invite"
    <3>1. tx[t].op # "idle" /\ Close(t) /\ Elsewhere(u) /\ Account(u)'
      BY <1>2, <1>5, <2>1, <2>3, CommitsCalmly
    <3>2. QED
      BY <1>2, <2>1, <3>1, CloseKeepsCalm
  <2>4. QED
    BY <2>2, <2>3
<1>6. ASSUME NEW t \in Txs, Rollback(t) PROVE Calm'
  <2>1. PICK u : u = tx[t].member
    OBVIOUS
  <2>2. tx[t].op # "idle" /\ Close(t) /\ UNCHANGED <<clock, erased, email, binding, invitation, scoped, raced>>
    BY <1>6 DEF Rollback, MembershipInv, HeldBy
  <2>3. u \in Users => Account(u)
    BY <1>2 DEF Calm
  <2>4. Elsewhere(u) /\ (u \in Users => Account(u)')
    BY <2>2, <2>3 DEF Elsewhere, Account, ActiveRows
  <2>5. QED
    BY <1>2, <2>1, <2>2, <2>4, CloseKeepsCalm
<1>7. CASE UNCHANGED <<erased, binding, tx>> /\ scoped' \subseteq scoped
  BY <1>2, <1>7, OthersKeepCalm
<1>8. QED
  BY <1>3, <1>4, <1>5, <1>6, <1>7 DEF Next, RevokeInvitation, Refresh, ChangeEmail, Tick, vars

\* Nobody has a request open before the first step.
LEMMA CalmInvInit == Init => CalmInv
<1> SUFFICES ASSUME Init PROVE CalmInv
  OBVIOUS
<1>1. /\ \A t \in Txs : tx[t] = NoTx
      /\ \A i \in Invitations : invitation[i] = NoInvitation
      /\ \A u : ActiveRows(u) = {}
  BY DEF Init, ActiveRows
<1>2. Founding /\ Mailed
  BY <1>1, TxRows DEF Founding, Mailed, NoInvitation, NoTx
<1>3. Alone /\ (\A t \in Txs : Plan(t)) /\ (\A u \in Users : Account(u))
  BY <1>1, TxRows DEF Alone, Plan, Account, Init
<1>4. QED
  BY <1>2, <1>3 DEF CalmInv

\* A set of at most one element, counted.
LEMMA AtMostOne ==
  ASSUME NEW S, \A x, y \in S : x = y
  PROVE  Cardinality(S) <= 1
<1>1. CASE S = {}
  <2>1. Cardinality({}) = 0
    BY FS_EmptySet
  <2>2. QED
    BY <1>1, <2>1
<1>2. CASE S # {}
  <2>1. PICK x : x \in S
    BY <1>2
  <2>2. S = {x}
    BY <2>1
  <2>3. Cardinality({x}) = 1
    BY FS_Singleton
  <2>4. QED
    BY <2>2, <2>3
<1>3. QED
  BY <1>1, <1>2

\* replace_member_role and accept_organization_invitation leave a member with one role,
\* whatever else happens, unless two requests about one member overlapped.
THEOREM MembersHaveOneRole == Spec => []OneRoleUnlessRaced
<1>1. CalmInv => OneRoleUnlessRaced
  <2> SUFFICES ASSUME CalmInv, "member" \notin raced, NEW u \in Users
               PROVE  Cardinality(ActiveRows(u)) <= 1
    BY DEF OneRoleUnlessRaced
  <2>1. \A j, k \in ActiveRows(u) : j = k
    BY DEF CalmInv, Account
  <2>2. QED
    BY <2>1, AtMostOne
<1>2. QED
  BY <1>1, MembershipInvInit, MembershipInvNext, CalmInvInit, CalmInvNext, PTL DEF Spec

-----------------------------------------------------------------------------
(***************************************************************************)
(* Addresses.  As long as no member moves to an invited address either, an *)
(* open invitation is to an address no member has and no other request is  *)
(* about, and a pending one is to nobody who is a member (Posted).         *)
(***************************************************************************)
PendingIn(inv, e) == {i \in Invitations : e # None /\ inv[i].invitee = e /\ inv[i].state = "pending"}

\* The address a request is about.
AddressIn(T, mail, t) == IF T[t].op = "invite" THEN T[t].member ELSE mail[T[t].member]

\* Requests, addresses, invitations and bindings that go together.
Posted(T, mail, inv, table) ==
  /\ \A s, t \in Txs : s # t /\ T[s].op = "invite" /\ T[t].op # "idle" => T[s].member # AddressIn(T, mail, t)
  /\ \A t \in Txs : T[t].op = "invite" =>
       \A u \in Users : mail[u] = T[t].member => ActiveIn(table, u) = {}
  /\ \A t \in Txs : T[t].op = "invite" /\ T[t].updated => PendingIn(inv, T[t].member) \subseteq T[t].mail
  /\ \A t \in Txs : T[t].op = "accept" => PendingIn(inv, mail[T[t].member]) \subseteq {T[t].invitation}
  /\ \A e \in Emails : \A i, j \in PendingIn(inv, e) : i = j
  /\ \A u \in Users : ActiveIn(table, u) # {} => PendingIn(inv, mail[u]) = {}

PostInv == "member" \notin raced /\ "address" \notin raced => Posted(tx, email, invitation, binding)

\* Nothing is sent to no address.
LEMMA NoAddress ==
  ASSUME NEW inv PROVE PendingIn(inv, None) = {}
  BY DEF PendingIn

LEMMA PendingInTable == \A e : PendingFor(e) = PendingIn(invitation, e)
  BY DEF PendingFor, SentTo, PendingIn

\* A step that opens no request, sends no invitation and takes addresses away at most; whoever
\* becomes a member by it is not invited.
LEMMA StepKeepsPosted ==
  ASSUME MembershipInv, Posted(tx, email, invitation, binding),
         \A u \in Users : email'[u] \in {email[u], None},
         \A s \in Txs : tx'[s] = tx[s] \/ tx'[s].op = "idle",
         \A e : PendingIn(invitation', e) \subseteq PendingIn(invitation, e),
         \A u \in Users : ActiveIn(binding', u) # {} =>
           \/ ActiveIn(binding, u) # {}
           \/ /\ PendingIn(invitation', email[u]) = {}
              /\ \A s \in Txs : tx'[s].op = "invite" => tx'[s].member # email[u]
  PROVE  Posted(tx', email', invitation', binding')
<1>1. \A s \in Txs : tx'[s].op # "idle" => tx'[s] = tx[s] /\ HeldBy(s)
  BY DEF MembershipInv
<1>2. /\ \A e \in Emails : e # None
      /\ PendingIn(invitation', None) = {}
  BY MembershipAssumption, NoAddress
<1>3. ASSUME NEW s \in Txs, NEW t \in Txs, s # t, tx'[s].op = "invite", tx'[t].op # "idle"
      PROVE  tx'[s].member # AddressIn(tx', email', t)
  <2>1. tx'[s] = tx[s] /\ tx'[t] = tx[t] /\ tx[s].member \in Emails
    BY <1>1, <1>3 DEF HeldBy
  <2>2. tx[s].member # AddressIn(tx, email, t)
    BY <1>3, <2>1 DEF Posted
  <2>3. CASE tx[t].op = "invite"
    BY <2>1, <2>2, <2>3 DEF AddressIn
  <2>4. CASE tx[t].op # "invite"
    <3>1. tx[t].member \in Users
      BY <1>1, <1>3, <2>1, <2>4 DEF HeldBy
    <3>2. QED
      BY <1>2, <2>1, <2>2, <2>4, <3>1 DEF AddressIn
  <2>5. QED
    BY <2>3, <2>4
<1>4. ASSUME NEW t \in Txs, tx'[t].op = "invite", NEW u \in Users, email'[u] = tx'[t].member
      PROVE  ActiveIn(binding', u) = {}
  <2>1. tx'[t] = tx[t] /\ tx[t].member \in Emails /\ tx[t].op = "invite"
    BY <1>1, <1>4 DEF HeldBy
  <2>2. email[u] = tx[t].member
    BY <1>2, <1>4, <2>1
  <2>3. ActiveIn(binding, u) = {}
    BY <2>1, <2>2 DEF Posted
  <2>4. QED
    BY <1>4, <2>1, <2>2, <2>3
<1>5. ASSUME NEW t \in Txs, tx'[t].op = "invite", tx'[t].updated
      PROVE  PendingIn(invitation', tx'[t].member) \subseteq tx'[t].mail
  <2>1. tx'[t] = tx[t]
    BY <1>1, <1>5
  <2>2. PendingIn(invitation, tx[t].member) \subseteq tx[t].mail
    BY <1>5, <2>1 DEF Posted
  <2>3. QED
    BY <2>1, <2>2
<1>6. ASSUME NEW t \in Txs, tx'[t].op = "accept"
      PROVE  PendingIn(invitation', email'[tx'[t].member]) \subseteq {tx'[t].invitation}
  <2>1. tx'[t] = tx[t] /\ tx[t].member \in Users /\ tx[t].op = "accept"
    BY <1>1, <1>6 DEF HeldBy
  <2>2. PendingIn(invitation, email[tx[t].member]) \subseteq {tx[t].invitation}
    BY <2>1 DEF Posted
  <2>3. email'[tx[t].member] \in {email[tx[t].member], None}
    BY <2>1
  <2>4. QED
    BY <1>2, <2>1, <2>2, <2>3
<1>7. \A e \in Emails : \A i, j \in PendingIn(invitation', e) : i = j
  BY DEF Posted
<1>8. ASSUME NEW u \in Users, ActiveIn(binding', u) # {} PROVE PendingIn(invitation', email'[u]) = {}
  <2>1. ActiveIn(binding, u) # {} => PendingIn(invitation, email[u]) = {}
    BY DEF Posted
  <2>2. PendingIn(invitation', email[u]) = {}
    BY <1>8, <2>1
  <2>3. QED
    BY <1>2, <2>2
<1>9. QED
  BY <1>3, <1>4, <1>5, <1>6, <1>7, <1>8 DEF Posted

\* Opening a request.
LEMMA OpenKeepsPosted ==
  ASSUME MembershipInv, Posted(tx, email, invitation, binding), NEW t \in Txs, NEW op \in Ops,
         NEW u \in Users \cup Emails, NEW role, NEW i, Open(t, op, u, role, i), "member" \notin raced',
         op = "invite" => u \in Emails /\ \A v \in Users : email[v] = u => ActiveIn(binding, v) = {},
         op # "invite" => u \in Users,
         op = "accept" => i \in PendingIn(invitation, email[u])
  PROVE  Posted(tx', email', invitation', binding')
<1> DEFINE r == [op |-> op, updated |-> FALSE, member |-> u, role |-> role,
                 invitation |-> i, rows |-> {}, mail |-> {}]
<1>1. r.op = op /\ r.member = u /\ r.updated = FALSE /\ r.invitation = i /\ op # "idle"
  BY DEF Ops
<1>2. /\ tx' = [tx EXCEPT ![t] = r] /\ tx[t] = NoTx
      /\ UNCHANGED <<clock, erased, email, binding, invitation, scoped>>
      /\ raced' = raced \cup Races(t, op, u, role)
  BY DEF Open
<1> HIDE DEF r
<1>3. \A s \in Txs : tx'[s] = IF s = t THEN r ELSE tx[s]
  BY <1>2 DEF MembershipInv, MembershipTypeOK
<1>4. \A s \in Txs \ {t} : tx[s].op # "idle" => ~Same(tx[s].member, u)
  <2>1. "member" \notin Races(t, op, u, role)
    BY <1>2
  <2>2. QED
    BY <2>1 DEF Races
<1>5. \A s \in Txs : HeldBy(s)
  BY DEF MembershipInv
<1>6. ASSUME NEW s \in Txs \ {t}, tx[s].op # "idle"
      PROVE  /\ tx[s].op = "invite" => tx[s].member # (IF op = "invite" THEN u ELSE email[u])
             /\ op = "invite" => u # AddressIn(tx, email, s)
  <2>1. ~Same(tx[s].member, u) /\ HeldBy(s)
    BY <1>4, <1>5, <1>6
  <2>2. QED
    BY <1>6, <2>1 DEF Same, HeldBy, AddressIn
<1>7. ASSUME NEW s \in Txs, NEW v \in Txs, s # v, tx'[s].op = "invite", tx'[v].op # "idle"
      PROVE  tx'[s].member # AddressIn(tx', email', v)
  <2>1. CASE s = t
    BY <1>1, <1>2, <1>3, <1>6, <1>7, <2>1 DEF AddressIn
  <2>2. CASE v = t
    BY <1>1, <1>2, <1>3, <1>6, <1>7, <2>2 DEF AddressIn
  <2>3. CASE s # t /\ v # t
    BY <1>2, <1>3, <1>7, <2>3 DEF Posted, AddressIn
  <2>4. QED
    BY <2>1, <2>2, <2>3
<1>8. op = "accept" => PendingIn(invitation, email[u]) \subseteq {i}
  <2>1. SUFFICES ASSUME op = "accept" PROVE PendingIn(invitation, email[u]) \subseteq {i}
    OBVIOUS
  <2>2. u \in Users /\ email[u] # None
    BY <2>1 DEF PendingIn
  <2>3. email[u] \in Emails
    BY <2>2 DEF MembershipInv, MembershipTypeOK
  <2>4. QED
    BY <2>1, <2>3 DEF Posted
<1>9. ASSUME NEW s \in Txs
      PROVE  /\ tx'[s].op = "invite" =>
                  \A v \in Users : email'[v] = tx'[s].member => ActiveIn(binding', v) = {}
             /\ tx'[s].op = "invite" /\ tx'[s].updated =>
                  PendingIn(invitation', tx'[s].member) \subseteq tx'[s].mail
             /\ tx'[s].op = "accept" =>
                  PendingIn(invitation', email'[tx'[s].member]) \subseteq {tx'[s].invitation}
  <2>1. CASE s = t
    BY <1>1, <1>2, <1>3, <1>8, <2>1
  <2>2. CASE s # t
    BY <1>2, <1>3, <2>2 DEF Posted
  <2>3. QED
    BY <2>1, <2>2
<1>10. /\ \A e \in Emails : \A j, k \in PendingIn(invitation', e) : j = k
       /\ \A v \in Users : ActiveIn(binding', v) # {} => PendingIn(invitation', email'[v]) = {}
  BY <1>2 DEF Posted
<1>11. QED
  BY <1>7, <1>9, <1>10 DEF Posted

\* Every decision finds what OpenKeepsPosted asks for.
LEMMA DecideKeepsPosted ==
  ASSUME MembershipInv, Posted(tx, email, invitation, binding), NEW t \in Txs, Decide(t),
         "member" \notin raced'
  PROVE  Posted(tx', email', invitation', binding')
<1>1. ASSUME NEW a \in Users, NEW e \in Emails, NEW i \in Invitations, NEW role \in PlainRoles,
             InviteDecide(t, a, i, e, role)
      PROVE  Posted(tx', email', invitation', binding')
  <2>1. /\ Open(t, "invite", e, role, i)
        /\ \A v \in Users : email[v] = e => ActiveIn(binding, v) = {}
    BY <1>1, RowsInTable DEF InviteDecide
  <2>2. QED
    BY <2>1, OpenKeepsPosted DEF Ops
<1>2. ASSUME NEW u \in Users, NEW i \in Invitations, AcceptDecide(t, u, i)
      PROVE  Posted(tx', email', invitation', binding')
  <2>1. Open(t, "accept", u, invitation[i].role, i) /\ i \in PendingIn(invitation, email[u])
    BY <1>2 DEF AcceptDecide, SentTo, PendingIn
  <2>2. QED
    BY <2>1, OpenKeepsPosted DEF Ops
<1>3. ASSUME NEW op \in Ops \ {"invite", "accept"}, NEW u \in Users, NEW role, NEW i, Open(t, op, u, role, i)
      PROVE  Posted(tx', email', invitation', binding')
  BY <1>3, OpenKeepsPosted
<1>4. {"replace", "offboard", "create", "erase", "switch"} \subseteq Ops \ {"invite", "accept"}
  BY DEF Ops
<1>5. QED
  BY <1>1, <1>2, <1>3, <1>4
  DEF Decide, ReplaceDecide, OffboardDecide, CreateDecide, EraseDecide, SwitchDecide

\* The UPDATE of an inviting request finds what is pending for its address.
LEMMA UpdateKeepsPosted ==
  ASSUME MembershipInv, Posted(tx, email, invitation, binding), NEW t \in Txs, Update(t)
  PROVE  Posted(tx', email', invitation', binding')
<1>1. tx \in [Txs -> TxState] /\ UNCHANGED <<clock, erased, email, binding, invitation, scoped>>
  BY DEF MembershipInv, MembershipTypeOK, Update
<1>2. \A s \in Txs : s # t => tx'[s] = tx[s]
  BY <1>1 DEF Update
<1>3. /\ tx'[t].op = tx[t].op /\ tx'[t].member = tx[t].member /\ tx'[t].invitation = tx[t].invitation
      /\ tx[t].op = "invite" => tx'[t].mail = PendingFor(tx[t].member)
  BY <1>1 DEF Update, TxState
<1>4. \A s \in Txs : /\ tx'[s].op = tx[s].op /\ tx'[s].member = tx[s].member
                     /\ tx'[s].invitation = tx[s].invitation
  BY <1>2, <1>3
<1>5. \A s \in Txs : AddressIn(tx', email', s) = AddressIn(tx, email, s)
  BY <1>1, <1>4 DEF AddressIn
<1>6. ASSUME NEW s \in Txs, tx'[s].op = "invite", tx'[s].updated
      PROVE  PendingIn(invitation', tx'[s].member) \subseteq tx'[s].mail
  <2>1. CASE s = t
    BY <1>1, <1>3, <1>6, <2>1, PendingInTable
  <2>2. CASE s # t
    BY <1>1, <1>2, <1>6, <2>2 DEF Posted
  <2>3. QED
    BY <2>1, <2>2
<1>7. /\ \A s, v \in Txs : s # v /\ tx'[s].op = "invite" /\ tx'[v].op # "idle" =>
           tx'[s].member # AddressIn(tx', email', v)
      /\ \A s \in Txs : tx'[s].op = "invite" =>
           \A u \in Users : email'[u] = tx'[s].member => ActiveIn(binding', u) = {}
      /\ \A s \in Txs : tx'[s].op = "accept" =>
           PendingIn(invitation', email'[tx'[s].member]) \subseteq {tx'[s].invitation}
  BY <1>1, <1>4, <1>5 DEF Posted
<1>8. /\ \A e \in Emails : \A i, j \in PendingIn(invitation', e) : i = j
      /\ \A u \in Users : ActiveIn(binding', u) # {} => PendingIn(invitation', email'[u]) = {}
  BY <1>1 DEF Posted
<1>9. QED
  BY <1>6, <1>7, <1>8 DEF Posted

\* create_organization_invitation: the new invitation is the only one to its address.
LEMMA InviteKeepsPosted ==
  ASSUME MembershipInv, Mailed, Posted(tx, email, invitation, binding), NEW t \in Txs, InviteCommit(t)
  PROVE  Posted(tx', email', invitation', binding')
<1> DEFINE new == [state |-> "pending", invitee |-> tx[t].member, role |-> tx[t].role,
                   expires_at |-> clock + InviteTTL]
<1>1. PICK i, e : i = tx[t].invitation /\ e = tx[t].member
  OBVIOUS
<1>2. /\ tx[t].op = "invite" /\ tx[t].updated /\ Close(t) /\ UNCHANGED <<erased, email, binding>>
      /\ i \in Invitations /\ e \in Emails /\ invitation[i].state = "absent"
      /\ PendingIn(invitation, e) \subseteq tx[t].mail
  BY <1>1 DEF InviteCommit, MembershipInv, HeldBy, Posted
<1>3. \A s \in Txs : tx'[s] = IF s = t THEN NoTx ELSE tx[s]
  BY <1>2 DEF Close, MembershipInv, MembershipTypeOK
<1>4. new.invitee = e /\ new.state = "pending"
  BY <1>1
<1>5. invitation' = [j \in Invitations |->
        CASE j = i -> new
          [] j \in tx[t].mail /\ invitation[j].state = "pending" ->
               [invitation[j] EXCEPT !.state = "revoked"]
          [] OTHER -> invitation[j]]
  BY <1>1 DEF InviteCommit
<1> HIDE DEF new
<1>6. \A j \in Invitations :
        \/ j = i /\ invitation'[j] = new
        \/ j # i /\ j \in tx[t].mail /\ invitation'[j].state # "pending"
        \/ j # i /\ j \notin tx[t].mail /\ invitation'[j] = invitation[j]
  <2>1. invitation \in [Invitations -> InvitationRow]
    BY DEF MembershipInv, MembershipTypeOK
  <2>2. QED
    BY <1>2, <1>5, <2>1 DEF InvitationRow
<1>7. PendingIn(invitation', e) \subseteq {i}
  BY <1>2, <1>6 DEF PendingIn
<1>8. \A f : f # e => PendingIn(invitation', f) \subseteq PendingIn(invitation, f)
  BY <1>4, <1>6 DEF PendingIn
<1>9. \A s \in Txs : tx'[s].op # "idle" => s # t /\ tx'[s] = tx[s]
  BY <1>3, TxRows
<1>10. \A s \in Txs : tx'[s].op # "idle" => AddressIn(tx', email', s) = AddressIn(tx, email, s) /\ AddressIn(tx, email, s) # e
  BY <1>1, <1>2, <1>9 DEF Posted, AddressIn
<1>11. \A s, v \in Txs : s # v /\ tx'[s].op = "invite" /\ tx'[v].op # "idle" => tx'[s].member # AddressIn(tx', email', v)
  BY <1>9, <1>10 DEF Posted
<1>12. ASSUME NEW s \in Txs
       PROVE  /\ tx'[s].op = "invite" => \A u \in Users : email'[u] = tx'[s].member => ActiveIn(binding', u) = {}
              /\ tx'[s].op = "invite" /\ tx'[s].updated => PendingIn(invitation', tx'[s].member) \subseteq tx'[s].mail
              /\ tx'[s].op = "accept" => PendingIn(invitation', email'[tx'[s].member]) \subseteq {tx'[s].invitation}
  <2>1. CASE tx'[s].op \notin {"invite", "accept"}
    BY <2>1
  <2>2. CASE tx'[s].op = "invite"
    <3>1. tx'[s] = tx[s] /\ tx[s].member # e
      BY <1>9, <1>10, <2>2 DEF AddressIn
    <3>2. QED
      BY <1>2, <1>8, <2>2, <3>1 DEF Posted
  <2>3. CASE tx'[s].op = "accept"
    <3>1. tx'[s] = tx[s] /\ email[tx[s].member] # e
      BY <1>9, <1>10, <2>3 DEF AddressIn
    <3>2. QED
      BY <1>2, <1>8, <2>3, <3>1 DEF Posted
  <2>4. QED
    BY <2>1, <2>2, <2>3
<1>13. \A f \in Emails : \A j, k \in PendingIn(invitation', f) : j = k
  BY <1>7, <1>8 DEF Posted
<1>14. ASSUME NEW u \in Users, ActiveIn(binding', u) # {} PROVE PendingIn(invitation', email'[u]) = {}
  <2>1. ActiveIn(binding, u) # {} /\ email[u] # e
    BY <1>1, <1>2, <1>14 DEF Posted
  <2>2. QED
    BY <1>2, <1>8, <2>1 DEF Posted
<1>15. QED
  BY <1>11, <1>12, <1>13, <1>14 DEF Posted

\* verify_contact_change, of somebody who is no member and has no request open, or to an
\* address nobody is invited to.
LEMMA ChangeKeepsPosted ==
  ASSUME MembershipInv, Posted(tx, email, invitation, binding), NEW u \in Users, NEW e \in Emails,
         ChangeEmail(u, e), "address" \notin raced'
  PROVE  Posted(tx', email', invitation', binding')
<1>1. UNCHANGED <<binding, invitation, tx>> /\ \A v \in Users : email'[v] = IF v = u THEN e ELSE email[v]
  BY DEF ChangeEmail, MembershipInv, MembershipTypeOK
<1>2. \/ ActiveIn(binding, u) = {} /\ \A s \in Txs : tx[s].member # u
      \/ PendingIn(invitation, e) = {} /\ \A s \in Txs : tx[s].member # e
  BY RowsInTable, PendingInTable DEF ChangeEmail
<1>3. \A s \in Txs : HeldBy(s)
  BY DEF MembershipInv
<1>4. ASSUME NEW s \in Txs, NEW t \in Txs, s # t, tx[s].op = "invite", tx[t].op # "idle"
      PROVE  tx[s].member # AddressIn(tx, email', t)
  <2>1. tx[s].member # AddressIn(tx, email, t) /\ (tx[t].op # "invite" => tx[t].member \in Users)
    BY <1>3, <1>4 DEF Posted, HeldBy
  <2>2. CASE tx[t].member = u /\ tx[t].op # "invite"
    BY <1>1, <1>2, <2>2 DEF AddressIn
  <2>3. CASE tx[t].member # u \/ tx[t].op = "invite"
    BY <1>1, <2>1, <2>3 DEF AddressIn
  <2>4. QED
    BY <2>2, <2>3
<1>5. ASSUME NEW t \in Txs, tx[t].op = "invite", NEW v \in Users, email'[v] = tx[t].member
      PROVE  ActiveIn(binding, v) = {}
  <2>1. CASE v = u
    BY <1>1, <1>2, <1>5, <2>1
  <2>2. CASE v # u
    BY <1>1, <1>5, <2>2 DEF Posted
  <2>3. QED
    BY <2>1, <2>2
<1>6. ASSUME NEW t \in Txs, tx[t].op = "accept"
      PROVE  PendingIn(invitation, email'[tx[t].member]) \subseteq {tx[t].invitation}
  <2>1. tx[t].member \in Users /\ PendingIn(invitation, email[tx[t].member]) \subseteq {tx[t].invitation}
    BY <1>3, <1>6 DEF HeldBy, Posted
  <2>2. CASE tx[t].member = u
    BY <1>1, <1>2, <2>2
  <2>3. CASE tx[t].member # u
    BY <1>1, <2>1, <2>3
  <2>4. QED
    BY <2>2, <2>3
<1>7. ASSUME NEW v \in Users, ActiveIn(binding, v) # {} PROVE PendingIn(invitation, email'[v]) = {}
  <2>1. CASE v = u
    BY <1>1, <1>2, <1>7, <2>1
  <2>2. CASE v # u
    BY <1>1, <1>7, <2>2 DEF Posted
  <2>3. QED
    BY <2>1, <2>2
<1>8. /\ \A t \in Txs : tx[t].op = "invite" /\ tx[t].updated => PendingIn(invitation, tx[t].member) \subseteq tx[t].mail
      /\ \A f \in Emails : \A i, j \in PendingIn(invitation, f) : i = j
  BY DEF Posted
<1>9. Posted(tx, email', invitation, binding)
  BY <1>4, <1>5, <1>6, <1>7, <1>8 DEF Posted
<1>10. QED
  BY <1>1, <1>9

\* The other commits let nobody in who is invited: an accepting request has used the only
\* invitation to its address.
LEMMA CommitKeepsPosted ==
  ASSUME MembershipInv, Founding, Mailed, Calm, Posted(tx, email, invitation, binding), NEW t \in Txs,
         Commit(t), tx[t].op # "invite"
  PROVE  Posted(tx', email', invitation', binding')
<1>1. PICK u : u = tx[t].member
  OBVIOUS
<1>2. u \in Users /\ tx[t].op # "idle" /\ Close(t) /\ Elsewhere(u)
  BY <1>1, CommitsCalmly
<1>3. \A s \in Txs : tx'[s] = tx[s] \/ tx'[s].op = "idle"
  BY <1>2, TxRows DEF Close, MembershipInv, MembershipTypeOK
<1>4. \A s \in Txs : tx'[s].op = "invite" => s # t /\ tx[s].op = "invite" /\ tx'[s].member = tx[s].member
  BY <1>2, TxRows DEF Close, MembershipInv, MembershipTypeOK
<1>5. \A v \in Users : email'[v] \in {email[v], None}
  BY DEF Commit, CreateCommit, ReplaceCommit, OffboardCommit, EraseCommit, InviteCommit, AcceptCommit,
         SwitchCommit, MembershipInv, MembershipTypeOK
<1>6. ASSUME NEW e PROVE PendingIn(invitation', e) \subseteq PendingIn(invitation, e)
  <2>1. invitation \in [Invitations -> InvitationRow]
    BY DEF MembershipInv, MembershipTypeOK
  <2>2. CASE EraseCommit(t)
    BY <2>1, <2>2 DEF EraseCommit, InvitationRow, PendingIn
  <2>3. CASE AcceptCommit(t)
    BY <2>1, <2>3 DEF AcceptCommit, InvitationRow, PendingIn
  <2>4. QED
    BY <2>2, <2>3 DEF Commit, CreateCommit, ReplaceCommit, OffboardCommit, InviteCommit, SwitchCommit
<1>7. \A v \in Users \ {u} : ActiveIn(binding', v) = ActiveIn(binding, v)
  BY <1>2 DEF Elsewhere
<1>8. ASSUME ActiveIn(binding', u) # {}, ActiveIn(binding, u) = {}
      PROVE  /\ PendingIn(invitation', email[u]) = {}
             /\ \A s \in Txs : tx'[s].op = "invite" => tx'[s].member # email[u]
  <2>1. \A s \in Txs : tx'[s].op = "invite" => tx'[s].member # email[u]
    <3>1. AddressIn(tx, email, t) = email[u]
      BY <1>1 DEF AddressIn
    <3>2. QED
      BY <1>2, <1>4, <3>1 DEF Posted
  <2>2. CASE CreateCommit(t)
    BY <2>1, <2>2 DEF CreateCommit, Founding, PendingIn
  <2>3. CASE AcceptCommit(t)
    <3>1. PICK i \in Invitations : i = tx[t].invitation
      BY <2>3 DEF AcceptCommit, MembershipInv, HeldBy
    <3>2. PendingIn(invitation, email[u]) \subseteq {i}
      BY <1>1, <2>3, <3>1 DEF AcceptCommit, Posted
    <3>3. invitation'[i].state = "accepted"
      BY <2>3, <3>1 DEF AcceptCommit, MembershipInv, MembershipTypeOK, InvitationRow
    <3>4. PendingIn(invitation', email[u]) \subseteq {i} /\ i \notin PendingIn(invitation', email[u])
      BY <1>6, <3>2, <3>3 DEF PendingIn
    <3>5. QED
      BY <2>1, <3>4
  <2>4. CASE ReplaceCommit(t) \/ SwitchCommit(t)
    <3>1. ActiveRows(u) # {}
      BY <1>1, <2>4 DEF ReplaceCommit, SwitchCommit, Calm, Plan
    <3>2. QED
      BY <1>8, <3>1, RowsInTable
  <2>5. CASE OffboardCommit(t) \/ EraseCommit(t)
    <3>1. binding' = Revoked(ActiveRows(u)) /\ MembershipTypeOK
      BY <1>1, <2>5 DEF OffboardCommit, EraseCommit, Calm, Plan, MembershipInv
    <3>2. QED
      BY <1>8, <3>1, RevokedRows
  <2>6. QED
    BY <2>2, <2>3, <2>4, <2>5 DEF Commit, InviteCommit
<1>9. \A v \in Users : ActiveIn(binding', v) # {} =>
        \/ ActiveIn(binding, v) # {}
        \/ /\ PendingIn(invitation', email[v]) = {}
           /\ \A s \in Txs : tx'[s].op = "invite" => tx'[s].member # email[v]
  BY <1>7, <1>8
<1>10. QED
  BY <1>3, <1>5, <1>6, <1>9, StepKeepsPosted

\* PostInv is inductive.
LEMMA PostInvNext == MembershipInv /\ CalmInv /\ PostInv /\ [Next]_vars => PostInv'
<1> SUFFICES ASSUME MembershipInv, CalmInv, PostInv, [Next]_vars, "member" \notin raced', "address" \notin raced'
             PROVE  Posted(tx', email', invitation', binding')
  BY DEF PostInv
<1>1. Posted(tx, email, invitation, binding) /\ Founding /\ Mailed /\ Calm
  BY RacedGrows DEF CalmInv, Calm, PostInv
<1>2. ASSUME UNCHANGED <<email, binding>>, \A s \in Txs : tx'[s] = tx[s] \/ tx'[s].op = "idle",
             \A i \in Invitations : invitation'[i] = invitation[i] \/ invitation'[i].state # "pending"
      PROVE  Posted(tx', email', invitation', binding')
  <2>1. \A e : PendingIn(invitation', e) \subseteq PendingIn(invitation, e)
    BY <1>2 DEF PendingIn
  <2>2. QED
    BY <1>1, <1>2, <2>1, StepKeepsPosted
<1>3. ASSUME NEW t \in Txs, Commit(t), tx[t].op = "invite" PROVE Posted(tx', email', invitation', binding')
  BY <1>1, <1>3, InviteKeepsPosted
  DEF Commit, CreateCommit, ReplaceCommit, OffboardCommit, EraseCommit, AcceptCommit, SwitchCommit
<1>4. ASSUME NEW t \in Txs, Rollback(t) PROVE Posted(tx', email', invitation', binding')
  <2>1. \A s \in Txs : tx'[s] = tx[s] \/ tx'[s].op = "idle"
    BY <1>4, TxRows DEF Rollback, Close, MembershipInv, MembershipTypeOK
  <2>2. QED
    BY <1>2, <1>4, <2>1 DEF Rollback
<1>5. ASSUME NEW i \in Invitations, RevokeInvitation(i) PROVE Posted(tx', email', invitation', binding')
  <2>1. \A j \in Invitations : invitation'[j] = invitation[j] \/ invitation'[j].state # "pending"
    BY <1>5 DEF RevokeInvitation, MembershipInv, MembershipTypeOK, InvitationRow
  <2>2. QED
    BY <1>2, <1>5, <2>1 DEF RevokeInvitation
<1>6. CASE UNCHANGED <<email, binding, tx, invitation>>
  BY <1>2, <1>6
<1>7. QED
  BY <1>1, <1>3, <1>4, <1>5, <1>6, DecideKeepsPosted, UpdateKeepsPosted, CommitKeepsPosted, ChangeKeepsPosted
  DEF Next, Refresh, Tick, vars

\* offboard_member and execute_erasure leave no scoped session behind, unless two requests
\* about one member overlapped; and no invitation that would undo them, unless a member moved
\* to an address that was invited (verify_contact_change).
THEOREM OutsidersStayOut == Spec => []OutsidersUnlessRaced
<1>1. Init => PostInv
  <2> SUFFICES ASSUME Init PROVE Posted(tx, email, invitation, binding)
    BY DEF PostInv
  <2>1. /\ \A t \in Txs : tx[t].op = "idle"
        /\ \A u : ActiveIn(binding, u) = {}
        /\ \A e : PendingIn(invitation, e) = {}
    BY TxRows DEF Init, ActiveIn, PendingIn, NoInvitation
  <2>2. QED
    BY <2>1 DEF Posted
<1>2. MembershipInv /\ CalmInv /\ PostInv => OutsidersUnlessRaced
  <2> SUFFICES ASSUME MembershipInv, CalmInv, PostInv, "member" \notin raced
               PROVE  /\ \A u \in scoped : RolesOf(u) # {}
                      /\ "address" \notin raced => \A u \in Users : RolesOf(u) # {} => PendingFor(email[u]) = {}
    BY DEF OutsidersUnlessRaced
  <2>1. \A u \in scoped : RolesOf(u) # {}
    BY RowsInTable DEF CalmInv, Account, MembershipInv, MembershipTypeOK
  <2>2. ASSUME "address" \notin raced, NEW u \in Users, RolesOf(u) # {} PROVE PendingFor(email[u]) = {}
    <3>1. ActiveIn(binding, u) # {} /\ Posted(tx, email, invitation, binding)
      BY <2>2, RowsInTable DEF PostInv
    <3>2. QED
      BY <3>1, PendingInTable DEF Posted
  <2>3. QED
    BY <2>1, <2>2
<1>3. QED
  BY <1>1, <1>2, MembershipInvInit, MembershipInvNext, CalmInvInit, CalmInvNext, PostInvNext, PTL DEF Spec
-----------------------------------------------------------------------------
\* An owner who has an active row is not erased.
LEMMA OwnersAreThere ==
  ASSUME Calm, NEW u \in Owners
  PROVE  u \notin erased
<1>1. ActiveRows(u) # {} /\ u \in Users
  BY DEF Owners, RolesOf
<1>2. QED
  BY <1>1 DEF Calm, Account

\* NotLastOwner: whoever may be removed leaves another owner.
LEMMA AnotherOwner ==
  ASSUME Calm, NEW u \in Users, NotLastOwner(u), Owners \ erased # {}
  PROVE  (Owners \ erased) \ {u} # {}
<1>1. CASE u \notin Owners
  BY <1>1
<1>2. CASE u \in Owners
  <2>1. Cardinality(Owners) > 1
    BY <1>2 DEF NotLastOwner
  <2>2. Cardinality({u}) = 1
    BY FS_Singleton
  <2>3. Owners # {u}
    BY <2>1, <2>2
  <2>4. PICK o \in Owners : o # u
    BY <1>2, <2>3
  <2>5. o \notin erased
    BY <2>4, OwnersAreThere
  <2>6. QED
    BY <2>4, <2>5
<1>3. QED
  BY <1>1, <1>2

\* A decision that may remove an owner is taken when no other such request is open, and
\* when another owner is there.
LEMMA OpenKeepsOwners ==
  ASSUME MembershipInv, Calm, OwnerInv, NEW t \in Txs, NEW op \in Ops, NEW u,
         NEW role, NEW i, Open(t, op, u, role, i), raced' \subseteq {"address"},
         MayRemoveOwner(op, role) => u \in Users /\ NotLastOwner(u)
  PROVE  OwnerInv'
<1> DEFINE r == [op |-> op, updated |-> FALSE, member |-> u, role |-> role,
                 invitation |-> i, rows |-> {}, mail |-> {}]
<1>1. r.op = op /\ r.member = u /\ r.role = role
  OBVIOUS
<1>2. /\ tx' = [tx EXCEPT ![t] = r]
      /\ UNCHANGED <<clock, erased, email, binding, invitation, scoped>>
      /\ raced' = raced \cup Races(t, op, u, role)
  BY DEF Open
<1> HIDE DEF r
<1>3. \A s \in Txs : tx'[s] = IF s = t THEN r ELSE tx[s]
  BY <1>2 DEF MembershipInv, MembershipTypeOK
<1>4. \A s \in Txs \ {t} : ~(MayRemoveOwner(op, role) /\ Removes(s))
  <2>1. "owners" \notin Races(t, op, u, role)
    BY <1>2
  <2>2. QED
    BY <2>1 DEF Races, Removes
<1>5. raced \subseteq {"address"} /\ Owners' = Owners
  BY <1>2 DEF Owners, RolesOf, ActiveRows
<1>6. \A s, v \in Txs : s # v => ~(Removes(s)' /\ Removes(v)')
  BY <1>1, <1>3, <1>4, <1>5 DEF OwnerInv, Removes
<1>7. ASSUME NEW s \in Txs PROVE Covered(s)'
  <2>1. CASE s = t
    <3>1. Removes(s)' <=> MayRemoveOwner(op, role)
      BY <1>1, <1>3, <2>1 DEF Removes
    <3>2. MayRemoveOwner(op, role) /\ binding # << >> => (Owners \ erased) \ {u} # {}
      BY <1>5, AnotherOwner DEF OwnerInv
    <3>3. tx'[s].member = u
      BY <1>1, <1>3, <2>1
    <3>4. QED
      BY <1>2, <1>5, <3>1, <3>2, <3>3 DEF Covered
  <2>2. CASE s # t
    BY <1>2, <1>3, <1>5, <2>2 DEF OwnerInv, Covered, Removes
  <2>3. QED
    BY <2>1, <2>2
<1>8. QED
  BY <1>2, <1>5, <1>6, <1>7 DEF OwnerInv

\* Every decision that may remove an owner has asked _owner_count.
LEMMA DecideKeepsOwners ==
  ASSUME MembershipInv, Calm, OwnerInv, NEW t \in Txs, Decide(t), raced' \subseteq {"address"}
  PROVE  OwnerInv'
<1>1. ASSUME NEW a \in Users, NEW m \in Users, NEW role \in Roles, ReplaceDecide(t, a, m, role)
      PROVE  OwnerInv'
  BY <1>1, OpenKeepsOwners DEF ReplaceDecide, Ops, MayRemoveOwner
<1>2. ASSUME NEW a \in Users, NEW m \in Users, OffboardDecide(t, a, m)
      PROVE  OwnerInv'
  BY <1>2, OpenKeepsOwners DEF OffboardDecide, Ops
<1>3. ASSUME NEW u \in Users, CreateDecide(t, u)
      PROVE  OwnerInv'
  BY <1>3, OpenKeepsOwners DEF CreateDecide, Ops, MayRemoveOwner
<1>4. ASSUME NEW u \in Users, EraseDecide(t, u)
      PROVE  OwnerInv'
  BY <1>4, OpenKeepsOwners DEF EraseDecide, Ops
<1>5. ASSUME NEW u \in Users, SwitchDecide(t, u)
      PROVE  OwnerInv'
  BY <1>5, OpenKeepsOwners DEF SwitchDecide, Ops, MayRemoveOwner
<1>6. ASSUME NEW a \in Users, NEW e \in Emails, NEW i \in Invitations, NEW role \in PlainRoles,
             InviteDecide(t, a, i, e, role)
      PROVE  OwnerInv'
  BY <1>6, OpenKeepsOwners DEF InviteDecide, Ops, MayRemoveOwner
<1>7. ASSUME NEW u \in Users, NEW i \in Invitations, AcceptDecide(t, u, i)
      PROVE  OwnerInv'
  BY <1>7, OpenKeepsOwners DEF AcceptDecide, Ops, MayRemoveOwner
<1>8. QED
  BY <1>1, <1>2, <1>3, <1>4, <1>5, <1>6, <1>7 DEF Decide

\* The tables and the requests of a step that removes no owner.
LEMMA OwnersStay ==
  ASSUME MembershipInv, OwnerInv, raced \subseteq {"address"}, raced' \subseteq {"address"},
         \A s \in Txs : Removes(s)' => Removes(s) /\ tx'[s].member = tx[s].member,
         binding # << >> => binding' # << >> /\ Owners \ erased \subseteq Owners' \ erased',
         binding = << >> /\ binding' # << >> =>
           \E o \in Owners' \ erased' : \A s \in Txs : Removes(s)' => tx'[s].member # o
  PROVE  OwnerInv'
<1>1. \A s, v \in Txs : s # v => ~(Removes(s)' /\ Removes(v)')
  BY DEF OwnerInv
<1>2. ASSUME NEW s \in Txs PROVE Covered(s)'
  BY DEF OwnerInv, Covered
<1>3. binding' # << >> => Owners' \ erased' # {}
  BY DEF OwnerInv
<1>4. QED
  BY <1>1, <1>2, <1>3 DEF OwnerInv

\* The commits: one that may remove an owner leaves the one that was counted on, since no
\* other such request is open; the others remove none.
LEMMA CommitKeepsOwners ==
  ASSUME MembershipInv, Founding, Mailed, Calm, OwnerInv, NEW t \in Txs, Commit(t), tx[t].op # "invite",
         raced' \subseteq {"address"}
  PROVE  OwnerInv'
<1>1. PICK u : u = tx[t].member
  OBVIOUS
<1>2. /\ tx[t].op # "idle" /\ Close(t) /\ raced' = raced /\ Elsewhere(u) /\ Account(u)'
      /\ u \in Users
  BY <1>1, CommitsCalmly
<1>3. \A s \in Txs : tx'[s] = IF s = t THEN NoTx ELSE tx[s]
  BY <1>2 DEF Close, MembershipInv, MembershipTypeOK
<1>4. \A s \in Txs : Removes(s)' => s # t /\ Removes(s) /\ tx'[s] = tx[s]
  BY <1>3, TxRows DEF Removes, MayRemoveOwner
<1>5. \A s \in Txs : Removes(s)' => tx'[s].member # u
  BY <1>1, <1>2, <1>4 DEF Calm, Alone, Removes, MayRemoveOwner
<1>6. \A v \in Users : (v \in Owners <=> OwnsIn(binding, v)) /\ (v \in Owners' <=> OwnsIn(binding', v))
  BY RowsInTable DEF Owners, RolesOf, ActiveRows, OwnsIn, ActiveIn
<1>7. (Owners \ erased) \ {u} \subseteq Owners' \ erased'
  <2>1. \A v \in Users \ {u} : v \in Owners \ erased => v \in Owners' \ erased'
    BY <1>2, <1>6 DEF Elsewhere
  <2>2. Owners \subseteq Users
    BY DEF Owners
  <2>3. QED
    BY <2>1, <2>2
<1>8. CASE Removes(t)
  <2>1. \A s \in Txs : ~Removes(s)'
    BY <1>2, <1>4, <1>8 DEF OwnerInv
  <2>2. binding' # << >> => binding # << >>
    <3>1. \/ binding' = Revoked(tx[t].rows)
          \/ tx[t].op = "replace"
      BY <1>8 DEF Removes, MayRemoveOwner, Commit, CreateCommit, ReplaceCommit, OffboardCommit,
                  EraseCommit, InviteCommit, AcceptCommit, SwitchCommit
    <3>2. CASE tx[t].op = "replace"
      BY <1>1, <3>2 DEF Founding
    <3>3. CASE binding' = Revoked(tx[t].rows)
      <4>1. binding = << >> => binding' = << >>
        BY <3>3 DEF Revoked
      <4>2. QED
        BY <4>1
    <3>4. QED
      BY <3>1, <3>2, <3>3
  <2>3. binding' # << >> => Owners' \ erased' # {}
    BY <1>1, <1>2, <1>7, <1>8, <2>2 DEF OwnerInv, Covered
  <2>4. QED
    BY <2>1, <2>3 DEF OwnerInv, Covered
<1>9. CASE ~Removes(t)
  <2>1. ASSUME u \in Owners \ erased PROVE u \in Owners' \ erased'
    <3>1. ActiveRows(u) # {}
      BY <2>1 DEF Owners, RolesOf
    <3>2. tx[t].op \notin {"create", "accept"}
      BY <1>1, <3>1 DEF Calm, Plan
    <3>3. CASE ReplaceCommit(t)
      <4>1. tx[t].role = "OWNER" /\ "OWNER" \in Roles /\ UNCHANGED erased
        BY <1>9, <3>3 DEF ReplaceCommit, Removes, MayRemoveOwner, Roles
      <4>2. binding' = Granted(Revoked(tx[t].rows), u, "OWNER", None)
        BY <1>1, <3>3, <4>1 DEF ReplaceCommit
      <4>3. Revoked(tx[t].rows) \in Seq(BindingRow)
        BY RevokedTable DEF MembershipInv
      <4>4. OwnsIn(binding', u)
        BY <1>2, <4>1, <4>2, <4>3, GrantedRows
      <4>5. QED
        BY <1>2, <1>6, <2>1, <4>1, <4>4
    <3>4. CASE SwitchCommit(t)
      <4>1. UNCHANGED <<binding, erased>>
        BY <3>4 DEF SwitchCommit
      <4>2. QED
        BY <1>2, <1>6, <2>1, <4>1
    <3>5. QED
      BY <1>9, <3>2, <3>3, <3>4 DEF Removes, MayRemoveOwner, Commit, CreateCommit, OffboardCommit,
                                    EraseCommit, InviteCommit, AcceptCommit
  <2>2. Owners \ erased \subseteq Owners' \ erased'
    BY <1>7, <2>1
  <2>3. ASSUME binding = << >>, binding' # << >>
        PROVE  u \in Owners' \ erased'
    <3>1. tx[t].op \in {"create", "erase"}
      BY <1>2, <2>3 DEF Founding
    <3>2. CreateCommit(t)
      BY <1>9, <3>1 DEF Removes, MayRemoveOwner, Commit, CreateCommit, ReplaceCommit, OffboardCommit,
                        EraseCommit, InviteCommit, AcceptCommit, SwitchCommit
    <3>3. binding' = Granted(binding, u, "OWNER", None) /\ UNCHANGED erased /\ "OWNER" \in Roles
      BY <1>1, <3>2 DEF CreateCommit, Roles
    <3>4. binding \in Seq(BindingRow)
      BY DEF MembershipInv, MembershipTypeOK
    <3>5. OwnsIn(binding', u)
      BY <1>2, <3>3, <3>4, GrantedRows
    <3>6. u \notin erased
      BY <1>1, <3>2 DEF CreateCommit, Calm, Plan
    <3>7. QED
      BY <1>2, <1>6, <3>3, <3>5, <3>6
  <2>4. binding # << >> => binding' # << >>
    <3>1. binding # << >> => Owners \ erased # {}
      BY <1>2 DEF OwnerInv
    <3>2. Owners' # {} => binding' # << >>
      BY DEF Owners, RolesOf, ActiveRows
    <3>3. QED
      BY <2>2, <3>1, <3>2
  <2>5. \A s \in Txs : Removes(s)' => Removes(s) /\ tx'[s].member = tx[s].member
    BY <1>4
  <2>6. binding = << >> /\ binding' # << >> =>
           \E o \in Owners' \ erased' : \A s \in Txs : Removes(s)' => tx'[s].member # o
    BY <1>5, <2>3
  <2>7. QED
    BY <1>2, <2>2, <2>4, <2>5, <2>6, OwnersStay
<1>10. QED
  BY <1>8, <1>9

\* OwnerInv is inductive.
LEMMA OwnerInvNext == MembershipInv /\ CalmInv /\ OwnerInv /\ [Next]_vars => OwnerInv'
<1> SUFFICES ASSUME MembershipInv, CalmInv, OwnerInv, [Next]_vars, raced' \subseteq {"address"} PROVE OwnerInv'
  BY DEF OwnerInv
<1>1. raced \subseteq {"address"} /\ Founding /\ Mailed /\ Calm
  BY RacedGrows DEF CalmInv, Calm
<1>2. ASSUME UNCHANGED <<erased, binding>>,
             \A s \in Txs : Removes(s)' => Removes(s) /\ tx'[s].member = tx[s].member
      PROVE  OwnerInv'
  <2>1. Owners' = Owners
    BY <1>2 DEF Owners, RolesOf, ActiveRows
  <2>2. QED
    BY <1>1, <1>2, <2>1, OwnersStay
<1>3. ASSUME NEW t \in Txs, Update(t) PROVE OwnerInv'
  <2>1. \A s \in Txs : tx'[s].op = tx[s].op /\ tx'[s].role = tx[s].role /\ tx'[s].member = tx[s].member
    BY <1>3 DEF Update, MembershipInv, MembershipTypeOK, TxState
  <2>2. QED
    BY <1>2, <1>3, <2>1 DEF Update, Removes
<1>4. ASSUME NEW t \in Txs, Rollback(t) PROVE OwnerInv'
  <2>1. \A s \in Txs : tx'[s] = IF s = t THEN NoTx ELSE tx[s]
    BY <1>4 DEF Rollback, Close, MembershipInv, MembershipTypeOK
  <2>2. \A s \in Txs : Removes(s)' => Removes(s) /\ tx'[s].member = tx[s].member
    BY <2>1, TxRows DEF Removes, MayRemoveOwner
  <2>3. QED
    BY <1>2, <1>4, <2>2 DEF Rollback
<1>5. CASE UNCHANGED <<erased, binding, tx>>
  BY <1>2, <1>5 DEF Removes
<1>6. ASSUME NEW t \in Txs, Commit(t), tx[t].op = "invite" PROVE OwnerInv'
  <2>1. Close(t) /\ UNCHANGED <<erased, binding>>
    BY <1>6 DEF Commit, CreateCommit, ReplaceCommit, OffboardCommit, EraseCommit, InviteCommit,
                AcceptCommit, SwitchCommit
  <2>2. \A s \in Txs : tx'[s] = IF s = t THEN NoTx ELSE tx[s]
    BY <2>1 DEF Close, MembershipInv, MembershipTypeOK
  <2>3. \A s \in Txs : Removes(s)' => Removes(s) /\ tx'[s].member = tx[s].member
    BY <2>2, TxRows DEF Removes, MayRemoveOwner
  <2>4. QED
    BY <1>2, <2>1, <2>3
<1>7. QED
  BY <1>1, <1>3, <1>4, <1>5, <1>6, DecideKeepsOwners, CommitKeepsOwners
  DEF Next, RevokeInvitation, Refresh, ChangeEmail, Tick, vars

\* replace_member_role, offboard_member and execute_erasure never remove the last owner,
\* for any number of members, requests and roles, unless two requests overlapped.
THEOREM OrganizationsKeepAnOwner == Spec => []OwnerUnlessRaced
<1>1. Init => OwnerInv
  BY TxRows DEF Init, OwnerInv, Removes, Covered, MayRemoveOwner
<1>2. OwnerInv => OwnerUnlessRaced
  BY DEF OwnerInv, OwnerUnlessRaced
<1>3. QED
  BY <1>1, <1>2, MembershipInvInit, MembershipInvNext, CalmInvInit, CalmInvNext, OwnerInvNext, PTL
  DEF Spec
=============================================================================
