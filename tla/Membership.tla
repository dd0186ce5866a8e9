------------------------------ MODULE Membership ------------------------------
(***************************************************************************)
(* Membership of one organization: role bindings, invitations, and the     *)
(* sessions scoped to it.  Every statement of the workspace repository is  *)
(* qualified by the organization, so organizations do not meet.            *)
(*                                                                         *)
(* The transactions take no lock on what they decide on.  Each one reads   *)
(* permission, roles and owners (...Decide), later runs its UPDATE, whose  *)
(* snapshot is the set of rows it will change (Update), and commits later  *)
(* still, when the rows of the snapshot that another transaction changed   *)
(* in the meantime are skipped (Commit).  accept_organization_invitation   *)
(* alone locks a row, the invitation.                                      *)
(***************************************************************************)
EXTENDS Naturals, Sequences, FiniteSets

CONSTANTS
  Users,        \* accounts
  Emails,       \* addresses; an invitation is to one, whoever has it
  PlainRoles,   \* MEMBER and VIEWER: what an invitation may propose
  Invitations,  \* invitations, as token hashes
  Txs,          \* requests that can be open at once
  None,         \* SQL NULL
  InviteTTL,    \* INVITATION_LIFETIME
  MaxTime,      \* bound: last value of the clock
  MaxRows       \* bound: rows of user_role_bindings

ASSUME MembershipAssumption ==
  /\ InviteTTL \in Nat \ {0}
  /\ MaxTime \in Nat
  /\ MaxRows \in Nat
  /\ None \notin Users \cup Emails \cup Invitations
  /\ Users \cap Emails = {}
  /\ "OWNER" \notin PlainRoles

VARIABLES
  clock,
  erased,      \* users whose account is anonymized
  email,       \* users.email
  binding,     \* user_role_bindings in the order of insertion; a row stands for the
               \* catalog entries of one role
  invitation,  \* organization_invitations
  tx,          \* open transactions, and switch_workspace between its two
  scoped,      \* users with a session scoped to the organization
  raced        \* observer: pairs of requests that overlapped ("owners", "member"), and members
               \* who moved to an invited address ("address")

vars == <<clock, erased, email, binding, invitation, tx, scoped, raced>>

Roles == PlainRoles \cup {"OWNER"}

BindingRow == [user : Users, role : Roles, active : BOOLEAN, via : Invitations \cup {None}]

InvitationRow ==
  [state : {"absent", "pending", "accepted", "revoked"}, invitee : Emails \cup {None},
   role : Roles \cup {None}, expires_at : Nat]

Ops == {"create", "replace", "offboard", "erase", "accept", "invite", "switch"}

TxState ==
  [op : Ops \cup {"idle"}, updated : BOOLEAN, member : Users \cup Emails \cup {None},
   role : Roles \cup {None}, invitation : Invitations \cup {None},
   rows : SUBSET Nat, mail : SUBSET Invitations]

NoTx ==
  [op |-> "idle", updated |-> FALSE, member |-> None, role |-> None, invitation |-> None,
   rows |-> {}, mail |-> {}]

NoInvitation == [state |-> "absent", invitee |-> None, role |-> None, expires_at |-> 0]

MembershipTypeOK ==
  /\ clock \in Nat
  /\ erased \in SUBSET Users
  /\ email \in [Users -> Emails \cup {None}]
  /\ binding \in Seq(BindingRow)
  /\ invitation \in [Invitations -> InvitationRow]
  /\ tx \in [Txs -> TxState]
  /\ scoped \in SUBSET Users
  /\ raced \in SUBSET {"owners", "member", "address"}

\* The active rows of a user, and _roles.
ActiveRows(u) == {k \in DOMAIN binding : binding[k].active /\ binding[k].user = u}
RolesOf(u) == {binding[k].role : k \in ActiveRows(u)}

\* _has_permission for members.manage, which only OWNER has in the catalog.
HasPermission(u) == "OWNER" \in RolesOf(u)

Owners == {u \in Users : "OWNER" \in RolesOf(u)}

\* The invitations to an address, and those of them an UPDATE finds pending.
SentTo(e) == {i \in Invitations : e # None /\ invitation[i].invitee = e}
PendingFor(e) == {i \in SentTo(e) : invitation[i].state = "pending"}

-----------------------------------------------------------------------------
(***************************************************************************)
(* The observer.  Two requests race for the owners when both may remove    *)
(* one, and for a member when both are about that member, or one of them   *)
(* about the address the member has.                                       *)
(***************************************************************************)
MayRemoveOwner(op, role) == op \in {"offboard", "erase"} \/ (op = "replace" /\ role # "OWNER")

\* An account or an address, and another one: the same member.
Same(x, y) == \/ x = y
              \/ x \in Users /\ email[x] = y
              \/ y \in Users /\ email[y] = x

Races(t, op, u, role) ==
  {r \in {"owners", "member"} : \E s \in Txs \ {t} :
     CASE r = "owners" -> MayRemoveOwner(op, role) /\ MayRemoveOwner(tx[s].op, tx[s].role)
       [] OTHER -> tx[s].op # "idle" /\ Same(tx[s].member, u)}

Open(t, op, u, role, i) ==
  /\ tx[t] = NoTx
  /\ tx' = [tx EXCEPT ![t] = [op |-> op, updated |-> FALSE, member |-> u, role |-> role,
                              invitation |-> i, rows |-> {}, mail |-> {}]]
  /\ raced' = raced \cup Races(t, op, u, role)
  /\ UNCHANGED <<clock, erased, email, binding, invitation, scoped>>

Close(t) == tx' = [tx EXCEPT ![t] = NoTx]

-----------------------------------------------------------------------------
(***************************************************************************)
(* Decisions.                                                              *)
(***************************************************************************)
\* Mutant: the last owner is not protected.
NotLastOwnerEver(u) == TRUE

\* _owner_count, and _has_sole_owned_organization.
NotLastOwner(u) == u \in Owners => Cardinality(Owners) > 1

\* The user row is locked: a second erasure waits, and so does the foreign-key
\* check of a new binding.
BeingErased(u) == \E s \in Txs : tx[s].op = "erase" /\ tx[s].member = u

\* create_organization: the model starts before the organization exists.
CreateDecide(t, u) ==
  /\ binding = << >>
  /\ u \notin erased
  /\ Open(t, "create", u, "OWNER", None)

ReplaceDecide(t, a, m, role) ==
  /\ HasPermission(a)
  /\ RolesOf(m) # {}
  /\ role # "OWNER" => NotLastOwner(m)
  /\ Open(t, "replace", m, role, None)

OffboardDecide(t, a, m) ==
  /\ HasPermission(a)
  /\ RolesOf(m) # {}
  /\ NotLastOwner(m)
  /\ Open(t, "offboard", m, None, None)

\* request_erasure has checked the owners before and has revoked the user's sessions;
\* execute_erasure locks the user and checks again.
EraseDecide(t, u) ==
  /\ u \notin erased
  /\ ~BeingErased(u)
  /\ NotLastOwner(u)
  /\ Open(t, "erase", u, None, None)

\* The account that has the address, if any, must not be a member.
InviteDecide(t, a, i, e, role) ==
  /\ HasPermission(a)
  /\ invitation[i].state = "absent"
  /\ \A s \in Txs : tx[s].invitation # i
  /\ \A u \in Users : email[u] = e => RolesOf(u) = {}
  /\ Open(t, "invite", e, role, i)

\* The invitation is locked until the end of the transaction; the account is not, and may
\* have another address by then.
AcceptDecide(t, u, i) ==
  /\ \A s \in Txs : tx[s].invitation # i
  /\ invitation[i].state = "pending"
  /\ invitation[i].expires_at > clock
  /\ i \in SentTo(email[u])
  /\ u \notin erased
  /\ RolesOf(u) = {}
  /\ Open(t, "accept", u, invitation[i].role, i)

\* get_workspace_access of switch_workspace.
SwitchDecide(t, u) ==
  /\ RolesOf(u) # {}
  /\ Open(t, "switch", u, None, None)

-----------------------------------------------------------------------------
(***************************************************************************)
(* The UPDATE (or DELETE) and the rest of each transaction.                *)
(***************************************************************************)
Update(t) ==
  /\ tx[t].op \in {"replace", "offboard", "erase", "invite"}
  /\ ~tx[t].updated
  /\ tx' = [tx EXCEPT ![t] =
       [@ EXCEPT !.updated = TRUE,
                 !.rows = IF tx[t].op = "invite" THEN {} ELSE ActiveRows(tx[t].member),
                 !.mail = IF tx[t].op = "invite" THEN PendingFor(tx[t].member) ELSE {}]]
  /\ UNCHANGED <<clock, erased, email, binding, invitation, scoped, raced>>

\* Mutant: the old bindings stay.
KeptBindings(rows) == binding

Revoked(rows) ==
  [k \in DOMAIN binding |-> IF k \in rows THEN [binding[k] EXCEPT !.active = FALSE]
                                          ELSE binding[k]]

\* Mutant: an invitation without a role is accepted all the same.
GrantedNoRole(table, u, role, i) ==
  Append(table, [user |-> u, role |-> None, active |-> TRUE, via |-> i])

Granted(table, u, role, i) ==
  Append(table, [user |-> u, role |-> role, active |-> TRUE, via |-> i])

\* The unique index on active bindings: inserting a role twice fails and rolls back.
CanGrant(table, u, role) ==
  /\ Len(table) < MaxRows
  /\ \A k \in DOMAIN table : table[k].active /\ table[k].user = u => table[k].role # role

\* An UPDATE waits for the lock of an accepting transaction.
Locked(i, t) == \E s \in Txs \ {t} : tx[s].op = "accept" /\ tx[s].invitation = i

CreateCommit(t) ==
  /\ tx[t].op = "create"
  /\ binding = << >>
  /\ ~BeingErased(tx[t].member)
  /\ CanGrant(binding, tx[t].member, "OWNER")
  /\ binding' = Granted(binding, tx[t].member, "OWNER", None)
  /\ Close(t)
  /\ UNCHANGED <<clock, erased, email, invitation, scoped, raced>>

ReplaceCommit(t) ==
  LET table == Revoked(tx[t].rows) IN
  /\ tx[t].op = "replace" /\ tx[t].updated
  /\ ~BeingErased(tx[t].member)
  /\ CanGrant(table, tx[t].member, tx[t].role)
  /\ binding' = Granted(table, tx[t].member, tx[t].role, None)
  /\ Close(t)
  /\ UNCHANGED <<clock, erased, email, invitation, scoped, raced>>

\* Mutant: sessions keep their scope.
OffboardCommitOnlyRoles(t) ==
  /\ tx[t].op = "offboard" /\ tx[t].updated
  /\ binding' = Revoked(tx[t].rows)
  /\ Close(t)
  /\ UNCHANGED <<clock, erased, email, invitation, scoped, raced>>

OffboardCommit(t) ==
  /\ tx[t].op = "offboard" /\ tx[t].updated
  /\ binding' = Revoked(tx[t].rows)
  /\ scoped' = scoped \ {tx[t].member}
  /\ Close(t)
  /\ UNCHANGED <<clock, erased, email, invitation, raced>>

\* Invitations to the erased address are revoked whatever their state, and are then to a
\* pseudonym nobody has.
EraseCommit(t) ==
  LET u == tx[t].member IN
  /\ tx[t].op = "erase" /\ tx[t].updated
  /\ \A i \in SentTo(email[u]) : ~Locked(i, t)
  /\ binding' = Revoked(tx[t].rows)
  /\ invitation' = [i \in Invitations |->
       IF i \in SentTo(email[u]) THEN [invitation[i] EXCEPT !.state = "revoked", !.invitee = None]
                                 ELSE invitation[i]]
  /\ erased' = erased \cup {u}
  /\ email' = [email EXCEPT ![u] = None]
  /\ scoped' = scoped \ {u}
  /\ Close(t)
  /\ UNCHANGED <<clock, raced>>

InviteCommit(t) ==
  /\ tx[t].op = "invite" /\ tx[t].updated
  /\ \A i \in tx[t].mail : ~Locked(i, t)
  /\ invitation' = [i \in Invitations |->
       CASE i = tx[t].invitation -> [state |-> "pending", invitee |-> tx[t].member, role |-> tx[t].role,
                                     expires_at |-> clock + InviteTTL]
         [] i \in tx[t].mail /\ invitation[i].state = "pending" ->
              [invitation[i] EXCEPT !.state = "revoked"]
         [] OTHER -> invitation[i]]
  /\ Close(t)
  /\ UNCHANGED <<clock, erased, email, binding, scoped, raced>>

\* revoke_organization_invitation, after the mail could not be sent.
RevokeInvitation(i) ==
  /\ invitation[i].state = "pending"
  /\ \A s \in Txs : tx[s].invitation # i
  /\ invitation' = [invitation EXCEPT ![i].state = "revoked"]
  /\ UNCHANGED <<clock, erased, email, binding, tx, scoped, raced>>

\* Mutant: the invitation stays pending.
AcceptAgain(t) ==
  /\ tx[t].op = "accept"
  /\ ~BeingErased(tx[t].member)
  /\ CanGrant(binding, tx[t].member, tx[t].role)
  /\ binding' = Granted(binding, tx[t].member, tx[t].role, tx[t].invitation)
  /\ Close(t)
  /\ UNCHANGED <<clock, erased, email, invitation, scoped, raced>>

AcceptCommit(t) ==
  /\ tx[t].op = "accept"
  /\ ~BeingErased(tx[t].member)
  /\ CanGrant(binding, tx[t].member, tx[t].role)
  /\ binding' = Granted(binding, tx[t].member, tx[t].role, tx[t].invitation)
  /\ invitation' = [invitation EXCEPT ![tx[t].invitation].state = "accepted"]
  /\ Close(t)
  /\ UNCHANGED <<clock, erased, email, scoped, raced>>

\* issue_workspace_scope: scope_session finds the session by user, not by membership.
SwitchCommit(t) ==
  /\ tx[t].op = "switch"
  /\ tx[t].member \notin erased
  /\ scoped' = scoped \cup {tx[t].member}
  /\ Close(t)
  /\ UNCHANGED <<clock, erased, email, binding, invitation, raced>>

\* A failed statement, a lost connection, or a check that is repeated and fails.
Rollback(t) ==
  /\ tx[t] # NoTx
  /\ Close(t)
  /\ UNCHANGED <<clock, erased, email, binding, invitation, scoped, raced>>

-----------------------------------------------------------------------------
\* verify_contact_change, with both proofs: it locks the account, and the new address must be
\* free; whoever has none to prove cannot get one.
\* revoke_user_access comes after it and ends the sessions of the account (Refresh).
ChangeEmail(u, e) ==
  /\ email[u] # None /\ ~BeingErased(u)
  /\ \A v \in Users : email[v] # e
  /\ email' = [email EXCEPT ![u] = e]
  /\ raced' = IF /\ RolesOf(u) # {} \/ \E s \in Txs : tx[s].member = u
                 /\ PendingFor(e) # {} \/ \E s \in Txs : tx[s].member = e
              THEN raced \cup {"address"} ELSE raced
  /\ UNCHANGED <<clock, erased, binding, invitation, tx, scoped>>

\* Refreshing a session takes it out of the organization.
Refresh(u) ==
  /\ u \in scoped
  /\ scoped' = scoped \ {u}
  /\ UNCHANGED <<clock, erased, email, binding, invitation, tx, raced>>

Tick ==
  /\ clock < MaxTime
  /\ clock' = clock + 1
  /\ UNCHANGED <<erased, email, binding, invitation, tx, scoped, raced>>

Init ==
  /\ clock = 0
  /\ erased = {}
  /\ email \in [Users -> Emails \cup {None}]
  /\ \A u, v \in Users : u # v /\ email[u] # None => email[u] # email[v]
  /\ binding = << >>
  /\ invitation = [i \in Invitations |-> NoInvitation]
  /\ tx = [t \in Txs |-> NoTx]
  /\ scoped = {}
  /\ raced = {}

Decide(t) ==
  \/ \E a, m \in Users, role \in Roles : ReplaceDecide(t, a, m, role)
  \/ \E a, m \in Users : OffboardDecide(t, a, m)
  \/ \E u \in Users : CreateDecide(t, u) \/ EraseDecide(t, u) \/ SwitchDecide(t, u)
  \/ \E a \in Users, e \in Emails, i \in Invitations, role \in PlainRoles :
       InviteDecide(t, a, i, e, role)
  \/ \E u \in Users, i \in Invitations : AcceptDecide(t, u, i)

Commit(t) ==
  \/ CreateCommit(t)
  \/ ReplaceCommit(t)
  \/ OffboardCommit(t)
  \/ EraseCommit(t)
  \/ InviteCommit(t)
  \/ AcceptCommit(t)
  \/ SwitchCommit(t)

Next ==
  \/ \E t \in Txs : Decide(t) \/ Update(t) \/ Commit(t) \/ Rollback(t)
  \/ \E i \in Invitations : RevokeInvitation(i)
  \/ \E u \in Users : Refresh(u) \/ \E e \in Emails : ChangeEmail(u, e)
  \/ Tick

Spec == Init /\ [][Next]_vars

-----------------------------------------------------------------------------
(***************************************************************************)
(* Properties.                                                             *)
(***************************************************************************)

\* An organization never loses its last owner through demotion, offboarding or erasure,
\* as long as no two requests that may remove an owner, or that are about one member,
\* overlap.
OwnerUnlessRaced == raced \subseteq {"address"} /\ binding # << >> => Owners \ erased # {}

\* replace_member_role and an accepted invitation leave a member with exactly one role,
\* as long as no two requests about one member overlap.
OneRoleUnlessRaced ==
  "member" \notin raced => \A u \in Users : Cardinality(ActiveRows(u)) <= 1

\* As long as no two requests about one member overlap, only members have sessions scoped to
\* the organization; and as long as no member changes to an address that is invited either,
\* no member has an invitation left that would bring them back after offboarding.
OutsidersUnlessRaced ==
  "member" \notin raced =>
    /\ \A u \in scoped : RolesOf(u) # {}
    /\ "address" \notin raced => \A u \in Users : RolesOf(u) # {} => PendingFor(email[u]) = {}

\* However requests overlap and addresses change hands, an invitation is behind at most one
\* binding, and cannot be accepted again.
AcceptedOnce ==
  \A j, k \in DOMAIN binding :
    binding[j].via # None =>
      /\ binding[k].via = binding[j].via => j = k
      /\ invitation[binding[j].via].state # "pending"
=============================================================================
