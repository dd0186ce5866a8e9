---------------------------- MODULE Registration -----------------------------
(***************************************************************************)
(* Registration by address or phone, the links and codes that prove the    *)
(* contact, and the referrals that lead to a registration                  *)
(* (RegistrationControl, the referral part of WorkspaceControl, and their  *)
(* repositories).                                                          *)
(*                                                                         *)
(* Every transaction and Redis command is a step.  A transaction of two    *)
(* statements where a row may appear in between is two steps.  What a      *)
(* message says is not modelled: whoever knows a link or a code may use    *)
(* it, at any time.  Captcha, password policy and breach check stop a      *)
(* request before it changes anything but the counter, and are left out.   *)
(***************************************************************************)
EXTENDS Naturals, Sequences, FiniteSets

CONSTANTS
  Clients,
  Mails, Phones,
  Workloads,     \* what may happen in one behaviour: requests, and the active users before it
  None,
  Limit,         \* Limit[route]: requests in one window
  OtpAttempts,   \* OTP_MAX_ATTEMPTS
  MaxUsers, MaxLinks, MaxReferrals, MaxCodes   \* bounds: rows and codes ever made

Contacts == Mails \cup Phones
Routes == {"signup", "verify request", "invite"}

ASSUME RegistrationAssumption ==
  /\ Limit \in [Routes -> Nat] /\ OtpAttempts \in Nat \ {0}
  /\ MaxUsers \in Nat /\ MaxReferrals \in Nat
  /\ \A w \in Workloads : /\ w.users \in Seq(Mails) /\ Len(w.users) <= MaxUsers
                          /\ \A i, j \in DOMAIN w.users : w.users[i] = w.users[j] => i = j
                          /\ w.contacts \subseteq Contacts
  /\ None \notin Contacts /\ Mails \cap Phones = {}

VARIABLES
  load,      \* the workload of this behaviour; never changes
  user,      \* users, with the identity of their contact
  link,      \* ephemeral_tokens of the purpose email_verify
  referral,  \* referrals; over: expires_at has passed
  otp,       \* otp[u]: the hash of the phone code
  drawn,     \* codes drawn so far
  asked,     \* asked[r][m]: the counter of a route and a contact
  req,       \* the clients' requests
  raced      \* observer: users and pairs of referrer and address two requests wrote at once

rvars == <<load, user, link, referral, otp, drawn, asked, req, raced>>

UserRow == [contact : Contacts, state : {"pending", "active", "suspended"}, verified : BOOLEAN,
            version : Nat \ {0}]
LinkRow == [user : 1..MaxUsers, consumed : BOOLEAN, over : BOOLEAN]
ReferralRow == [from : 1..MaxUsers, mail : Mails, state : {"invited", "registered", "verified", "expired", "revoked"},
                user : 0..MaxUsers, over : BOOLEAN]

NoCode == [gen |-> 0, attempts |-> 0]
Idle == [at |-> "idle", route |-> None, contact |-> None, user |-> 0, ref |-> 0, code |-> 0]

UsersOf(m) == {u \in DOMAIN user : user[u].contact = m}

\* Every field holds a value its column or key can hold; a contact has one user, and a user
\* comes from one referral at most.
RegistrationTypeOK ==
  /\ user \in Seq(UserRow) /\ link \in Seq(LinkRow) /\ referral \in Seq(ReferralRow)
  /\ DOMAIN otp = DOMAIN user
  /\ \A u \in DOMAIN user : otp[u].attempts < OtpAttempts
  /\ \A m \in Contacts : Cardinality(UsersOf(m)) <= 1
  /\ \A r, q \in DOMAIN referral : referral[r].user = referral[q].user /\ referral[r].user # 0 => r = q

-----------------------------------------------------------------------------
Step(c, r) == req' = [req EXCEPT ![c] = r]
Refuse(c) == Step(c, Idle)
Goto(c, label) == Step(c, [req[c] EXCEPT !.at = label])

\* _limit: the counter first; one request past the limit stands for all of them.
Ask(c, route, m, r) ==
  /\ req[c] = Idle
  /\ asked[route][m] <= Limit[route]
  /\ asked' = [asked EXCEPT ![route][m] = @ + 1]
  /\ IF asked[route][m] < Limit[route] THEN Step(c, r) ELSE UNCHANGED req
  /\ UNCHANGED <<load, user, link, referral, otp, drawn, raced>>

RegistrationInit ==
  /\ load \in Workloads
  /\ user = [u \in DOMAIN load.users |->
              [contact |-> load.users[u], state |-> "active", verified |-> TRUE, version |-> 1]]
  /\ otp = [u \in DOMAIN user |-> NoCode]
  /\ link = <<>> /\ referral = <<>> /\ drawn = 0
  /\ asked = [r \in Routes |-> [m \in Contacts |-> 0]]
  /\ req = [c \in Clients |-> Idle]
  /\ raced = {}

-----------------------------------------------------------------------------
(***************************************************************************)
(* Signing up, and asking for another link or code.                        *)
(***************************************************************************)
Register(c, m, ref) ==
  /\ "signup" \in load.requests
  /\ Ask(c, "signup", m, [Idle EXCEPT !.at = "look up", !.route = "signup", !.contact = m, !.ref = ref])

RequestVerification(c, m) ==
  /\ "verify request" \in load.requests
  /\ Ask(c, "verify request", m, [Idle EXCEPT !.at = "look up", !.route = "verify request", !.contact = m])

\* get_by_email, get_by_phone: a pending user gets another link or code; anyone else gets
\* the same answer and nothing happens.
LookUp(c) ==
  LET r == req[c]
      found == UsersOf(r.contact)
  IN /\ r.at = "look up"
     /\ IF found = {}
        THEN IF r.route = "signup" THEN Goto(c, "create") ELSE Refuse(c)
        ELSE \E u \in found :
               IF user[u].state = "pending"
               THEN Step(c, [r EXCEPT !.user = u, !.at = IF r.contact \in Mails THEN "retire" ELSE "code"])
               ELSE Refuse(c)
     /\ UNCHANGED <<load, user, link, referral, otp, drawn, asked, raced>>

\* _claim_referral.
Claimable(ref, m) ==
  /\ ref \in DOMAIN referral
  /\ referral[ref].state = "invited" /\ ~referral[ref].over
  /\ referral[ref].mail = m

\* The unique indexes over the contacts of users.
NoDuplicate(m) == UsersOf(m) = {}

NewUser(m) ==
  /\ Len(user) < MaxUsers
  /\ user' = Append(user, [contact |-> m, state |-> "pending", verified |-> FALSE, version |-> 1])
  /\ otp' = Append(otp, NoCode)

NewLink(u) ==
  /\ Len(link) < MaxLinks
  /\ link' = Append(link, [user |-> u, consumed |-> FALSE, over |-> FALSE])

\* create_email_registration: user, identity, referral and first link, or nothing.
CreateEmailRegistration(c) ==
  LET r == req[c]
      u == Len(user) + 1
  IN /\ r.at = "create" /\ r.contact \in Mails
     /\ IF NoDuplicate(r.contact)
        THEN /\ NewUser(r.contact) /\ NewLink(u)
             /\ referral' = IF Claimable(r.ref, r.contact)
                            THEN [referral EXCEPT ![r.ref].user = u, ![r.ref].state = "registered"]
                            ELSE referral
        ELSE UNCHANGED <<user, otp, link, referral>>
     /\ Refuse(c)
     /\ UNCHANGED <<load, drawn, asked, raced>>

CreatePhoneRegistration(c) ==
  LET r == req[c]
  IN /\ r.at = "create" /\ r.contact \in Phones
     /\ IF NoDuplicate(r.contact)
        THEN NewUser(r.contact) /\ Step(c, [r EXCEPT !.user = Len(user) + 1, !.at = "code"])
        ELSE Refuse(c) /\ UNCHANGED <<user, otp>>
     /\ UNCHANGED <<load, link, referral, drawn, asked, raced>>

Fresh(u) == {t \in DOMAIN link : link[t].user = u /\ ~link[t].consumed}

\* issue_email_verification retires the links it sees ...
Retired(u) == [t \in DOMAIN link |-> IF t \in Fresh(u) THEN [link[t] EXCEPT !.consumed = TRUE] ELSE link[t]]

RetireLinks(c) ==
  /\ req[c].at = "retire"
  /\ link' = Retired(req[c].user)
  /\ Goto(c, "insert link")
  /\ UNCHANGED <<load, user, referral, otp, drawn, asked, raced>>

\* ... and adds its own, whatever was added meanwhile.
InsertLink(c) ==
  LET u == req[c].user
  IN /\ req[c].at = "insert link"
     /\ NewLink(u)
     /\ raced' = IF \E d \in Clients \ {c} : req[d].at = "insert link" /\ req[d].user = u
                 THEN raced \cup {<<u>>} ELSE raced
     /\ Refuse(c)
     /\ UNCHANGED <<load, user, referral, otp, drawn, asked>>

\* _send_phone_otp; a message that cannot be sent takes the hash with it.
StoreCode(c) ==
  /\ req[c].at = "code" /\ drawn < MaxCodes
  /\ drawn' = drawn + 1
  /\ otp' = [otp EXCEPT ![req[c].user] = [gen |-> drawn + 1, attempts |-> 0]]
  /\ Goto(c, "send code")
  /\ UNCHANGED <<load, user, link, referral, asked, raced>>

SendCode(c, sent) ==
  /\ req[c].at = "send code"
  /\ otp' = IF sent THEN otp ELSE [otp EXCEPT ![req[c].user] = NoCode]
  /\ Refuse(c)
  /\ UNCHANGED <<load, user, link, referral, drawn, asked, raced>>

-----------------------------------------------------------------------------
(***************************************************************************)
(* Proving the contact.                                                    *)
(***************************************************************************)
Activated(u) == [user EXCEPT ![u].state = "active", ![u].verified = TRUE, ![u].version = @ + 1]

\* verify_email: token and user are locked.  The link is used up even when the user may not
\* be activated any more.
VerifyEmail(t) ==
  LET u == link[t].user
      may == user[u].state \in {"pending", "active"}
  IN /\ ~link[t].consumed /\ ~link[t].over
     /\ link' = [link EXCEPT ![t].consumed = TRUE]
     /\ user' = IF may THEN Activated(u) ELSE user
     /\ referral' = [r \in DOMAIN referral |->
                      IF may /\ referral[r].user = u /\ referral[r].state = "registered"
                      THEN [referral[r] EXCEPT !.state = "verified"] ELSE referral[r]]
     /\ UNCHANGED <<load, otp, drawn, asked, req, raced>>

\* verify_phone of the control: the state is read, then the script compares the code ...
VerifyPhone(c, m, code) ==
  /\ req[c] = Idle
  /\ \E u \in UsersOf(m) :
       /\ user[u].state = "pending"
       /\ Step(c, [Idle EXCEPT !.at = "check", !.contact = m, !.user = u, !.code = code])
  /\ UNCHANGED <<load, user, link, referral, otp, drawn, asked, raced>>

CheckCode(c) ==
  LET u == req[c].user
      right == otp[u].gen # 0 /\ otp[u].gen = req[c].code
      spent == right \/ otp[u].attempts + 1 >= OtpAttempts
  IN /\ req[c].at = "check"
     /\ otp' = IF otp[u].gen = 0 THEN otp
               ELSE [otp EXCEPT ![u] = IF spent THEN NoCode ELSE [otp[u] EXCEPT !.attempts = @ + 1]]
     /\ IF right THEN Goto(c, "activate") ELSE Refuse(c)
     /\ UNCHANGED <<load, user, link, referral, drawn, asked, raced>>

\* ... and verify_phone of the repository asks for the state again, under the lock.
ActivatePhone(c) ==
  LET u == req[c].user
  IN /\ req[c].at = "activate"
     /\ user' = IF user[u].state \in {"pending", "active"} THEN Activated(u) ELSE user
     /\ Refuse(c)
     /\ UNCHANGED <<load, link, referral, otp, drawn, asked, raced>>

-----------------------------------------------------------------------------
(***************************************************************************)
(* Referrals.                                                              *)
(***************************************************************************)
InviteReferral(c, u, m) ==
  /\ "invite" \in load.requests
  /\ Ask(c, "invite", user[u].contact, [Idle EXCEPT !.at = "eligible", !.user = u, !.contact = m])

\* referral_eligibility: an active referrer, not the same address, nobody's address.
Eligible(c) ==
  LET r == req[c]
  IN /\ r.at = "eligible"
     /\ IF user[r.user].state = "active" /\ user[r.user].contact # r.contact /\ UsersOf(r.contact) = {}
        THEN Goto(c, "replace") ELSE Refuse(c)
     /\ UNCHANGED <<load, user, link, referral, otp, drawn, asked, raced>>

Invited(u, m) == {r \in DOMAIN referral : referral[r].from = u /\ referral[r].mail = m /\ referral[r].state = "invited"}
SetState(R, s) == [r \in DOMAIN referral |-> IF r \in R THEN [referral[r] EXCEPT !.state = s] ELSE referral[r]]

\* Mutant: an earlier invitation stays.
KeepInvitations(c) ==
  /\ req[c].at = "replace"
  /\ Goto(c, "insert referral")
  /\ UNCHANGED <<load, user, link, referral, otp, drawn, asked, raced>>

\* create_referral revokes the invitations it sees ...
RevokeInvited(c) ==
  /\ req[c].at = "replace"
  /\ referral' = SetState(Invited(req[c].user, req[c].contact), "revoked")
  /\ Goto(c, "insert referral")
  /\ UNCHANGED <<load, user, link, otp, drawn, asked, raced>>

\* ... and adds its own.
CreateReferral(c) ==
  LET r == req[c]
  IN /\ r.at = "insert referral" /\ Len(referral) < MaxReferrals
     /\ referral' = Append(referral, [from |-> r.user, mail |-> r.contact, state |-> "invited",
                                      user |-> 0, over |-> FALSE])
     /\ raced' = IF \E d \in Clients \ {c} : /\ req[d].at = "insert referral"
                                             /\ req[d].user = r.user /\ req[d].contact = r.contact
                 THEN raced \cup {<<r.user, r.contact>>} ELSE raced
     /\ Step(c, [r EXCEPT !.at = "send referral", !.ref = Len(referral) + 1])
     /\ UNCHANGED <<load, user, link, otp, drawn, asked>>

\* The provider may report a failure after the message went out.
SendReferral(c, sent) ==
  /\ req[c].at = "send referral"
  /\ IF sent THEN Refuse(c) ELSE Goto(c, "revoke")
  /\ UNCHANGED <<load, user, link, referral, otp, drawn, asked, raced>>

\* Mutant: the referral is revoked whatever has become of it.
RevokeClaimed(ref) == {ref}

\* revoke_referral: an UPDATE on referrals still in the state "invited".
Revocable(ref) == {r \in {ref} : referral[r].state = "invited"}

RevokeReferral(c) ==
  /\ req[c].at = "revoke"
  /\ referral' = SetState(Revocable(req[c].ref), "revoked")
  /\ Refuse(c)
  /\ UNCHANGED <<load, user, link, otp, drawn, asked, raced>>

\* list_referrals marks the invitations whose time is over.
ListReferrals(u) ==
  LET R == {r \in DOMAIN referral : referral[r].from = u /\ referral[r].state = "invited" /\ referral[r].over}
  IN /\ R # {}
     /\ referral' = SetState(R, "expired")
     /\ UNCHANGED <<load, user, link, otp, drawn, asked, req, raced>>

-----------------------------------------------------------------------------
(***************************************************************************)
(* Time, failures, and the rest of the system.                             *)
(***************************************************************************)
LinkOver(t) ==
  /\ ~link[t].over
  /\ link' = [link EXCEPT ![t].over = TRUE]
  /\ UNCHANGED <<load, user, referral, otp, drawn, asked, req, raced>>

ReferralOver(r) ==
  /\ ~referral[r].over
  /\ referral' = [referral EXCEPT ![r].over = TRUE]
  /\ UNCHANGED <<load, user, link, otp, drawn, asked, req, raced>>

CodeOver(u) ==
  /\ otp[u] # NoCode
  /\ otp' = [otp EXCEPT ![u] = NoCode]
  /\ UNCHANGED <<load, user, link, referral, drawn, asked, req, raced>>

WindowOver(route, m) ==
  /\ "later" \in load.requests /\ asked[route][m] > 0
  /\ asked' = [asked EXCEPT ![route][m] = 0]
  /\ UNCHANGED <<load, user, link, referral, otp, drawn, req, raced>>

\* A request cut off inside a transaction is one cut off before it.
Stop(c) ==
  /\ "stop" \in load.requests
  /\ req[c].at \notin {"idle", "insert link", "insert referral"}
  /\ Refuse(c)
  /\ UNCHANGED <<load, user, link, referral, otp, drawn, asked, raced>>

Suspend(u) ==
  /\ "suspend" \in load.requests /\ user[u].state # "suspended"
  /\ user' = [user EXCEPT ![u].state = "suspended", ![u].version = @ + 1]
  /\ UNCHANGED <<load, link, referral, otp, drawn, asked, req, raced>>

RegistrationNext ==
  \/ \E c \in Clients :
       \/ \E m \in load.contacts : \/ \E ref \in {0} \cup DOMAIN referral : Register(c, m, ref)
                                   \/ RequestVerification(c, m)
       \/ \E u \in DOMAIN load.users, m \in load.contacts \cap Mails : InviteReferral(c, u, m)
       \/ \E m \in Phones, code \in 0..drawn : VerifyPhone(c, m, code)
       \/ LookUp(c) \/ CreateEmailRegistration(c) \/ CreatePhoneRegistration(c)
       \/ RetireLinks(c) \/ InsertLink(c) \/ StoreCode(c) \/ CheckCode(c) \/ ActivatePhone(c)
       \/ \E sent \in BOOLEAN : SendCode(c, sent) \/ SendReferral(c, sent)
       \/ Eligible(c) \/ RevokeInvited(c) \/ CreateReferral(c) \/ RevokeReferral(c)
       \/ Stop(c)
  \/ \E t \in DOMAIN link : VerifyEmail(t) \/ LinkOver(t)
  \/ \E r \in DOMAIN referral : ReferralOver(r)
  \/ \E u \in DOMAIN user : ListReferrals(u) \/ CodeOver(u) \/ Suspend(u)
  \/ \E route \in Routes, m \in Contacts : WindowOver(route, m)

RegistrationSpec == RegistrationInit /\ [][RegistrationNext]_rvars

-----------------------------------------------------------------------------
(***************************************************************************)
(* Properties.                                                             *)
(***************************************************************************)
Stages == [invited |-> "open", registered |-> "taken", verified |-> "earned", expired |-> "dead", revoked |-> "dead"]

Life == INSTANCE AccountLife WITH
  Referrals <- 1..MaxReferrals,
  life <- [m \in Contacts |-> IF UsersOf(m) = {} THEN "absent"
                              ELSE user[CHOOSE u \in UsersOf(m) : TRUE].state],
  stage <- [r \in 1..MaxReferrals |-> IF r \in DOMAIN referral THEN Stages[referral[r].state] ELSE "none"],
  taker <- [r \in 1..MaxReferrals |-> IF r \in DOMAIN referral /\ referral[r].user # 0
                                      THEN user[referral[r].user].contact ELSE None]

\* Registration and referral implement AccountLife: no late link, code or delivery failure
\* opens a suspended account, kills a referral that was taken or leaves one behind that
\* was earned.
LifeHolds == Life!LifeSpec

\* A user has at most one link that works, and a referrer one open invitation for an address,
\* unless two requests for the same thing overlapped.
OneOpenUnlessRaced ==
  \A u \in DOMAIN user :
    /\ <<u>> \in raced \/ Cardinality(Fresh(u)) <= 1
    /\ \A m \in Mails : <<u, m>> \in raced \/ Cardinality(Invited(u, m)) <= 1

=============================================================================
