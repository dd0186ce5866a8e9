------------------------- MODULE RegistrationProofs --------------------------
(***************************************************************************)
(* Registration and referral, for any number of clients, contacts and      *)
(* requests.  RowsInv says how users, links, referrals and requests belong *)
(* together; from it follow that the module implements AccountLife and,    *)
(* with OpenInv, that a user has one open link and a referrer one open     *)
(* invitation for an address.                                              *)
(***************************************************************************)
EXTENDS Registration, FiniteSetTheorems, TLAPS

\* The steps of a request: those that prove a phone, those of an invitation, and all those for
\* a user that is there.
OnPhone == {"check", "activate"}
Inviting == {"eligible", "replace", "insert referral", "send referral", "revoke"}
ForUser == OnPhone \cup Inviting \cup {"retire", "insert link", "code", "send code"}

RequestState ==
  [at : ForUser \cup {"idle", "look up", "create"}, route : Routes \cup {None},
   contact : Contacts \cup {None}, user : Nat, ref : Nat, code : Nat]

\* What a request has in hand.
Placed(r) ==
  /\ r.at \in {"look up", "create"} => r.contact \in Contacts
  /\ r.at \in ForUser => r.user \in DOMAIN user
  /\ r.at \in OnPhone => user[r.user].contact \in Phones
  /\ r.at \in Inviting => r.contact \in Mails
  /\ r.at = "revoke" \/ r.at = "send referral" => r.ref \in DOMAIN referral

\* The unique indexes over users.
Unique(U) == \A u, v \in DOMAIN U : U[u].contact = U[v].contact => u = v

Users ==
  /\ load \in Workloads /\ Len(load.users) <= Len(user)
  /\ user \in Seq(UserRow) /\ Len(user) <= MaxUsers
  /\ Unique(user)

Links == link \in Seq(LinkRow) /\ \A t \in DOMAIN link : link[t].user \in DOMAIN user

\* A referral that was taken belongs to one account, of an address, that is not active
\* before the referral is earned.
Taken == {"registered", "verified"}

GoodReferral(row) ==
  /\ row.from \in DOMAIN user
  /\ row.user # 0 <=> row.state \in Taken
  /\ row.user # 0 => row.user \in DOMAIN user /\ user[row.user].contact \in Mails
  /\ row.state = "registered" => user[row.user].state # "active"

OneReferral == \A r, q \in DOMAIN referral : referral[r].user = referral[q].user /\ referral[r].user # 0 => r = q

Referred ==
  /\ referral \in Seq(ReferralRow) /\ Len(referral) <= MaxReferrals
  /\ \A r \in DOMAIN referral : GoodReferral(referral[r])
  /\ OneReferral

CodeRow == [gen : Nat, attempts : 0..(OtpAttempts - 1)]
Codes == otp \in Seq(CodeRow) /\ Len(otp) = Len(user) /\ drawn \in Nat

Requests == req \in [Clients -> RequestState] /\ \A c \in Clients : Placed(req[c])

RowsInv == Users /\ Links /\ Referred /\ Codes /\ Requests

\* Whoever is about to add a link or an invitation has retired the ones before.
LinkOpen(u) ==
  \/ <<u>> \in raced
  \/ /\ \A s, t \in Fresh(u) : s = t
     /\ \A c \in Clients : req[c].at = "insert link" /\ req[c].user = u => Fresh(u) = {}

InviteOpen(u, m) ==
  \/ <<u, m>> \in raced
  \/ /\ \A r, q \in Invited(u, m) : r = q
     /\ \A c \in Clients : req[c].at = "insert referral" /\ req[c].user = u /\ req[c].contact = m
                             => Invited(u, m) = {}

LinksOpen == \A u \in DOMAIN user : LinkOpen(u)
InvitesOpen == \A u \in DOMAIN user : \A m \in Mails : InviteOpen(u, m)
OpenInv == LinksOpen /\ InvitesOpen

-----------------------------------------------------------------------------
\* A sequence whose elements are replaced one by one.
LEMMA SameLength ==
  ASSUME NEW S, NEW T, NEW s \in Seq(S), NEW f, f = [k \in DOMAIN s |-> f[k]],
         \A k \in DOMAIN s : f[k] \in T
  PROVE  f \in Seq(T) /\ Len(f) = Len(s) /\ DOMAIN f = DOMAIN s
<1>1. DOMAIN s = 1..Len(s) /\ Len(s) \in Nat
  OBVIOUS
<1>2. f = [k \in 1..Len(s) |-> f[k]] /\ \A k \in 1..Len(s) : f[k] \in T
  BY <1>1
<1>3. f \in Seq(T) /\ Len(f) = Len(s)
  BY <1>1, <1>2
<1>4. QED
  BY <1>1, <1>3

\* A sequence of which one element is replaced.
LEMMA OneEntry ==
  ASSUME NEW S, NEW s \in Seq(S), NEW id \in DOMAIN s, NEW x \in S, NEW f, f = [s EXCEPT ![id] = x]
  PROVE  /\ f \in Seq(S) /\ Len(f) = Len(s) /\ DOMAIN f = DOMAIN s
         /\ f[id] = x /\ \A k \in DOMAIN s : k # id => f[k] = s[k]
<1>1. /\ f = [k \in DOMAIN s |-> f[k]]
      /\ f[id] = x /\ \A k \in DOMAIN s : k # id => f[k] = s[k]
  OBVIOUS
<1>2. \A k \in DOMAIN s : f[k] \in S
  BY <1>1
<1>3. QED
  BY <1>1, <1>2, SameLength

\* A sequence with one element more.
LEMMA OneMore ==
  ASSUME NEW S, NEW s \in Seq(S), NEW x \in S, NEW f, f = Append(s, x)
  PROVE  /\ f \in Seq(S) /\ Len(f) = Len(s) + 1 /\ DOMAIN f = DOMAIN s \cup {Len(s) + 1}
         /\ f[Len(s) + 1] = x /\ Len(s) + 1 \notin DOMAIN s /\ \A k \in DOMAIN s : f[k] = s[k]
<1>1. DOMAIN s = 1..Len(s) /\ Len(s) \in Nat
  OBVIOUS
<1>2. /\ f \in Seq(S) /\ Len(f) = Len(s) + 1
      /\ f[Len(s) + 1] = x /\ \A k \in 1..Len(s) : f[k] = s[k]
  OBVIOUS
<1>3. DOMAIN f = 1..(Len(s) + 1)
  BY <1>1, <1>2
<1>4. QED
  BY <1>1, <1>2, <1>3

\* The tables.
LEMMA Tables ==
  ASSUME RowsInv
  PROVE  /\ Len(user) \in Nat /\ DOMAIN user = 1..Len(user) /\ \A u \in DOMAIN user : user[u] \in UserRow
         /\ DOMAIN otp = DOMAIN user /\ \A u \in DOMAIN user : otp[u] \in CodeRow
         /\ \A t \in DOMAIN link : link[t] \in LinkRow /\ link[t].user \in DOMAIN user
         /\ Len(referral) \in Nat /\ DOMAIN referral = 1..Len(referral)
         /\ \A r \in DOMAIN referral : referral[r] \in ReferralRow /\ GoodReferral(referral[r])
         /\ 0 \notin DOMAIN user /\ 0 \notin DOMAIN referral
         /\ \A c \in Clients : req[c] \in RequestState /\ Placed(req[c])
<1>1. Len(user) \in Nat /\ DOMAIN user = 1..Len(user) /\ \A u \in DOMAIN user : user[u] \in UserRow
  BY DEF RowsInv, Users
<1>2. DOMAIN otp = DOMAIN user /\ \A u \in DOMAIN user : otp[u] \in CodeRow
  BY <1>1 DEF RowsInv, Codes
<1>3. \A t \in DOMAIN link : link[t] \in LinkRow /\ link[t].user \in DOMAIN user
  BY DEF RowsInv, Links
<1>4. /\ Len(referral) \in Nat /\ DOMAIN referral = 1..Len(referral)
      /\ \A r \in DOMAIN referral : referral[r] \in ReferralRow /\ GoodReferral(referral[r])
  BY DEF RowsInv, Referred
<1>5. \A c \in Clients : req[c] \in RequestState /\ Placed(req[c])
  BY DEF RowsInv, Requests
<1>6. QED
  BY <1>1, <1>2, <1>3, <1>4, <1>5

\* Users stay, with their contacts, and so do referrals.
Grows ==
  /\ load' = load
  /\ DOMAIN user \subseteq DOMAIN user' /\ DOMAIN referral \subseteq DOMAIN referral'
  /\ \A u \in DOMAIN user : user'[u].contact = user[u].contact

\* A step of one request that leaves it placed.
LEMMA OneMoves ==
  ASSUME RowsInv, Grows, NEW c \in Clients, NEW r \in RequestState, req' = [req EXCEPT ![c] = r], Placed(r)'
  PROVE  Requests'
<1>1. req' \in [Clients -> RequestState] /\ \A d \in Clients : req'[d] = IF d = c THEN r ELSE req[d]
  BY DEF RowsInv, Requests
<1>2. ASSUME NEW d \in Clients PROVE Placed(req[d])'
  <2>1. CASE d = c
    BY <1>1, <2>1
  <2>2. CASE d # c
    <3>1. req'[d] = req[d] /\ Placed(req[d])
      BY <1>1, <2>2 DEF RowsInv, Requests
    <3>2. QED
      BY <3>1 DEF Placed, Grows, ForUser
  <2>3. QED
    BY <2>1, <2>2
<1>3. QED
  BY <1>1, <1>2 DEF Requests

\* Nobody moves.
LEMMA NobodyMoves ==
  ASSUME RowsInv, Grows, req' = req
  PROVE  Requests'
<1>1. \A d \in Clients : Placed(req[d]) => Placed(req[d])'
  BY DEF Placed, Grows, ForUser
<1>2. QED
  BY <1>1 DEF RowsInv, Requests

\* A request that is over.
LEMMA IdlePlaced ==
  /\ Idle \in RequestState /\ Placed(Idle) /\ Placed(Idle)'
BY DEF Idle, RequestState, Placed, ForUser, OnPhone, Inviting

LEMMA RefusePlaces ==
  ASSUME RowsInv, Grows, NEW c \in Clients, Refuse(c)
  PROVE  Requests'
BY OneMoves, IdlePlaced DEF Refuse, Step

\* A request that only changes its label.
LEMMA GotoPlaces ==
  ASSUME RowsInv, Grows, NEW c \in Clients, NEW label \in ForUser \cup {"create"}, Goto(c, label),
         label = "create" => req[c].contact \in Contacts,
         label \in ForUser => req[c].at \in ForUser,
         label \in OnPhone => req[c].at \in OnPhone,
         label \in Inviting => req[c].at \in Inviting,
         label \in {"revoke", "send referral"} => req[c].at \in {"revoke", "send referral"}
  PROVE  Requests'
<1>1. PICK r : r = [req[c] EXCEPT !.at = label]
  OBVIOUS
<1>2. req[c] \in RequestState /\ Placed(req[c])
  BY Tables
<1>3. r \in RequestState /\ r.at = label /\ r.user = req[c].user /\ r.contact = req[c].contact /\ r.ref = req[c].ref
  BY <1>1, <1>2 DEF RequestState
<1>4. Placed(r)'
  BY <1>2, <1>3 DEF Placed, Grows, ForUser, OnPhone, Inviting
<1>5. QED
  BY <1>1, <1>3, <1>4, OneMoves DEF Goto, Step
-----------------------------------------------------------------------------
(***************************************************************************)
(* Steps that leave users, links and referrals alone.                      *)
(***************************************************************************)
tables == <<load, user, link, referral>>

LEMMA TablesStay ==
  ASSUME RowsInv, UNCHANGED tables, Codes', Requests'
  PROVE  RowsInv'
<1>1. Users' /\ Links' /\ Referred'
  BY DEF RowsInv, Users, Links, Referred, Unique, OneReferral, GoodReferral, tables
<1>2. QED
  BY <1>1 DEF RowsInv

LEMMA StayGrows ==
  ASSUME UNCHANGED tables
  PROVE  Grows
BY DEF tables, Grows

LEMMA CodesStay ==
  ASSUME RowsInv, UNCHANGED <<user, otp, drawn>>
  PROVE  Codes'
BY DEF RowsInv, Codes

\* The code of one user is replaced.
LEMMA OneCode ==
  ASSUME RowsInv, user' = user, drawn' \in Nat, NEW u \in DOMAIN user, NEW x \in CodeRow,
         otp' = [otp EXCEPT ![u] = x]
  PROVE  Codes'
<1>1. otp \in Seq(CodeRow) /\ u \in DOMAIN otp /\ Len(otp) = Len(user)
  BY Tables DEF RowsInv, Codes
<1>2. otp' \in Seq(CodeRow) /\ Len(otp') = Len(otp)
  BY <1>1, OneEntry
<1>3. QED
  BY <1>1, <1>2 DEF Codes

LEMMA NoCodeIsCode == NoCode \in CodeRow
BY RegistrationAssumption DEF NoCode, CodeRow

\* A request comes in.
LEMMA AskKeeps ==
  ASSUME RowsInv, NEW c \in Clients, NEW route \in Routes, NEW m \in Contacts, NEW r \in RequestState,
         Placed(r), Ask(c, route, m, r)
  PROVE  RowsInv'
<1>1. UNCHANGED tables /\ Codes' /\ Grows
  BY CodesStay, StayGrows DEF Ask, tables
<1>2. Placed(r)'
  BY <1>1 DEF Placed, tables
<1>3. Requests'
  <2>1. CASE req' = req
    BY <1>1, <2>1, NobodyMoves
  <2>2. CASE Step(c, r)
    BY <1>1, <1>2, <2>2, OneMoves DEF Step
  <2>3. QED
    BY <2>1, <2>2 DEF Ask
<1>4. QED
  BY <1>1, <1>3, TablesStay

LEMMA RegisterKeeps ==
  ASSUME RowsInv, NEW c \in Clients, NEW m \in load.contacts, NEW ref \in {0} \cup DOMAIN referral, Register(c, m, ref)
  PROVE  RowsInv'
<1>1. PICK r : r = [Idle EXCEPT !.at = "look up", !.route = "signup", !.contact = m, !.ref = ref]
  OBVIOUS
<1>2. m \in Contacts /\ ref \in Nat
  BY Tables, RegistrationAssumption DEF RowsInv, Users
<1>3. r \in RequestState /\ Placed(r)
  BY <1>1, <1>2 DEF RequestState, Idle, Placed, Routes, ForUser, OnPhone, Inviting
<1>4. Ask(c, "signup", m, r)
  BY <1>1 DEF Register
<1>5. QED
  BY <1>2, <1>3, <1>4, AskKeeps DEF Routes

LEMMA RequestVerificationKeeps ==
  ASSUME RowsInv, NEW c \in Clients, NEW m \in load.contacts, RequestVerification(c, m)
  PROVE  RowsInv'
<1>1. PICK r : r = [Idle EXCEPT !.at = "look up", !.route = "verify request", !.contact = m]
  OBVIOUS
<1>2. m \in Contacts
  BY RegistrationAssumption DEF RowsInv, Users
<1>3. r \in RequestState /\ Placed(r)
  BY <1>1, <1>2 DEF RequestState, Idle, Placed, Routes, ForUser, OnPhone, Inviting
<1>4. Ask(c, "verify request", m, r)
  BY <1>1 DEF RequestVerification
<1>5. QED
  BY <1>2, <1>3, <1>4, AskKeeps DEF Routes

LEMMA InviteReferralKeeps ==
  ASSUME RowsInv, NEW c \in Clients, NEW u \in DOMAIN load.users, NEW m \in load.contacts \cap Mails,
         InviteReferral(c, u, m)
  PROVE  RowsInv'
<1>1. PICK r : r = [Idle EXCEPT !.at = "eligible", !.user = u, !.contact = m]
  OBVIOUS
<1>2. m \in Contacts /\ u \in DOMAIN user /\ u \in Nat
  <2>1. load.users \in Seq(Mails) /\ Len(load.users) <= Len(user)
    BY RegistrationAssumption DEF RowsInv, Users
  <2>2. u \in 1..Len(load.users) /\ Len(load.users) \in Nat
    BY <2>1
  <2>3. QED
    BY <2>1, <2>2, Tables DEF Contacts
<1>3. r \in RequestState /\ Placed(r)
  BY <1>1, <1>2 DEF RequestState, Idle, Placed, Routes, ForUser, OnPhone, Inviting
<1>4. PICK a : a = user[u].contact
  OBVIOUS
<1>5. Ask(c, "invite", a, r) /\ a \in Contacts
  BY <1>1, <1>2, <1>4, Tables DEF InviteReferral, UserRow
<1>6. QED
  BY <1>3, <1>5, AskKeeps DEF Routes

LEMMA VerifyPhoneKeeps ==
  ASSUME RowsInv, NEW c \in Clients, NEW m \in Phones, NEW code \in 0..drawn, VerifyPhone(c, m, code)
  PROVE  RowsInv'
<1>1. UNCHANGED tables /\ Codes' /\ Grows
  BY CodesStay, StayGrows DEF VerifyPhone, tables
<1>2. PICK u \in UsersOf(m) : Step(c, [Idle EXCEPT !.at = "check", !.contact = m, !.user = u, !.code = code])
  BY DEF VerifyPhone
<1>3. PICK r : r = [Idle EXCEPT !.at = "check", !.contact = m, !.user = u, !.code = code]
  OBVIOUS
<1>4. u \in DOMAIN user /\ u \in Nat /\ user[u].contact = m /\ m \in Contacts /\ code \in Nat
  BY Tables DEF UsersOf, Contacts, RowsInv, Codes
<1>5. r \in RequestState /\ r.at = "check" /\ r.user = u
  BY <1>3, <1>4 DEF RequestState, Idle, Routes, ForUser, OnPhone
<1>6. Placed(r)'
  BY <1>1, <1>4, <1>5 DEF Placed, tables, ForUser, OnPhone, Inviting
<1>7. Requests'
  BY <1>1, <1>2, <1>3, <1>5, <1>6, OneMoves DEF Step
<1>8. QED
  BY <1>1, <1>7, TablesStay

LEMMA LookUpKeeps ==
  ASSUME RowsInv, NEW c \in Clients, LookUp(c)
  PROVE  RowsInv'
<1>1. UNCHANGED tables /\ Codes' /\ Grows
  BY CodesStay, StayGrows DEF LookUp, tables
<1>2. req[c] \in RequestState /\ Placed(req[c]) /\ req[c].at = "look up"
  BY Tables DEF LookUp
<1>3. Requests'
  <2>1. CASE Refuse(c)
    BY <1>1, <2>1, RefusePlaces
  <2>2. CASE Goto(c, "create")
    <3>1. req[c].contact \in Contacts
      BY <1>2 DEF Placed
    <3>2. "create" \notin ForUser
      BY DEF ForUser, OnPhone, Inviting
    <3>3. QED
      BY <1>1, <2>2, <3>1, <3>2, GotoPlaces DEF ForUser
  <2>3. ASSUME NEW u \in UsersOf(req[c].contact), NEW label \in {"retire", "code"},
               Step(c, [req[c] EXCEPT !.user = u, !.at = label])
        PROVE  Requests'
    <3>1. PICK r : r = [req[c] EXCEPT !.user = u, !.at = label]
      OBVIOUS
    <3>2. u \in DOMAIN user /\ u \in Nat
      BY Tables DEF UsersOf
    <3>3. r \in RequestState /\ r.at = label /\ r.user = u
      BY <1>2, <3>1, <3>2 DEF RequestState, ForUser
    <3>4. Placed(r)'
      BY <1>1, <3>2, <3>3 DEF Placed, tables, ForUser, OnPhone, Inviting
    <3>5. QED
      BY <1>1, <2>3, <3>1, <3>3, <3>4, OneMoves DEF Step
  <2>4. CASE UsersOf(req[c].contact) = {}
    BY <2>1, <2>2, <2>4 DEF LookUp
  <2>5. CASE UsersOf(req[c].contact) # {}
    <3>1. PICK u \in UsersOf(req[c].contact) :
            \/ Step(c, [req[c] EXCEPT !.user = u, !.at = IF req[c].contact \in Mails THEN "retire" ELSE "code"])
            \/ Refuse(c)
      BY <2>5 DEF LookUp
    <3>2. PICK label : label = IF req[c].contact \in Mails THEN "retire" ELSE "code"
      OBVIOUS
    <3>3. label \in {"retire", "code"}
      BY <3>2
    <3>4. CASE Refuse(c)
      BY <2>1, <3>4
    <3>5. CASE Step(c, [req[c] EXCEPT !.user = u, !.at = label])
      BY <2>3, <3>3, <3>5
    <3>6. QED
      BY <3>1, <3>2, <3>4, <3>5
  <2>6. QED
    BY <2>4, <2>5
<1>4. QED
  BY <1>1, <1>3, TablesStay

LEMMA EligibleKeeps ==
  ASSUME RowsInv, NEW c \in Clients, Eligible(c)
  PROVE  RowsInv'
<1>1. UNCHANGED tables /\ Codes' /\ Grows /\ req[c].at = "eligible"
  BY CodesStay, StayGrows DEF Eligible, tables
<1>2. CASE Refuse(c)
  BY <1>1, <1>2, RefusePlaces, TablesStay
<1>3. CASE Goto(c, "replace")
  <2>1. Requests'
    BY <1>1, <1>3, GotoPlaces DEF ForUser, OnPhone, Inviting
  <2>2. QED
    BY <1>1, <2>1, TablesStay
<1>4. QED
  BY <1>2, <1>3 DEF Eligible

LEMMA SendReferralKeeps ==
  ASSUME RowsInv, NEW c \in Clients, NEW sent \in BOOLEAN, SendReferral(c, sent)
  PROVE  RowsInv'
<1>1. UNCHANGED tables /\ Codes' /\ Grows /\ req[c].at = "send referral"
  BY CodesStay, StayGrows DEF SendReferral, tables
<1>2. CASE Refuse(c)
  BY <1>1, <1>2, RefusePlaces, TablesStay
<1>3. CASE Goto(c, "revoke")
  <2>1. Requests'
    BY <1>1, <1>3, GotoPlaces DEF ForUser, OnPhone, Inviting
  <2>2. QED
    BY <1>1, <2>1, TablesStay
<1>4. QED
  BY <1>2, <1>3 DEF SendReferral

LEMMA StopKeeps ==
  ASSUME RowsInv, NEW c \in Clients, Stop(c)
  PROVE  RowsInv'
<1>1. UNCHANGED tables /\ Codes' /\ Grows /\ Refuse(c)
  BY CodesStay, StayGrows DEF Stop, tables
<1>2. QED
  BY <1>1, RefusePlaces, TablesStay

LEMMA WindowOverKeeps ==
  ASSUME RowsInv, NEW route \in Routes, NEW m \in Contacts, WindowOver(route, m)
  PROVE  RowsInv'
<1>1. UNCHANGED tables /\ Codes' /\ Grows /\ req' = req
  BY CodesStay, StayGrows DEF WindowOver, tables
<1>2. QED
  BY <1>1, NobodyMoves, TablesStay

LEMMA CodeOverKeeps ==
  ASSUME RowsInv, NEW u \in DOMAIN user, CodeOver(u)
  PROVE  RowsInv'
<1>1. UNCHANGED tables /\ Grows /\ req' = req
  BY StayGrows DEF CodeOver, tables
<1>2. drawn' \in Nat /\ otp' = [otp EXCEPT ![u] = NoCode] /\ user' = user
  BY DEF CodeOver, RowsInv, Codes
<1>3. Codes'
  BY <1>2, OneCode, NoCodeIsCode
<1>4. QED
  BY <1>1, <1>3, NobodyMoves, TablesStay

LEMMA StoreCodeKeeps ==
  ASSUME RowsInv, NEW c \in Clients, StoreCode(c)
  PROVE  RowsInv'
<1>1. UNCHANGED tables /\ Grows /\ req[c].at = "code" /\ Goto(c, "send code")
  BY StayGrows DEF StoreCode, tables
<1>2. PICK u, x : u = req[c].user /\ x = [gen |-> drawn + 1, attempts |-> 0]
  OBVIOUS
<1>3. u \in DOMAIN user
  BY <1>1, <1>2, Tables DEF Placed, ForUser
<1>4. x \in CodeRow /\ drawn' \in Nat /\ user' = user
  <2>1. drawn \in Nat /\ drawn' = drawn + 1 /\ user' = user
    BY DEF RowsInv, Codes, StoreCode
  <2>2. QED
    BY <1>2, <2>1, RegistrationAssumption DEF CodeRow
<1>5. Codes'
  <2>1. otp' = [otp EXCEPT ![u] = x]
    BY <1>2 DEF StoreCode
  <2>2. QED
    BY <1>3, <1>4, <2>1, OneCode
<1>6. Requests'
  BY <1>1, GotoPlaces DEF ForUser, OnPhone, Inviting
<1>7. QED
  BY <1>1, <1>5, <1>6, TablesStay

LEMMA SendCodeKeeps ==
  ASSUME RowsInv, NEW c \in Clients, NEW sent \in BOOLEAN, SendCode(c, sent)
  PROVE  RowsInv'
<1>1. UNCHANGED tables /\ Grows /\ req[c].at = "send code" /\ Refuse(c)
  BY StayGrows DEF SendCode, tables
<1>2. PICK u : u = req[c].user
  OBVIOUS
<1>3. u \in DOMAIN user
  BY <1>1, <1>2, Tables DEF Placed, ForUser
<1>4. drawn' = drawn /\ drawn \in Nat /\ user' = user
  BY DEF SendCode, RowsInv, Codes
<1>5. CASE otp' = otp
  BY <1>1, <1>4, <1>5, CodesStay, RefusePlaces, TablesStay
<1>6. CASE otp' = [otp EXCEPT ![u] = NoCode]
  <2>1. Codes'
    BY <1>3, <1>4, <1>6, OneCode, NoCodeIsCode
  <2>2. QED
    BY <1>1, <2>1, RefusePlaces, TablesStay
<1>7. QED
  BY <1>2, <1>5, <1>6 DEF SendCode

LEMMA CheckCodeKeeps ==
  ASSUME RowsInv, NEW c \in Clients, CheckCode(c)
  PROVE  RowsInv'
<1>1. UNCHANGED tables /\ Grows /\ req[c].at = "check"
  BY StayGrows DEF CheckCode, tables
<1>2. PICK u : u = req[c].user
  OBVIOUS
<1>3. u \in DOMAIN user /\ otp[u] \in CodeRow /\ DOMAIN otp = DOMAIN user
  BY <1>1, <1>2, Tables DEF Placed, ForUser, OnPhone
<1>4. drawn' = drawn /\ drawn \in Nat /\ user' = user
  BY DEF CheckCode, RowsInv, Codes
<1>5. Codes'
  <2>1. CASE otp' = otp
    BY <1>4, <2>1, CodesStay
  <2>2. CASE otp' # otp
    <3>1. PICK x : x = IF otp[u].gen = req[c].code \/ otp[u].attempts + 1 >= OtpAttempts
                       THEN NoCode ELSE [otp[u] EXCEPT !.attempts = @ + 1]
      OBVIOUS
    <3>2. x \in CodeRow
      BY <1>3, <3>1, NoCodeIsCode, RegistrationAssumption DEF CodeRow
    <3>3. otp' = [otp EXCEPT ![u] = x]
      <4>1. otp[u].gen # 0
        BY <1>2, <2>2 DEF CheckCode
      <4>2. CASE otp[u].gen = req[c].code \/ otp[u].attempts + 1 >= OtpAttempts
        BY <1>2, <3>1, <4>1, <4>2 DEF CheckCode
      <4>3. CASE ~(otp[u].gen = req[c].code \/ otp[u].attempts + 1 >= OtpAttempts)
        <5>1. x = [otp[u] EXCEPT !.attempts = @ + 1]
          BY <3>1, <4>3
        <5>2. otp' = [otp EXCEPT ![u] = [otp[u] EXCEPT !.attempts = @ + 1]]
          BY <1>2, <1>3, <4>1, <4>3 DEF CheckCode, CodeRow
        <5>3. QED
          BY <5>1, <5>2
      <4>4. QED
        BY <4>2, <4>3
    <3>4. QED
      BY <1>3, <1>4, <3>2, <3>3, OneCode
  <2>3. QED
    BY <2>1, <2>2
<1>6. Requests'
  <2>1. CASE Refuse(c)
    BY <1>1, <2>1, RefusePlaces
  <2>2. CASE Goto(c, "activate")
    BY <1>1, <2>2, GotoPlaces DEF ForUser, OnPhone, Inviting
  <2>3. QED
    BY <2>1, <2>2 DEF CheckCode
<1>7. QED
  BY <1>1, <1>5, <1>6, TablesStay
-----------------------------------------------------------------------------
(***************************************************************************)
(* Steps that change users, links or referrals.                            *)
(***************************************************************************)
LEMMA GrowsUsers ==
  ASSUME RowsInv, load' = load, UNCHANGED user \/ user' \in Seq(UserRow),
         Len(user) <= Len(user'), Len(user') <= MaxUsers, Unique(user)'
  PROVE  Users'
<1>1. Len(load.users) \in Nat /\ Len(user) \in Nat /\ user \in Seq(UserRow) /\ Len(load.users) <= Len(user)
  BY Tables, RegistrationAssumption DEF RowsInv, Users
<1>2. user' \in Seq(UserRow) /\ Len(user') \in Nat
  BY <1>1
<1>3. QED
  BY <1>1, <1>2 DEF RowsInv, Users

LEMMA UsersStay ==
  ASSUME RowsInv, UNCHANGED <<load, user>>
  PROVE  Users'
BY DEF RowsInv, Users, Unique

LEMMA LinksStay ==
  ASSUME RowsInv, Grows, link' = link
  PROVE  Links'
BY DEF RowsInv, Links, Grows

\* A referral stays good unless its account becomes active before it is earned.
LEMMA StillGood ==
  ASSUME RowsInv, Grows, NEW row, GoodReferral(row),
         row.state = "registered" => user'[row.user].state # "active"
  PROVE  GoodReferral(row)'
BY DEF GoodReferral, Grows

LEMMA ReferredStay ==
  ASSUME RowsInv, Grows, referral' = referral,
         \A r \in DOMAIN referral : referral[r].state = "registered" => user'[referral[r].user].state # "active"
  PROVE  Referred'
<1>1. \A r \in DOMAIN referral : GoodReferral(referral[r])
  BY DEF RowsInv, Referred
<1>2. ASSUME NEW row, GoodReferral(row), row.state = "registered" => user'[row.user].state # "active"
      PROVE  GoodReferral(row)'
  BY <1>2, StillGood
<1>3. \A r \in DOMAIN referral : GoodReferral(referral[r])'
  BY <1>1, <1>2
<1>4. QED
  BY <1>3 DEF RowsInv, Referred, OneReferral

\* The states of referrals change, none of them taken before or after.
LEMMA ReferralsDie ==
  ASSUME RowsInv, Grows, UNCHANGED user, NEW s \in {"expired", "revoked"}, NEW R \in SUBSET DOMAIN referral,
         \A r \in R : referral[r].state = "invited", referral' = SetState(R, s)
  PROVE  Referred'
<1>1. \A r \in DOMAIN referral : referral[r] \in ReferralRow /\ GoodReferral(referral[r])
  BY Tables
<1>2. \A r \in DOMAIN referral : referral'[r] = IF r \in R THEN [referral[r] EXCEPT !.state = s] ELSE referral[r]
  BY DEF SetState
<1>3. referral' = [r \in DOMAIN referral |-> referral'[r]]
  BY DEF SetState
<1>4. ASSUME NEW r \in DOMAIN referral
      PROVE  /\ referral'[r] \in ReferralRow /\ GoodReferral(referral[r])'
             /\ referral'[r].user = referral[r].user
  <2>1. CASE r \in R
    <3>1. PICK x : x = [referral[r] EXCEPT !.state = s]
      OBVIOUS
    <3>2. x \in ReferralRow /\ x.from = referral[r].from /\ x.user = referral[r].user /\ x.state = s
      BY <1>1, <3>1 DEF ReferralRow
    <3>3. x.user = 0 /\ x.from \in DOMAIN user
      BY <1>1, <2>1, <3>2 DEF GoodReferral, Taken
    <3>4. referral'[r] = x
      BY <1>2, <2>1, <3>1
    <3>5. QED
      BY <3>2, <3>3, <3>4 DEF GoodReferral, Taken
  <2>2. CASE r \notin R
    BY <1>1, <1>2, <2>2 DEF GoodReferral
  <2>3. QED
    BY <2>1, <2>2
<1>5. referral \in Seq(ReferralRow) /\ Len(referral) <= MaxReferrals
  BY DEF RowsInv, Referred
<1>6. referral' \in Seq(ReferralRow) /\ Len(referral') = Len(referral) /\ DOMAIN referral' = DOMAIN referral
  BY <1>3, <1>4, <1>5, SameLength
<1>7. OneReferral'
  BY <1>4, <1>6 DEF RowsInv, Referred, OneReferral
<1>8. QED
  BY <1>4, <1>5, <1>6, <1>7 DEF Referred

\* One user row is replaced, not its contact.
LEMMA OneUser ==
  ASSUME RowsInv, load' = load, DOMAIN referral' = DOMAIN referral, NEW u \in DOMAIN user, NEW x \in UserRow,
         x.contact = user[u].contact, user' = [user EXCEPT ![u] = x]
  PROVE  /\ Users' /\ Grows /\ DOMAIN user' = DOMAIN user /\ Len(user') = Len(user)
         /\ user'[u] = x /\ \A v \in DOMAIN user : v # u => user'[v] = user[v]
<1>1. user \in Seq(UserRow) /\ Len(user) \in Nat /\ Len(user) <= MaxUsers
  BY Tables DEF RowsInv, Users
<1>2. /\ user' \in Seq(UserRow) /\ Len(user') = Len(user) /\ DOMAIN user' = DOMAIN user
      /\ user'[u] = x /\ \A v \in DOMAIN user : v # u => user'[v] = user[v]
  BY <1>1, OneEntry
<1>3. \A v \in DOMAIN user : user'[v].contact = user[v].contact
  BY <1>2
<1>4. Unique(user)'
  BY <1>2, <1>3 DEF RowsInv, Users, Unique
<1>5. Users'
  BY <1>1, <1>2, <1>4, GrowsUsers
<1>6. QED
  BY <1>2, <1>3, <1>5 DEF Grows

\* The row of a user who becomes active.
LEMMA ActiveRow ==
  ASSUME RowsInv, NEW u \in DOMAIN user
  PROVE  \E x \in UserRow : /\ x.contact = user[u].contact /\ x.state = "active"
                            /\ Activated(u) = [user EXCEPT ![u] = x]
<1>1. user[u] \in UserRow
  BY Tables
<1>2. PICK x : x = [user[u] EXCEPT !.state = "active", !.verified = TRUE, !.version = @ + 1]
  OBVIOUS
<1>3. x \in UserRow /\ x.contact = user[u].contact /\ x.state = "active"
  <2>1. user[u].version + 1 \in Nat \ {0}
    BY <1>1 DEF UserRow
  <2>2. QED
    BY <1>1, <1>2, <2>1 DEF UserRow
<1>4. Activated(u) = [user EXCEPT ![u] = x]
  BY <1>1, <1>2 DEF Activated, UserRow
<1>5. QED
  BY <1>3, <1>4

LEMMA SuspendKeeps ==
  ASSUME RowsInv, NEW u \in DOMAIN user, Suspend(u)
  PROVE  RowsInv'
<1>1. user[u] \in UserRow
  BY Tables
<1>2. PICK x : x = [user[u] EXCEPT !.state = "suspended", !.version = @ + 1]
  OBVIOUS
<1>3. x \in UserRow /\ x.contact = user[u].contact /\ x.state = "suspended"
  <2>1. user[u].version + 1 \in Nat \ {0}
    BY <1>1 DEF UserRow
  <2>2. QED
    BY <1>1, <1>2, <2>1 DEF UserRow
<1>4. user' = [user EXCEPT ![u] = x]
  BY <1>1, <1>2 DEF Suspend, UserRow
<1>5. load' = load /\ referral' = referral /\ link' = link /\ req' = req /\ otp' = otp /\ drawn' = drawn
  BY DEF Suspend
<1>6. /\ Users' /\ Grows /\ DOMAIN user' = DOMAIN user /\ Len(user') = Len(user)
      /\ user'[u] = x /\ \A v \in DOMAIN user : v # u => user'[v] = user[v]
  BY <1>3, <1>4, <1>5, OneUser
<1>7. \A r \in DOMAIN referral : referral[r].state = "registered" => user'[referral[r].user].state # "active"
  BY <1>3, <1>6, Tables DEF GoodReferral, Taken
<1>8. Links' /\ Referred' /\ Requests'
  BY <1>5, <1>6, <1>7, LinksStay, ReferredStay, NobodyMoves
<1>9. Codes'
  BY <1>5, <1>6 DEF RowsInv, Codes
<1>10. QED
  BY <1>6, <1>8, <1>9 DEF RowsInv

LEMMA ActivatePhoneKeeps ==
  ASSUME RowsInv, NEW c \in Clients, ActivatePhone(c)
  PROVE  RowsInv'
<1>1. /\ load' = load /\ referral' = referral /\ link' = link /\ otp' = otp /\ drawn' = drawn /\ Refuse(c)
      /\ req[c].at = "activate"
  BY DEF ActivatePhone
<1>2. PICK u : u = req[c].user
  OBVIOUS
<1>3. u \in DOMAIN user /\ user[u].contact \in Phones
  BY <1>1, <1>2, Tables DEF Placed, ForUser, OnPhone
<1>4. CASE user' = user
  BY <1>1, <1>4, StayGrows, CodesStay, RefusePlaces, TablesStay DEF tables
<1>5. CASE user' = Activated(u)
  <2>1. PICK x \in UserRow : x.contact = user[u].contact /\ Activated(u) = [user EXCEPT ![u] = x]
    BY <1>3, ActiveRow
  <2>2. /\ Users' /\ Grows /\ DOMAIN user' = DOMAIN user /\ Len(user') = Len(user)
        /\ user'[u] = x /\ \A v \in DOMAIN user : v # u => user'[v] = user[v]
    BY <1>1, <1>3, <1>5, <2>1, OneUser
  <2>3. \A r \in DOMAIN referral : referral[r].state = "registered" => user'[referral[r].user].state # "active"
    <3>1. ASSUME NEW r \in DOMAIN referral, referral[r].state = "registered" PROVE user'[referral[r].user].state # "active"
      <4>1. /\ referral[r].user \in DOMAIN user /\ user[referral[r].user].contact \in Mails
            /\ user[referral[r].user].state # "active"
        BY <3>1, Tables DEF GoodReferral, Taken
      <4>2. referral[r].user # u
        BY <1>3, <4>1, RegistrationAssumption
      <4>3. QED
        BY <2>2, <4>1, <4>2
    <3>2. QED
      BY <3>1
  <2>4. Links' /\ Referred' /\ Requests'
    BY <1>1, <2>2, <2>3, LinksStay, ReferredStay, RefusePlaces
  <2>5. Codes'
    BY <1>1, <2>2 DEF RowsInv, Codes
  <2>6. QED
    BY <2>2, <2>4, <2>5 DEF RowsInv
<1>6. QED
  BY <1>2, <1>4, <1>5 DEF ActivatePhone
LEMMA RevokeInvitedKeeps ==
  ASSUME RowsInv, NEW c \in Clients, RevokeInvited(c)
  PROVE  RowsInv'
<1>1. UNCHANGED <<load, user, link, otp, drawn>> /\ req[c].at = "replace" /\ Goto(c, "insert referral")
  BY DEF RevokeInvited
<1>2. PICK R : R = Invited(req[c].user, req[c].contact)
  OBVIOUS
<1>3. R \in SUBSET DOMAIN referral /\ (\A r \in R : referral[r].state = "invited") /\ referral' = SetState(R, "revoked")
  BY <1>2 DEF Invited, RevokeInvited
<1>4. Grows
  BY <1>1, <1>3 DEF Grows, SetState
<1>5. Referred'
  BY <1>1, <1>3, <1>4, ReferralsDie
<1>6. Requests'
  BY <1>1, <1>4, GotoPlaces DEF ForUser, OnPhone, Inviting
<1>7. QED
  BY <1>1, <1>4, <1>5, <1>6, UsersStay, LinksStay, CodesStay DEF RowsInv

LEMMA RevokeReferralKeeps ==
  ASSUME RowsInv, NEW c \in Clients, RevokeReferral(c)
  PROVE  RowsInv'
<1>1. UNCHANGED <<load, user, link, otp, drawn>> /\ req[c].at = "revoke" /\ Refuse(c)
  BY DEF RevokeReferral
<1>2. PICK R : R = Revocable(req[c].ref)
  OBVIOUS
<1>3. R \in SUBSET DOMAIN referral /\ (\A r \in R : referral[r].state = "invited") /\ referral' = SetState(R, "revoked")
  BY <1>1, <1>2, Tables DEF Revocable, RevokeReferral, Placed
<1>4. Grows
  BY <1>1, <1>3 DEF Grows, SetState
<1>5. QED
  BY <1>1, <1>3, <1>4, ReferralsDie, RefusePlaces, UsersStay, LinksStay, CodesStay DEF RowsInv

LEMMA ListReferralsKeeps ==
  ASSUME RowsInv, NEW u \in DOMAIN user, ListReferrals(u)
  PROVE  RowsInv'
<1>1. UNCHANGED <<load, user, link, otp, drawn, req>>
  BY DEF ListReferrals
<1>2. PICK R : R = {r \in DOMAIN referral : referral[r].from = u /\ referral[r].state = "invited" /\ referral[r].over}
  OBVIOUS
<1>3. R \in SUBSET DOMAIN referral /\ (\A r \in R : referral[r].state = "invited") /\ referral' = SetState(R, "expired")
  BY <1>2 DEF ListReferrals
<1>4. Grows
  BY <1>1, <1>3 DEF Grows, SetState
<1>5. QED
  BY <1>1, <1>3, <1>4, ReferralsDie, NobodyMoves, UsersStay, LinksStay, CodesStay DEF RowsInv

LEMMA ReferralOverKeeps ==
  ASSUME RowsInv, NEW r \in DOMAIN referral, ReferralOver(r)
  PROVE  RowsInv'
<1>1. UNCHANGED <<load, user, link, otp, drawn, req>>
  BY DEF ReferralOver
<1>2. referral[r] \in ReferralRow /\ referral \in Seq(ReferralRow) /\ Len(referral) <= MaxReferrals
  BY Tables DEF RowsInv, Referred
<1>3. PICK x : x = [referral[r] EXCEPT !.over = TRUE]
  OBVIOUS
<1>4. /\ x \in ReferralRow /\ x.from = referral[r].from /\ x.user = referral[r].user
      /\ x.state = referral[r].state /\ x.mail = referral[r].mail
  BY <1>2, <1>3 DEF ReferralRow
<1>5. referral' = [referral EXCEPT ![r] = x]
  BY <1>3 DEF ReferralOver
<1>6. /\ referral' \in Seq(ReferralRow) /\ Len(referral') = Len(referral) /\ DOMAIN referral' = DOMAIN referral
      /\ referral'[r] = x /\ \A k \in DOMAIN referral : k # r => referral'[k] = referral[k]
  BY <1>2, <1>4, <1>5, OneEntry
<1>7. \A k \in DOMAIN referral : /\ referral'[k].user = referral[k].user
                                 /\ GoodReferral(referral[k]) => GoodReferral(referral[k])'
  <2>1. ASSUME NEW k \in DOMAIN referral, k # r
        PROVE  referral'[k].user = referral[k].user /\ (GoodReferral(referral[k]) => GoodReferral(referral[k])')
    BY <1>1, <1>6, <2>1 DEF GoodReferral
  <2>2. referral'[r].user = referral[r].user /\ (GoodReferral(referral[r]) => GoodReferral(referral[r])')
    BY <1>1, <1>4, <1>6 DEF GoodReferral
  <2>3. QED
    BY <2>1, <2>2
<1>8. Referred'
  BY <1>2, <1>6, <1>7 DEF RowsInv, Referred, OneReferral
<1>9. Grows
  BY <1>1, <1>6 DEF Grows
<1>10. QED
  BY <1>1, <1>8, <1>9, NobodyMoves, UsersStay, LinksStay, CodesStay DEF RowsInv

LEMMA LinkOverKeeps ==
  ASSUME RowsInv, NEW t \in DOMAIN link, LinkOver(t)
  PROVE  RowsInv'
<1>1. UNCHANGED <<load, user, referral, otp, drawn, req>>
  BY DEF LinkOver
<1>2. PICK x : x = [link[t] EXCEPT !.over = TRUE]
  OBVIOUS
<1>3. x \in LinkRow /\ x.user = link[t].user /\ link \in Seq(LinkRow)
  BY <1>2, Tables DEF LinkRow, RowsInv, Links
<1>4. link' = [link EXCEPT ![t] = x]
  BY <1>2 DEF LinkOver
<1>5. /\ link' \in Seq(LinkRow) /\ DOMAIN link' = DOMAIN link
      /\ link'[t] = x /\ \A k \in DOMAIN link : k # t => link'[k] = link[k]
  BY <1>3, <1>4, OneEntry
<1>6. Links'
  BY <1>1, <1>3, <1>5, Tables DEF Links
<1>7. Grows
  BY <1>1 DEF Grows
<1>8. Referred'
  BY <1>1 DEF RowsInv, Referred, OneReferral, GoodReferral
<1>9. QED
  BY <1>1, <1>6, <1>7, <1>8, NobodyMoves, UsersStay, CodesStay DEF RowsInv

\* The links that are used up keep their users.
LEMMA RetiredLinks ==
  ASSUME RowsInv, NEW u
  PROVE  /\ Retired(u) \in Seq(LinkRow) /\ DOMAIN Retired(u) = DOMAIN link
         /\ \A t \in DOMAIN link : /\ Retired(u)[t].user = link[t].user
                                   /\ Retired(u)[t].consumed <=> link[t].consumed \/ t \in Fresh(u)
<1>1. link \in Seq(LinkRow) /\ \A t \in DOMAIN link : link[t] \in LinkRow
  BY Tables DEF RowsInv, Links
<1>2. PICK f : f = Retired(u)
  OBVIOUS
<1>3. f = [t \in DOMAIN link |-> f[t]]
  BY <1>2 DEF Retired
<1>4. ASSUME NEW t \in DOMAIN link
      PROVE  f[t] \in LinkRow /\ f[t].user = link[t].user /\ (f[t].consumed <=> link[t].consumed \/ t \in Fresh(u))
  <2>1. PICK x : x = [link[t] EXCEPT !.consumed = TRUE]
    OBVIOUS
  <2>2. x \in LinkRow /\ x.user = link[t].user /\ x.consumed
    BY <1>1, <2>1 DEF LinkRow
  <2>3. f[t] = IF t \in Fresh(u) THEN x ELSE link[t]
    BY <1>2, <2>1 DEF Retired
  <2>4. QED
    BY <1>1, <2>2, <2>3
<1>5. QED
  BY <1>1, <1>2, <1>3, <1>4, SameLength

LEMMA RetireLinksKeeps ==
  ASSUME RowsInv, NEW c \in Clients, RetireLinks(c)
  PROVE  RowsInv'
<1>1. UNCHANGED <<load, user, referral, otp, drawn>> /\ req[c].at = "retire" /\ Goto(c, "insert link")
  BY DEF RetireLinks
<1>2. link' = Retired(req[c].user)
  BY DEF RetireLinks
<1>3. Links'
  BY <1>1, <1>2, RetiredLinks, Tables DEF Links
<1>4. Grows
  BY <1>1 DEF Grows
<1>5. Referred'
  BY <1>1 DEF RowsInv, Referred, OneReferral, GoodReferral
<1>6. Requests'
  BY <1>1, <1>4, GotoPlaces DEF ForUser, OnPhone, Inviting
<1>7. QED
  BY <1>1, <1>3, <1>5, <1>6, UsersStay, CodesStay DEF RowsInv

\* A link is added for a user.
LEMMA LinkAdded ==
  ASSUME RowsInv, Grows, Users', NEW u \in DOMAIN user', NewLink(u)
  PROVE  Links'
<1>1. PICK x : x = [user |-> u, consumed |-> FALSE, over |-> FALSE]
  OBVIOUS
<1>2. u \in 1..MaxUsers
  <2>1. user' \in Seq(UserRow) /\ Len(user') <= MaxUsers
    BY DEF Users
  <2>2. u \in 1..Len(user') /\ Len(user') \in Nat
    BY <2>1
  <2>3. QED
    BY <2>1, <2>2, RegistrationAssumption
<1>3. x \in LinkRow /\ link \in Seq(LinkRow)
  BY <1>1, <1>2 DEF LinkRow, RowsInv, Links
<1>4. /\ link' \in Seq(LinkRow) /\ DOMAIN link' = DOMAIN link \cup {Len(link) + 1}
      /\ link'[Len(link) + 1] = x /\ \A k \in DOMAIN link : link'[k] = link[k]
  BY <1>1, <1>3, OneMore DEF NewLink
<1>5. \A t \in DOMAIN link' : link'[t].user \in DOMAIN user'
  BY <1>1, <1>4, Tables DEF Grows
<1>6. QED
  BY <1>4, <1>5 DEF Links

LEMMA InsertLinkKeeps ==
  ASSUME RowsInv, NEW c \in Clients, InsertLink(c)
  PROVE  RowsInv'
<1>1. UNCHANGED <<load, user, referral, otp, drawn>> /\ req[c].at = "insert link" /\ Refuse(c)
  BY DEF InsertLink
<1>2. PICK u : u = req[c].user
  OBVIOUS
<1>3. u \in DOMAIN user /\ NewLink(u)
  BY <1>1, <1>2, Tables DEF InsertLink, Placed, ForUser
<1>4. Grows /\ Users'
  BY <1>1, UsersStay DEF Grows
<1>5. Links'
  BY <1>1, <1>3, <1>4, LinkAdded
<1>6. Referred'
  BY <1>1 DEF RowsInv, Referred, OneReferral, GoodReferral
<1>7. QED
  BY <1>1, <1>4, <1>5, <1>6, RefusePlaces, CodesStay DEF RowsInv

LEMMA CreateReferralKeeps ==
  ASSUME RowsInv, NEW c \in Clients, CreateReferral(c)
  PROVE  RowsInv'
<1>1. UNCHANGED <<load, user, link, otp, drawn>> /\ req[c].at = "insert referral"
  BY DEF CreateReferral
<1>2. PICK x, k : /\ x = [from |-> req[c].user, mail |-> req[c].contact, state |-> "invited", user |-> 0, over |-> FALSE]
                  /\ k = Len(referral) + 1
  OBVIOUS
<1>3. /\ req[c] \in RequestState /\ req[c].user \in DOMAIN user /\ req[c].contact \in Mails
      /\ Len(referral) \in Nat /\ Len(referral) <= MaxReferrals /\ referral \in Seq(ReferralRow)
      /\ Len(user) \in Nat /\ DOMAIN user = 1..Len(user) /\ Len(user) <= MaxUsers
  BY <1>1, Tables DEF Placed, ForUser, Inviting, RowsInv, Referred, Users
<1>4. x \in ReferralRow /\ x.user = 0 /\ x.state = "invited" /\ x.from \in DOMAIN user
  <2>1. req[c].user \in 1..MaxUsers
    BY <1>3, RegistrationAssumption
  <2>2. QED
    BY <1>2, <1>3, <2>1, RegistrationAssumption DEF ReferralRow
<1>5. /\ referral' \in Seq(ReferralRow) /\ Len(referral') = k /\ DOMAIN referral' = DOMAIN referral \cup {k}
      /\ referral'[k] = x /\ k \notin DOMAIN referral /\ \A r \in DOMAIN referral : referral'[r] = referral[r]
  <2>1. referral' = Append(referral, x)
    BY <1>2 DEF CreateReferral
  <2>2. QED
    BY <1>2, <1>3, <1>4, <2>1, OneMore
<1>6. Len(referral') <= MaxReferrals /\ k \in Nat
  <2>1. Len(referral) < MaxReferrals
    BY DEF CreateReferral
  <2>2. QED
    BY <1>2, <1>3, <1>5, <2>1, RegistrationAssumption
<1>7. \A r \in DOMAIN referral' : GoodReferral(referral[r])'
  <2>1. GoodReferral(referral[k])'
    BY <1>1, <1>4, <1>5 DEF GoodReferral, Taken
  <2>2. \A r \in DOMAIN referral : GoodReferral(referral[r])'
    BY <1>1, <1>5, Tables DEF GoodReferral
  <2>3. QED
    BY <1>5, <2>1, <2>2
<1>8. Referred'
  BY <1>4, <1>5, <1>6, <1>7 DEF RowsInv, Referred, OneReferral
<1>9. Grows
  BY <1>1, <1>5 DEF Grows
<1>10. Requests'
  <2>1. PICK r : r = [req[c] EXCEPT !.at = "send referral", !.ref = k]
    OBVIOUS
  <2>2. /\ r \in RequestState /\ r.at = "send referral" /\ r.ref = k /\ r.user = req[c].user
        /\ r.contact = req[c].contact
    BY <1>3, <1>6, <2>1 DEF RequestState, ForUser, Inviting
  <2>3. Placed(r)'
    BY <1>1, <1>3, <1>5, <2>2 DEF Placed, ForUser, OnPhone, Inviting
  <2>4. req' = [req EXCEPT ![c] = r]
    BY <1>2, <2>1 DEF CreateReferral, Step
  <2>5. QED
    BY <1>9, <2>2, <2>3, <2>4, OneMoves
<1>11. QED
  BY <1>1, <1>8, <1>9, <1>10, UsersStay, LinksStay, CodesStay DEF RowsInv
\* A user is added, at the end, with a contact nobody had.
LEMMA UserAdded ==
  ASSUME RowsInv, load' = load, DOMAIN referral \subseteq DOMAIN referral', NEW m \in Contacts,
         NoDuplicate(m), NewUser(m), drawn' = drawn
  PROVE  /\ Users' /\ Codes' /\ Grows
         /\ DOMAIN user' = DOMAIN user \cup {Len(user) + 1} /\ Len(user) + 1 \notin DOMAIN user
         /\ Len(user) + 1 \in 1..MaxUsers
         /\ user'[Len(user) + 1].contact = m /\ user'[Len(user) + 1].state = "pending"
         /\ \A v \in DOMAIN user : user'[v] = user[v]
<1>1. PICK x, u : u = Len(user) + 1 /\ x = [contact |-> m, state |-> "pending", verified |-> FALSE, version |-> 1]
  OBVIOUS
<1>2. x \in UserRow /\ user \in Seq(UserRow) /\ Len(user) \in Nat /\ Len(user) < MaxUsers
  BY <1>1, Tables DEF UserRow, RowsInv, Users, NewUser
<1>3. /\ user' \in Seq(UserRow) /\ Len(user') = u /\ DOMAIN user' = DOMAIN user \cup {u} /\ user'[u] = x
      /\ u \notin DOMAIN user /\ \A v \in DOMAIN user : user'[v] = user[v]
  BY <1>1, <1>2, OneMore DEF NewUser
<1>4. u \in 1..MaxUsers /\ Len(user') <= MaxUsers /\ Len(user) <= Len(user')
  BY <1>1, <1>2, <1>3, RegistrationAssumption
<1>5. \A v \in DOMAIN user : user[v].contact # m
  BY DEF NoDuplicate, UsersOf
<1>6. x.contact = m /\ x.state = "pending"
  BY <1>1
<1>7. Unique(user)'
  BY <1>3, <1>5, <1>6 DEF RowsInv, Users, Unique
<1>8. Users'
  BY <1>3, <1>4, <1>7, GrowsUsers
<1>9. Codes'
  <2>1. otp \in Seq(CodeRow) /\ Len(otp) = Len(user) /\ drawn \in Nat
    BY DEF RowsInv, Codes
  <2>2. otp' \in Seq(CodeRow) /\ Len(otp') = Len(otp) + 1
    BY <2>1, OneMore, NoCodeIsCode DEF NewUser
  <2>3. QED
    BY <1>1, <1>3, <2>1, <2>2 DEF Codes
<1>10. Grows
  BY <1>3 DEF Grows
<1>11. QED
  BY <1>1, <1>3, <1>4, <1>6, <1>8, <1>9, <1>10

LEMMA CreatePhoneRegistrationKeeps ==
  ASSUME RowsInv, NEW c \in Clients, CreatePhoneRegistration(c)
  PROVE  RowsInv'
<1>1. PICK m : m = req[c].contact
  OBVIOUS
<1>2. m \in Phones /\ m \in Contacts /\ UNCHANGED <<load, link, referral, drawn>> /\ req[c] \in RequestState
  BY <1>1, Tables DEF CreatePhoneRegistration, Contacts
<1>3. CASE ~NoDuplicate(m)
  <2>1. UNCHANGED <<user, otp>> /\ Refuse(c)
    BY <1>1, <1>3 DEF CreatePhoneRegistration
  <2>2. QED
    BY <1>2, <2>1, StayGrows, CodesStay, RefusePlaces, TablesStay DEF tables
<1>4. CASE NoDuplicate(m)
  <2>1. PICK u, r : u = Len(user) + 1 /\ r = [req[c] EXCEPT !.user = u, !.at = "code"]
    OBVIOUS
  <2>2. NewUser(m) /\ req' = [req EXCEPT ![c] = r]
    BY <1>1, <1>4, <2>1 DEF CreatePhoneRegistration, Step
  <2>3. /\ Users' /\ Codes' /\ Grows
        /\ DOMAIN user' = DOMAIN user \cup {u} /\ u \notin DOMAIN user
        /\ u \in 1..MaxUsers
        /\ user'[u].contact = m /\ user'[u].state = "pending"
        /\ \A v \in DOMAIN user : user'[v] = user[v]
    BY <1>2, <1>4, <2>1, <2>2, UserAdded
  <2>4. r \in RequestState /\ r.at = "code" /\ r.user = u
    <3>1. u \in Nat
      BY <2>3
    <3>2. QED
      BY <1>2, <2>1, <3>1 DEF RequestState, ForUser
  <2>5. Placed(r)'
    BY <2>3, <2>4 DEF Placed, ForUser, OnPhone, Inviting
  <2>6. Requests'
    BY <2>2, <2>3, <2>4, <2>5, OneMoves
  <2>7. \A k \in DOMAIN referral : referral[k].state = "registered" => user'[referral[k].user].state # "active"
    BY <2>3, Tables DEF GoodReferral, Taken
  <2>8. Links' /\ Referred'
    BY <1>2, <2>3, <2>7, LinksStay, ReferredStay
  <2>9. QED
    BY <2>3, <2>6, <2>8 DEF RowsInv
<1>5. QED
  BY <1>3, <1>4

\* The referral a new user claims.
LEMMA ClaimedReferral ==
  ASSUME RowsInv, NEW k, NEW m, Claimable(k, m), NEW u \in Nat,
         referral' = [referral EXCEPT ![k].user = u, ![k].state = "registered"], u \in 1..MaxUsers
  PROVE  /\ k \in DOMAIN referral /\ referral[k].state = "invited" /\ referral[k].mail = m /\ referral[k].user = 0
         /\ referral' \in Seq(ReferralRow) /\ Len(referral') = Len(referral) /\ DOMAIN referral' = DOMAIN referral
         /\ referral'[k].user = u /\ referral'[k].state = "registered"
         /\ referral'[k].from = referral[k].from /\ referral'[k].mail = referral[k].mail
         /\ \A r \in DOMAIN referral : r # k => referral'[r] = referral[r]
<1>1. k \in DOMAIN referral /\ referral[k] \in ReferralRow /\ referral[k].state = "invited" /\ referral[k].mail = m
  BY Tables DEF Claimable
<1>2. referral[k].user = 0
  BY <1>1, Tables DEF GoodReferral, Taken
<1>3. PICK x : x = [referral[k] EXCEPT !.user = u, !.state = "registered"]
  OBVIOUS
<1>4. u \in 0..MaxUsers
  BY RegistrationAssumption
<1>5. /\ x \in ReferralRow /\ x.user = u /\ x.state = "registered" /\ x.from = referral[k].from
      /\ x.mail = referral[k].mail
  BY <1>1, <1>3, <1>4 DEF ReferralRow
<1>6. referral' = [referral EXCEPT ![k] = x]
  BY <1>1, <1>3 DEF ReferralRow
<1>7. /\ referral' \in Seq(ReferralRow) /\ Len(referral') = Len(referral) /\ DOMAIN referral' = DOMAIN referral
      /\ referral'[k] = x /\ \A r \in DOMAIN referral : r # k => referral'[r] = referral[r]
  <2>1. referral \in Seq(ReferralRow)
    BY DEF RowsInv, Referred
  <2>2. k \in DOMAIN referral /\ x \in ReferralRow
    BY <1>1, <1>5
  <2>3. PICK f : f = referral'
    OBVIOUS
  <2>4. f = [referral EXCEPT ![k] = x]
    BY <1>6, <2>3
  <2>5. /\ f \in Seq(ReferralRow) /\ Len(f) = Len(referral) /\ DOMAIN f = DOMAIN referral
        /\ f[k] = x /\ \A r \in DOMAIN referral : r # k => f[r] = referral[r]
    BY <2>1, <2>2, <2>4, OneEntry
  <2>6. QED
    BY <2>3, <2>5
<1>8. QED
  BY <1>1, <1>2, <1>5, <1>7

LEMMA CreateEmailRegistrationKeeps ==
  ASSUME RowsInv, NEW c \in Clients, CreateEmailRegistration(c)
  PROVE  RowsInv'
<1>1. PICK m, k, u : m = req[c].contact /\ k = req[c].ref /\ u = Len(user) + 1
  OBVIOUS
<1>2. m \in Mails /\ m \in Contacts /\ UNCHANGED <<load, drawn>> /\ Refuse(c)
  BY <1>1 DEF CreateEmailRegistration, Contacts
<1>3. CASE ~NoDuplicate(m)
  <2>1. UNCHANGED <<user, otp, link, referral>>
    BY <1>1, <1>3 DEF CreateEmailRegistration
  <2>2. QED
    BY <1>2, <2>1, StayGrows, CodesStay, RefusePlaces, TablesStay DEF tables
<1>4. CASE NoDuplicate(m)
  <2>1. /\ NewUser(m) /\ NewLink(u)
        /\ referral' = IF Claimable(k, m) THEN [referral EXCEPT ![k].user = u, ![k].state = "registered"]
                       ELSE referral
    BY <1>1, <1>4 DEF CreateEmailRegistration
  <2>2. DOMAIN referral \subseteq DOMAIN referral'
    BY <2>1
  <2>3. /\ Users' /\ Codes' /\ Grows
        /\ DOMAIN user' = DOMAIN user \cup {u} /\ u \notin DOMAIN user
        /\ u \in 1..MaxUsers
        /\ user'[u].contact = m /\ user'[u].state = "pending"
        /\ \A v \in DOMAIN user : user'[v] = user[v]
    BY <1>1, <1>2, <1>4, <2>1, <2>2, UserAdded
  <2>4. Links'
    BY <2>1, <2>3, LinkAdded
  <2>5. \A r \in DOMAIN referral : referral[r].state = "registered" => user'[referral[r].user].state # "active"
    BY <2>3, Tables DEF GoodReferral, Taken
  <2>6. Referred'
    <3>1. CASE ~Claimable(k, m)
      BY <2>1, <2>3, <2>5, <3>1, ReferredStay
    <3>2. CASE Claimable(k, m)
      <4>1. referral' = [referral EXCEPT ![k].user = u, ![k].state = "registered"] /\ u \in Nat /\ u \in 1..MaxUsers
        BY <2>1, <2>3, <3>2
      <4>2. /\ k \in DOMAIN referral /\ referral[k].state = "invited" /\ referral[k].mail = m /\ referral[k].user = 0
            /\ referral' \in Seq(ReferralRow) /\ Len(referral') = Len(referral) /\ DOMAIN referral' = DOMAIN referral
            /\ referral'[k].user = u /\ referral'[k].state = "registered"
            /\ referral'[k].from = referral[k].from /\ referral'[k].mail = referral[k].mail
            /\ \A r \in DOMAIN referral : r # k => referral'[r] = referral[r]
        BY <3>2, <4>1, ClaimedReferral
      <4>3. GoodReferral(referral[k])'
        <5>1. referral[k].from \in DOMAIN user
          BY <4>2, Tables DEF GoodReferral
        <5>2. u # 0
          BY <2>3
        <5>3. QED
          BY <1>2, <2>3, <4>2, <5>1, <5>2 DEF GoodReferral, Taken
      <4>4. ASSUME NEW r \in DOMAIN referral, r # k PROVE GoodReferral(referral[r])' /\ referral[r].user # u
        <5>1. GoodReferral(referral[r]) /\ referral'[r] = referral[r]
          BY <4>2, <4>4, Tables
        <5>2. PICK row : row = referral[r]
          OBVIOUS
        <5>3. GoodReferral(row)'
          BY <2>3, <2>5, <5>1, <5>2, StillGood
        <5>4. referral[r].user # u
          BY <2>3, <5>1, <5>2 DEF GoodReferral
        <5>5. QED
          BY <5>1, <5>2, <5>3, <5>4
      <4>5. OneReferral'
        BY <4>2, <4>4 DEF RowsInv, Referred, OneReferral
      <4>6. Len(referral') <= MaxReferrals
        BY <4>2 DEF RowsInv, Referred
      <4>7. QED
        BY <4>2, <4>3, <4>4, <4>5, <4>6 DEF Referred
    <3>3. QED
      BY <3>1, <3>2
  <2>7. QED
    BY <1>2, <2>3, <2>4, <2>6, RefusePlaces DEF RowsInv
<1>5. QED
  BY <1>3, <1>4
\* The referrals a proven address earns.
EarnedBy(u) == {r \in DOMAIN referral : referral[r].user = u /\ referral[r].state = "registered"}
Earned(R) == [r \in DOMAIN referral |-> IF r \in R THEN [referral[r] EXCEPT !.state = "verified"] ELSE referral[r]]

LEMMA EarnedReferrals ==
  ASSUME RowsInv, NEW R \in SUBSET DOMAIN referral, referral' = Earned(R)
  PROVE  /\ referral' \in Seq(ReferralRow) /\ Len(referral') = Len(referral) /\ DOMAIN referral' = DOMAIN referral
         /\ \A r \in DOMAIN referral : /\ referral'[r].user = referral[r].user
                                       /\ referral'[r].from = referral[r].from
                                       /\ referral'[r].mail = referral[r].mail
                                       /\ referral'[r].state = IF r \in R THEN "verified" ELSE referral[r].state
<1>1. \A r \in DOMAIN referral : referral[r] \in ReferralRow
  BY Tables
<1>2. \A r \in DOMAIN referral : referral'[r] = IF r \in R THEN [referral[r] EXCEPT !.state = "verified"] ELSE referral[r]
  BY DEF Earned
<1>3. referral' = [r \in DOMAIN referral |-> referral'[r]]
  BY DEF Earned
<1>4. ASSUME NEW r \in DOMAIN referral
      PROVE  /\ referral'[r] \in ReferralRow /\ referral'[r].user = referral[r].user
             /\ referral'[r].from = referral[r].from /\ referral'[r].mail = referral[r].mail
             /\ referral'[r].state = IF r \in R THEN "verified" ELSE referral[r].state
  <2>1. PICK x : x = [referral[r] EXCEPT !.state = "verified"]
    OBVIOUS
  <2>2. /\ x \in ReferralRow /\ x.user = referral[r].user /\ x.from = referral[r].from
        /\ x.mail = referral[r].mail /\ x.state = "verified"
    BY <1>1, <2>1 DEF ReferralRow
  <2>3. referral'[r] = IF r \in R THEN x ELSE referral[r]
    BY <1>2, <2>1
  <2>4. QED
    BY <1>1, <2>2, <2>3
<1>5. referral \in Seq(ReferralRow)
  BY DEF RowsInv, Referred
<1>6. QED
  BY <1>3, <1>4, <1>5, SameLength

\* What verify_email does to the tables.
LEMMA VerifyEmailEffect ==
  ASSUME RowsInv, NEW t \in DOMAIN link, VerifyEmail(t), NEW u, u = link[t].user
  PROVE  /\ u \in DOMAIN user /\ UNCHANGED <<load, otp, drawn, req, raced>>
         /\ Links' /\ DOMAIN link' = DOMAIN link
         /\ \A k \in DOMAIN link : /\ link'[k].user = link[k].user
                                   /\ link'[k].consumed <=> link[k].consumed \/ k = t
         /\ \/ user[u].state = "suspended" /\ user' = user /\ referral' = Earned({})
            \/ user[u].state \in {"pending", "active"} /\ user' = Activated(u) /\ referral' = Earned(EarnedBy(u))
<1>1. u \in DOMAIN user /\ user[u] \in UserRow /\ link[t] \in LinkRow /\ link \in Seq(LinkRow)
  BY Tables DEF RowsInv, Links
<1>2. UNCHANGED <<load, otp, drawn, req, raced>> /\ link' = [link EXCEPT ![t].consumed = TRUE]
  BY DEF VerifyEmail
<1>3. PICK x : x = [link[t] EXCEPT !.consumed = TRUE]
  OBVIOUS
<1>4. x \in LinkRow /\ x.user = u /\ x.consumed
  BY <1>1, <1>3 DEF LinkRow
<1>5. /\ link' \in Seq(LinkRow) /\ DOMAIN link' = DOMAIN link /\ link'[t] = x
      /\ \A k \in DOMAIN link : k # t => link'[k] = link[k]
  <2>1. link' = [link EXCEPT ![t] = x]
    BY <1>2, <1>3
  <2>2. QED
    BY <1>1, <1>4, <2>1, OneEntry
<1>6. \A k \in DOMAIN link : /\ link'[k].user = link[k].user
                             /\ link'[k].consumed <=> link[k].consumed \/ k = t
  BY <1>4, <1>5
<1>7. CASE user[u].state = "suspended"
  <2>1. user' = user
    BY <1>7 DEF VerifyEmail
  <2>2. referral' = Earned({})
    BY <1>7 DEF VerifyEmail, Earned
  <2>3. Links'
    BY <1>5, <1>6, <2>1, Tables DEF Links
  <2>4. QED
    BY <1>1, <1>2, <1>5, <1>6, <1>7, <2>1, <2>2, <2>3
<1>8. CASE user[u].state \in {"pending", "active"}
  <2>1. user' = Activated(u)
    BY <1>8 DEF VerifyEmail
  <2>2. referral' = Earned(EarnedBy(u))
    BY <1>8 DEF VerifyEmail, Earned, EarnedBy
  <2>3. DOMAIN user' = DOMAIN user
    BY <2>1 DEF Activated
  <2>4. Links'
    BY <1>5, <1>6, <2>3, Tables DEF Links
  <2>5. QED
    BY <1>1, <1>2, <1>5, <1>6, <1>8, <2>1, <2>2, <2>4
<1>9. QED
  BY <1>1, <1>7, <1>8 DEF UserRow

LEMMA VerifyEmailKeeps ==
  ASSUME RowsInv, NEW t \in DOMAIN link, VerifyEmail(t)
  PROVE  RowsInv'
<1>1. PICK u : u = link[t].user
  OBVIOUS
<1>2. /\ u \in DOMAIN user /\ UNCHANGED <<load, otp, drawn, req>> /\ Links'
      /\ \/ user[u].state = "suspended" /\ user' = user /\ referral' = Earned({})
         \/ user[u].state \in {"pending", "active"} /\ user' = Activated(u) /\ referral' = Earned(EarnedBy(u))
  BY <1>1, VerifyEmailEffect
<1>3. Len(referral) <= MaxReferrals /\ \A r \in DOMAIN referral : GoodReferral(referral[r])
  BY DEF RowsInv, Referred
<1>4. CASE user[u].state = "suspended" /\ user' = user /\ referral' = Earned({})
  <2>1. /\ referral' \in Seq(ReferralRow) /\ Len(referral') = Len(referral) /\ DOMAIN referral' = DOMAIN referral
        /\ \A r \in DOMAIN referral : /\ referral'[r].user = referral[r].user
                                      /\ referral'[r].from = referral[r].from
                                      /\ referral'[r].state = IF r \in {} THEN "verified" ELSE referral[r].state
    BY <1>4, EarnedReferrals
  <2>2. Referred'
    <3>1. \A r \in DOMAIN referral : GoodReferral(referral[r])'
      BY <1>3, <1>4, <2>1 DEF GoodReferral
    <3>2. OneReferral'
      BY <2>1 DEF RowsInv, Referred, OneReferral
    <3>3. QED
      BY <1>3, <2>1, <3>1, <3>2 DEF Referred
  <2>3. Grows
    BY <1>2, <1>4, <2>1 DEF Grows
  <2>4. QED
    BY <1>2, <1>4, <2>2, <2>3, NobodyMoves, UsersStay, CodesStay DEF RowsInv
<1>5. CASE user' = Activated(u) /\ referral' = Earned(EarnedBy(u))
  <2>1. /\ referral' \in Seq(ReferralRow) /\ Len(referral') = Len(referral) /\ DOMAIN referral' = DOMAIN referral
        /\ \A r \in DOMAIN referral : /\ referral'[r].user = referral[r].user
                                      /\ referral'[r].from = referral[r].from
                                      /\ referral'[r].state = IF r \in EarnedBy(u) THEN "verified" ELSE referral[r].state
    BY <1>5, EarnedReferrals DEF EarnedBy
  <2>2. PICK x \in UserRow : x.contact = user[u].contact /\ Activated(u) = [user EXCEPT ![u] = x]
    BY <1>2, ActiveRow
  <2>3. /\ Users' /\ Grows /\ DOMAIN user' = DOMAIN user /\ Len(user') = Len(user)
        /\ user'[u] = x /\ \A v \in DOMAIN user : v # u => user'[v] = user[v]
    BY <1>2, <1>5, <2>1, <2>2, OneUser
  <2>4. Referred'
    <3>1. ASSUME NEW r \in DOMAIN referral PROVE GoodReferral(referral[r])'
      <4>1. \A v \in DOMAIN user : user'[v].contact = user[v].contact
        BY <2>3 DEF Grows
      <4>2. CASE r \in EarnedBy(u)
        BY <1>3, <2>1, <2>3, <4>1, <4>2 DEF GoodReferral, EarnedBy, Taken
      <4>3. CASE r \notin EarnedBy(u)
        <5>1. referral[r].state = "registered" => referral[r].user # u
          BY <4>3 DEF EarnedBy
        <5>2. QED
          BY <1>3, <2>1, <2>3, <4>1, <4>3, <5>1 DEF GoodReferral, Taken
      <4>4. QED
        BY <4>2, <4>3
    <3>2. OneReferral'
      BY <2>1 DEF RowsInv, Referred, OneReferral
    <3>3. QED
      BY <1>3, <2>1, <3>1, <3>2 DEF Referred
  <2>5. Codes'
    BY <1>2, <2>3 DEF RowsInv, Codes
  <2>6. QED
    BY <1>2, <2>3, <2>4, <2>5, NobodyMoves DEF RowsInv
<1>6. QED
  BY <1>2, <1>4, <1>5

-----------------------------------------------------------------------------
LEMMA RowsInitially ==
  ASSUME RegistrationInit
  PROVE  RowsInv
<1>1. /\ load \in Workloads /\ load.users \in Seq(Mails) /\ Len(load.users) <= MaxUsers
      /\ \A i, j \in DOMAIN load.users : load.users[i] = load.users[j] => i = j
  BY RegistrationAssumption DEF RegistrationInit
<1>2. /\ user = [u \in DOMAIN load.users |-> user[u]]
      /\ \A u \in DOMAIN load.users : user[u] \in UserRow /\ user[u].contact = load.users[u]
  BY <1>1 DEF RegistrationInit, UserRow, Contacts
<1>3. user \in Seq(UserRow) /\ Len(user) = Len(load.users) /\ DOMAIN user = DOMAIN load.users
  BY <1>1, <1>2, SameLength
<1>4. Users
  <2>1. Unique(user)
    <3>1. SUFFICES ASSUME NEW u \in DOMAIN user, NEW v \in DOMAIN user, user[u].contact = user[v].contact
                   PROVE  u = v
      BY DEF Unique
    <3>2. load.users[u] = load.users[v]
      BY <1>2, <1>3, <3>1
    <3>3. QED
      BY <1>1, <1>3, <3>2
  <2>2. Len(load.users) <= Len(user)
    BY <1>1, <1>3
  <2>3. QED
    BY <1>1, <1>3, <2>1, <2>2 DEF Users
<1>5. Codes
  <2>1. otp = [u \in DOMAIN user |-> otp[u]] /\ \A u \in DOMAIN user : otp[u] \in CodeRow
    BY NoCodeIsCode DEF RegistrationInit
  <2>2. otp \in Seq(CodeRow) /\ Len(otp) = Len(user)
    <3>1. user \in Seq(UserRow)
      BY <1>3
    <3>2. QED
      BY <2>1, <3>1, SameLength
  <2>3. QED
    BY <2>2 DEF Codes, RegistrationInit
<1>6. Links /\ Referred
  <2>1. link = <<>> /\ referral = <<>>
    BY DEF RegistrationInit
  <2>2. QED
    BY <2>1, RegistrationAssumption DEF Links, Referred, OneReferral
<1>7. Requests
  BY IdlePlaced DEF RegistrationInit, Requests
<1>8. QED
  BY <1>4, <1>5, <1>6, <1>7 DEF RowsInv

\* Every step keeps the tables together.
LEMMA RowsStep ==
  ASSUME RowsInv, [RegistrationNext]_rvars
  PROVE  RowsInv'
<1>1. ASSUME NEW c \in Clients, NEW m \in load.contacts,
             (\E ref \in {0} \cup DOMAIN referral : Register(c, m, ref)) \/ RequestVerification(c, m)
      PROVE  RowsInv'
  BY <1>1, RegisterKeeps, RequestVerificationKeeps
<1>2. ASSUME NEW c \in Clients, NEW u \in DOMAIN load.users, NEW m \in load.contacts \cap Mails, InviteReferral(c, u, m)
      PROVE  RowsInv'
  BY <1>2, InviteReferralKeeps
<1>3. ASSUME NEW c \in Clients, NEW m \in Phones, NEW code \in 0..drawn, VerifyPhone(c, m, code)
      PROVE  RowsInv'
  BY <1>3, VerifyPhoneKeeps
<1>4. ASSUME NEW c \in Clients,
             \/ LookUp(c) \/ CreateEmailRegistration(c) \/ CreatePhoneRegistration(c)
             \/ RetireLinks(c) \/ InsertLink(c) \/ StoreCode(c) \/ CheckCode(c) \/ ActivatePhone(c)
      PROVE  RowsInv'
  BY <1>4, LookUpKeeps, CreateEmailRegistrationKeeps, CreatePhoneRegistrationKeeps, RetireLinksKeeps,
     InsertLinkKeeps, StoreCodeKeeps, CheckCodeKeeps, ActivatePhoneKeeps
<1>5. ASSUME NEW c \in Clients, NEW sent \in BOOLEAN, SendCode(c, sent) \/ SendReferral(c, sent)
      PROVE  RowsInv'
  BY <1>5, SendCodeKeeps, SendReferralKeeps
<1>6. ASSUME NEW c \in Clients, Eligible(c) \/ RevokeInvited(c) \/ CreateReferral(c) \/ RevokeReferral(c) \/ Stop(c)
      PROVE  RowsInv'
  BY <1>6, EligibleKeeps, RevokeInvitedKeeps, CreateReferralKeeps, RevokeReferralKeeps, StopKeeps
<1>7. ASSUME NEW t \in DOMAIN link, VerifyEmail(t) \/ LinkOver(t)
      PROVE  RowsInv'
  BY <1>7, VerifyEmailKeeps, LinkOverKeeps
<1>8. ASSUME NEW r \in DOMAIN referral, ReferralOver(r)
      PROVE  RowsInv'
  BY <1>8, ReferralOverKeeps
<1>9. ASSUME NEW u \in DOMAIN user, ListReferrals(u) \/ CodeOver(u) \/ Suspend(u)
      PROVE  RowsInv'
  BY <1>9, ListReferralsKeeps, CodeOverKeeps, SuspendKeeps
<1>10. ASSUME NEW route \in Routes, NEW m \in Contacts, WindowOver(route, m)
       PROVE  RowsInv'
  BY <1>10, WindowOverKeeps
<1>11. CASE UNCHANGED rvars
  BY <1>11, StayGrows, CodesStay, NobodyMoves, TablesStay DEF rvars, tables
<1>12. QED
  BY <1>1, <1>2, <1>3, <1>4, <1>5, <1>6, <1>7, <1>8, <1>9, <1>10, <1>11 DEF RegistrationNext

\* Users, links, codes, referrals and requests always belong together as RowsInv says.
THEOREM RowsBelongTogether == RegistrationSpec => []RowsInv
<1>1. RegistrationInit => RowsInv
  BY RowsInitially
<1>2. RowsInv /\ [RegistrationNext]_rvars => RowsInv'
  BY RowsStep
<1>3. QED
  BY <1>1, <1>2, PTL DEF RegistrationSpec
-----------------------------------------------------------------------------
(***************************************************************************)
(* What is open.                                                           *)
(***************************************************************************)
\* Nobody comes to the step that adds a link or an invitation.
CalmAt(label) == \A d \in Clients : req'[d].at = label => req'[d] = req[d]
Calm == CalmAt("insert link") /\ CalmAt("insert referral")

LEMMA MovesCalmly ==
  ASSUME RowsInv, NEW c \in Clients, NEW r, r.at \notin {"insert link", "insert referral"}, Step(c, r)
  PROVE  Calm
<1>1. \A d \in Clients : req'[d] = IF d = c THEN r ELSE req[d]
  BY DEF RowsInv, Requests, Step
<1>2. QED
  BY <1>1 DEF Calm, CalmAt

LEMMA RefusesCalmly ==
  ASSUME RowsInv, NEW c \in Clients, Refuse(c)
  PROVE  Calm
BY MovesCalmly DEF Refuse, Idle

LEMMA GoesCalmly ==
  ASSUME RowsInv, NEW c \in Clients, NEW label, label \notin {"insert link", "insert referral"}, Goto(c, label)
  PROVE  Calm
<1>1. PICK r : r = [req[c] EXCEPT !.at = label]
  OBVIOUS
<1>2. r.at = label
  BY <1>1, Tables DEF RequestState
<1>3. QED
  BY <1>1, <1>2, MovesCalmly DEF Goto

\* No link is opened for a user who was there.
LEMMA LinksKept ==
  ASSUME RowsInv, LinksOpen, CalmAt("insert link"), raced \subseteq raced',
         \A u \in DOMAIN user : Fresh(u)' \subseteq Fresh(u),
         \A u \in DOMAIN user' \ DOMAIN user : \A s, t \in Fresh(u)' : s = t
  PROVE  LinksOpen'
<1>1. ASSUME NEW u \in DOMAIN user', u \in DOMAIN user PROVE LinkOpen(u)'
  <2>1. CASE <<u>> \in raced
    BY <2>1 DEF LinkOpen
  <2>2. CASE <<u>> \notin raced
    <3>1. /\ \A s, t \in Fresh(u) : s = t
          /\ \A c \in Clients : req[c].at = "insert link" /\ req[c].user = u => Fresh(u) = {}
      BY <1>1, <2>2 DEF LinksOpen, LinkOpen
    <3>2. Fresh(u)' \subseteq Fresh(u)
      BY <1>1
    <3>3. \A c \in Clients : req'[c].at = "insert link" /\ req'[c].user = u => Fresh(u)' = {}
      BY <3>1, <3>2 DEF Calm, CalmAt
    <3>4. QED
      BY <3>1, <3>2, <3>3 DEF LinkOpen
  <2>3. QED
    BY <2>1, <2>2
<1>2. ASSUME NEW u \in DOMAIN user', u \notin DOMAIN user PROVE LinkOpen(u)'
  <2>1. \A c \in Clients : ~(req'[c].at = "insert link" /\ req'[c].user = u)
    BY <1>2, Tables DEF CalmAt, Placed, ForUser
  <2>2. \A s, t \in Fresh(u)' : s = t
    BY <1>2
  <2>3. QED
    BY <2>1, <2>2 DEF LinkOpen
<1>3. QED
  BY <1>1, <1>2 DEF LinksOpen

LEMMA SameLinks ==
  ASSUME RowsInv, LinksOpen, CalmAt("insert link"), raced \subseteq raced', link' = link
  PROVE  LinksOpen'
<1>1. \A u \in DOMAIN user : Fresh(u)' \subseteq Fresh(u)
  BY DEF Fresh
<1>2. \A u \in DOMAIN user' \ DOMAIN user : Fresh(u)' = {}
  BY Tables DEF Fresh
<1>3. QED
  BY <1>1, <1>2, LinksKept

\* No invitation is opened.
LEMMA InvitesKept ==
  ASSUME RowsInv, InvitesOpen, CalmAt("insert referral"), raced \subseteq raced', DOMAIN referral' = DOMAIN referral,
         \A r \in DOMAIN referral : /\ referral'[r].from = referral[r].from
                                    /\ referral'[r].mail = referral[r].mail
                                    /\ referral'[r].state = "invited" => referral[r].state = "invited"
  PROVE  InvitesOpen'
<1>1. ASSUME NEW u, NEW m PROVE Invited(u, m)' \subseteq Invited(u, m)
  BY DEF Invited
<1>2. ASSUME NEW u \in DOMAIN user', NEW m \in Mails, u \in DOMAIN user PROVE InviteOpen(u, m)'
  <2>1. CASE <<u, m>> \in raced
    BY <2>1 DEF InviteOpen
  <2>2. CASE <<u, m>> \notin raced
    <3>1. /\ \A r, q \in Invited(u, m) : r = q
          /\ \A c \in Clients : req[c].at = "insert referral" /\ req[c].user = u /\ req[c].contact = m
                                  => Invited(u, m) = {}
      BY <1>2, <2>2 DEF InvitesOpen, InviteOpen
    <3>2. Invited(u, m)' \subseteq Invited(u, m)
      BY <1>1
    <3>3. \A c \in Clients : req'[c].at = "insert referral" /\ req'[c].user = u /\ req'[c].contact = m
                               => Invited(u, m)' = {}
      BY <3>1, <3>2 DEF Calm, CalmAt
    <3>4. QED
      BY <3>1, <3>2, <3>3 DEF InviteOpen
  <2>3. QED
    BY <2>1, <2>2
<1>3. ASSUME NEW u \in DOMAIN user', NEW m \in Mails, u \notin DOMAIN user PROVE InviteOpen(u, m)'
  <2>1. Invited(u, m) = {}
    BY <1>3, Tables DEF Invited, GoodReferral
  <2>2. Invited(u, m)' = {}
    BY <1>1, <2>1
  <2>3. QED
    BY <2>2 DEF InviteOpen
<1>4. QED
  BY <1>2, <1>3 DEF InvitesOpen

LEMMA SameInvites ==
  ASSUME RowsInv, InvitesOpen, CalmAt("insert referral"), raced \subseteq raced', referral' = referral
  PROVE  InvitesOpen'
BY InvitesKept

\* A step that touches neither links nor referrals.
LEMMA NothingOpened ==
  ASSUME RowsInv, OpenInv, Calm, UNCHANGED <<link, referral, raced>>
  PROVE  OpenInv'
BY SameLinks, SameInvites DEF OpenInv, Calm

LEMMA AskIsCalm ==
  ASSUME RowsInv, OpenInv, NEW c \in Clients, NEW route, NEW m, NEW r, Ask(c, route, m, r),
         r.at \notin {"insert link", "insert referral"}
  PROVE  OpenInv'
<1>1. Calm
  <2>1. CASE req' = req
    BY <2>1 DEF Calm, CalmAt
  <2>2. CASE Step(c, r)
    BY <2>2, MovesCalmly
  <2>3. QED
    BY <2>1, <2>2 DEF Ask
<1>2. UNCHANGED <<link, referral, raced>>
  BY DEF Ask
<1>3. QED
  BY <1>1, <1>2, NothingOpened

\* The steps that open nothing.
LEMMA QuietSteps ==
  ASSUME RowsInv, OpenInv, NEW c \in Clients,
         \/ \E m, ref : Register(c, m, ref)
         \/ \E m : RequestVerification(c, m)
         \/ \E u, m : InviteReferral(c, u, m)
         \/ \E m, code : VerifyPhone(c, m, code)
         \/ LookUp(c) \/ CreatePhoneRegistration(c) \/ StoreCode(c) \/ CheckCode(c) \/ ActivatePhone(c)
         \/ \E sent : SendCode(c, sent) \/ SendReferral(c, sent)
         \/ Eligible(c) \/ Stop(c)
  PROVE  OpenInv'
<1>1. ASSUME NEW m, NEW ref, Register(c, m, ref) PROVE OpenInv'
  BY <1>1, AskIsCalm DEF Register, Idle
<1>2. ASSUME NEW m, RequestVerification(c, m) PROVE OpenInv'
  BY <1>2, AskIsCalm DEF RequestVerification, Idle
<1>3. ASSUME NEW u, NEW m, InviteReferral(c, u, m) PROVE OpenInv'
  <2>1. PICK r, a : r = [Idle EXCEPT !.at = "eligible", !.user = u, !.contact = m] /\ a = user[u].contact
    OBVIOUS
  <2>2. Ask(c, "invite", a, r)
    BY <1>3, <2>1 DEF InviteReferral
  <2>3. r.at = "eligible"
    BY <2>1 DEF Idle
  <2>4. QED
    BY <2>2, <2>3, AskIsCalm
<1>4. ASSUME NEW m, NEW code, VerifyPhone(c, m, code) PROVE OpenInv'
  <2>1. PICK u \in UsersOf(m) : Step(c, [Idle EXCEPT !.at = "check", !.contact = m, !.user = u, !.code = code])
    BY <1>4 DEF VerifyPhone
  <2>2. Calm
    BY <2>1, MovesCalmly DEF Idle
  <2>3. UNCHANGED <<link, referral, raced>>
    BY <1>4 DEF VerifyPhone
  <2>4. QED
    BY <2>2, <2>3, NothingOpened
<1>5. CASE LookUp(c)
  <2>1. UNCHANGED <<link, referral, raced>> /\ req[c] \in RequestState
    BY <1>5, Tables DEF LookUp
  <2>2. CASE Refuse(c) \/ Goto(c, "create")
    BY <2>1, <2>2, RefusesCalmly, GoesCalmly, NothingOpened
  <2>3. ASSUME NEW u, Step(c, [req[c] EXCEPT !.user = u, !.at = IF req[c].contact \in Mails THEN "retire" ELSE "code"])
        PROVE  OpenInv'
    <3>1. PICK r : r = [req[c] EXCEPT !.user = u, !.at = IF req[c].contact \in Mails THEN "retire" ELSE "code"]
      OBVIOUS
    <3>2. r.at \notin {"insert link", "insert referral"}
      BY <2>1, <3>1 DEF RequestState
    <3>3. Calm
      BY <2>3, <3>1, <3>2, MovesCalmly
    <3>4. QED
      BY <2>1, <3>3, NothingOpened
  <2>4. QED
    BY <1>5, <2>2, <2>3 DEF LookUp
<1>6. CASE CreatePhoneRegistration(c)
  <2>1. UNCHANGED <<link, referral, raced>> /\ req[c] \in RequestState
    BY <1>6, Tables DEF CreatePhoneRegistration
  <2>2. CASE Refuse(c)
    BY <2>1, <2>2, RefusesCalmly, NothingOpened
  <2>3. CASE Step(c, [req[c] EXCEPT !.user = Len(user) + 1, !.at = "code"])
    <3>1. PICK r : r = [req[c] EXCEPT !.user = Len(user) + 1, !.at = "code"]
      OBVIOUS
    <3>2. r.at = "code"
      BY <2>1, <3>1 DEF RequestState
    <3>3. QED
      BY <2>1, <2>3, <3>1, <3>2, MovesCalmly, NothingOpened
  <2>4. QED
    BY <1>6, <2>2, <2>3 DEF CreatePhoneRegistration
<1>7. CASE StoreCode(c)
  BY <1>7, GoesCalmly, NothingOpened DEF StoreCode
<1>8. CASE CheckCode(c)
  <2>1. UNCHANGED <<link, referral, raced>> /\ (Goto(c, "activate") \/ Refuse(c))
    BY <1>8 DEF CheckCode
  <2>2. QED
    BY <2>1, RefusesCalmly, GoesCalmly, NothingOpened
<1>9. CASE ActivatePhone(c)
  BY <1>9, RefusesCalmly, NothingOpened DEF ActivatePhone
<1>10. ASSUME NEW sent, SendCode(c, sent) PROVE OpenInv'
  BY <1>10, RefusesCalmly, NothingOpened DEF SendCode
<1>11. ASSUME NEW sent, SendReferral(c, sent) PROVE OpenInv'
  BY <1>11, RefusesCalmly, GoesCalmly, NothingOpened DEF SendReferral
<1>12. CASE Eligible(c)
  BY <1>12, RefusesCalmly, GoesCalmly, NothingOpened DEF Eligible
<1>13. CASE Stop(c)
  BY <1>13, RefusesCalmly, NothingOpened DEF Stop
<1>14. QED
  BY <1>1, <1>2, <1>3, <1>4, <1>5, <1>6, <1>7, <1>8, <1>9, <1>10, <1>11, <1>12, <1>13
\* Referrals that die were open and are not any more.
LEMMA DeadInvites ==
  ASSUME RowsInv, NEW s \in {"expired", "revoked"}, NEW R \in SUBSET DOMAIN referral, referral' = SetState(R, s)
  PROVE  /\ DOMAIN referral' = DOMAIN referral
         /\ \A r \in DOMAIN referral : /\ referral'[r].from = referral[r].from
                                       /\ referral'[r].mail = referral[r].mail
                                       /\ referral'[r].user = referral[r].user
                                       /\ referral'[r].state = IF r \in R THEN s ELSE referral[r].state
<1>1. DOMAIN referral' = DOMAIN referral
  BY DEF SetState
<1>2. ASSUME NEW r \in DOMAIN referral
      PROVE  /\ referral'[r].from = referral[r].from /\ referral'[r].mail = referral[r].mail
             /\ referral'[r].user = referral[r].user
             /\ referral'[r].state = IF r \in R THEN s ELSE referral[r].state
  <2>1. PICK x : x = [referral[r] EXCEPT !.state = s]
    OBVIOUS
  <2>2. /\ x.from = referral[r].from /\ x.mail = referral[r].mail /\ x.user = referral[r].user /\ x.state = s
    BY <2>1, Tables DEF ReferralRow
  <2>3. referral'[r] = IF r \in R THEN x ELSE referral[r]
    BY <2>1 DEF SetState
  <2>4. QED
    BY <2>2, <2>3
<1>3. QED
  BY <1>1, <1>2

LEMMA ReferralsDieCalmly ==
  ASSUME RowsInv, OpenInv, Calm, UNCHANGED <<link, raced>>,
         NEW s \in {"expired", "revoked"}, NEW R \in SUBSET DOMAIN referral, referral' = SetState(R, s)
  PROVE  OpenInv'
<1>1. /\ DOMAIN referral' = DOMAIN referral
      /\ \A r \in DOMAIN referral : /\ referral'[r].from = referral[r].from
                                    /\ referral'[r].mail = referral[r].mail
                                    /\ referral'[r].state = IF r \in R THEN s ELSE referral[r].state
  BY DeadInvites
<1>2. LinksOpen'
  BY SameLinks DEF OpenInv, Calm
<1>3. InvitesOpen'
  BY <1>1, InvitesKept DEF OpenInv, Calm
<1>4. QED
  BY <1>2, <1>3 DEF OpenInv

\* Links and referrals that change without being opened.
LEMMA QuietTables ==
  ASSUME RowsInv, OpenInv,
         \/ \E t \in DOMAIN link : VerifyEmail(t) \/ LinkOver(t)
         \/ \E r \in DOMAIN referral : ReferralOver(r)
         \/ \E u \in DOMAIN user : ListReferrals(u) \/ CodeOver(u) \/ Suspend(u)
         \/ \E route \in Routes, m \in Contacts : WindowOver(route, m)
         \/ \E c \in Clients : RevokeReferral(c)
  PROVE  OpenInv'
<1>1. ASSUME NEW t \in DOMAIN link, VerifyEmail(t) PROVE OpenInv'
  <2>1. PICK u : u = link[t].user
    OBVIOUS
  <2>2. /\ u \in DOMAIN user /\ UNCHANGED <<req, raced>> /\ DOMAIN link' = DOMAIN link
        /\ \A k \in DOMAIN link : /\ link'[k].user = link[k].user
                                  /\ link'[k].consumed <=> link[k].consumed \/ k = t
        /\ \/ user' = user /\ referral' = Earned({})
           \/ user' = Activated(u) /\ referral' = Earned(EarnedBy(u))
    BY <1>1, <2>1, VerifyEmailEffect
  <2>3. Calm
    BY <2>2 DEF Calm, CalmAt
  <2>4. DOMAIN user' = DOMAIN user
    BY <2>2 DEF Activated
  <2>5. \A v \in DOMAIN user : Fresh(v)' \subseteq Fresh(v)
    BY <2>2 DEF Fresh
  <2>6. LinksOpen'
    BY <2>2, <2>3, <2>4, <2>5, LinksKept DEF OpenInv, Calm
  <2>7. PICK R \in SUBSET DOMAIN referral : referral' = Earned(R)
    BY <2>2 DEF EarnedBy
  <2>8. /\ DOMAIN referral' = DOMAIN referral
        /\ \A r \in DOMAIN referral : /\ referral'[r].from = referral[r].from
                                      /\ referral'[r].mail = referral[r].mail
                                      /\ referral'[r].state = IF r \in R THEN "verified" ELSE referral[r].state
    BY <2>7, EarnedReferrals
  <2>9. InvitesOpen'
    BY <2>2, <2>3, <2>8, InvitesKept DEF OpenInv, Calm
  <2>10. QED
    BY <2>6, <2>9 DEF OpenInv
<1>2. ASSUME NEW t \in DOMAIN link, LinkOver(t) PROVE OpenInv'
  <2>1. PICK x : x = [link[t] EXCEPT !.over = TRUE]
    OBVIOUS
  <2>2. x.user = link[t].user /\ x.consumed = link[t].consumed
    BY <2>1, Tables DEF LinkRow
  <2>3. link' = [link EXCEPT ![t] = x] /\ UNCHANGED <<user, referral, req, raced>>
    BY <1>2, <2>1 DEF LinkOver
  <2>4. \A k \in DOMAIN link : link'[k].user = link[k].user /\ link'[k].consumed = link[k].consumed
    BY <2>2, <2>3
  <2>5. \A v \in DOMAIN user : Fresh(v)' \subseteq Fresh(v)
    BY <2>3, <2>4 DEF Fresh
  <2>6. Calm
    BY <2>3 DEF Calm, CalmAt
  <2>7. QED
    BY <2>3, <2>5, <2>6, LinksKept, SameInvites DEF OpenInv, Calm
<1>3. ASSUME NEW r \in DOMAIN referral, ReferralOver(r) PROVE OpenInv'
  <2>1. PICK x : x = [referral[r] EXCEPT !.over = TRUE]
    OBVIOUS
  <2>2. x.from = referral[r].from /\ x.mail = referral[r].mail /\ x.state = referral[r].state
    BY <2>1, Tables DEF ReferralRow
  <2>3. referral' = [referral EXCEPT ![r] = x] /\ UNCHANGED <<link, req, raced>>
    BY <1>3, <2>1 DEF ReferralOver
  <2>4. DOMAIN referral' = DOMAIN referral
    BY <2>3
  <2>5. \A k \in DOMAIN referral : /\ referral'[k].from = referral[k].from
                                   /\ referral'[k].mail = referral[k].mail
                                   /\ referral'[k].state = "invited" => referral[k].state = "invited"
    BY <2>2, <2>3
  <2>6. Calm
    BY <2>3 DEF Calm, CalmAt
  <2>7. QED
    BY <2>3, <2>4, <2>5, <2>6, SameLinks, InvitesKept DEF OpenInv, Calm
<1>4. ASSUME NEW u \in DOMAIN user, ListReferrals(u) PROVE OpenInv'
  <2>1. PICK R \in SUBSET DOMAIN referral : referral' = SetState(R, "expired")
    BY <1>4 DEF ListReferrals
  <2>2. UNCHANGED <<link, raced>> /\ Calm
    BY <1>4 DEF ListReferrals, Calm, CalmAt
  <2>3. QED
    BY <2>1, <2>2, ReferralsDieCalmly
<1>5. ASSUME NEW u \in DOMAIN user, CodeOver(u) \/ Suspend(u) PROVE OpenInv'
  <2>1. UNCHANGED <<link, referral, raced>> /\ Calm
    BY <1>5 DEF CodeOver, Suspend, Calm, CalmAt
  <2>2. QED
    BY <2>1, NothingOpened
<1>6. ASSUME NEW route \in Routes, NEW m \in Contacts, WindowOver(route, m) PROVE OpenInv'
  <2>1. UNCHANGED <<link, referral, raced>> /\ Calm
    BY <1>6 DEF WindowOver, Calm, CalmAt
  <2>2. QED
    BY <2>1, NothingOpened
<1>7. ASSUME NEW c \in Clients, RevokeReferral(c) PROVE OpenInv'
  <2>1. UNCHANGED <<link, raced>> /\ Refuse(c) /\ req[c].at = "revoke"
    BY <1>7 DEF RevokeReferral
  <2>2. Revocable(req[c].ref) \in SUBSET DOMAIN referral
    BY <2>1, Tables DEF Revocable, Placed
  <2>3. PICK R \in SUBSET DOMAIN referral : referral' = SetState(R, "revoked")
    BY <1>7, <2>2 DEF RevokeReferral
  <2>4. QED
    BY <2>1, <2>3, RefusesCalmly, ReferralsDieCalmly
<1>8. QED
  BY <1>1, <1>2, <1>3, <1>4, <1>5, <1>6, <1>7

\* Signing up opens the first link of a user who was not there.
LEMMA SignUpOpens ==
  ASSUME RowsInv, OpenInv, NEW c \in Clients, CreateEmailRegistration(c)
  PROVE  OpenInv'
<1>1. PICK m, k, u : m = req[c].contact /\ k = req[c].ref /\ u = Len(user) + 1
  OBVIOUS
<1>2. m \in Contacts /\ UNCHANGED <<load, drawn, raced>> /\ Calm
  BY <1>1, RefusesCalmly DEF CreateEmailRegistration, Contacts
<1>3. CASE ~NoDuplicate(m)
  <2>1. UNCHANGED <<link, referral>>
    BY <1>1, <1>3 DEF CreateEmailRegistration
  <2>2. QED
    BY <1>2, <2>1, NothingOpened
<1>4. CASE NoDuplicate(m)
  <2>1. /\ NewUser(m) /\ NewLink(u)
        /\ referral' = IF Claimable(k, m) THEN [referral EXCEPT ![k].user = u, ![k].state = "registered"]
                       ELSE referral
    BY <1>1, <1>4 DEF CreateEmailRegistration
  <2>2. DOMAIN referral \subseteq DOMAIN referral'
    BY <2>1
  <2>3. /\ DOMAIN user' = DOMAIN user \cup {u} /\ u \notin DOMAIN user /\ u \in 1..MaxUsers
    BY <1>1, <1>2, <1>4, <2>1, <2>2, UserAdded
  <2>4. PICK x : x = [user |-> u, consumed |-> FALSE, over |-> FALSE]
    OBVIOUS
  <2>5. /\ DOMAIN link' = DOMAIN link \cup {Len(link) + 1} /\ Len(link) + 1 \notin DOMAIN link
        /\ link'[Len(link) + 1] = x /\ \A t \in DOMAIN link : link'[t] = link[t]
    <3>1. x \in LinkRow /\ link \in Seq(LinkRow)
      BY <2>3, <2>4 DEF LinkRow, RowsInv, Links
    <3>2. link' = Append(link, x)
      BY <2>1, <2>4 DEF NewLink
    <3>3. QED
      BY <3>1, <3>2, OneMore
  <2>6. \A v \in DOMAIN user : Fresh(v)' \subseteq Fresh(v)
    BY <2>3, <2>4, <2>5 DEF Fresh
  <2>7. \A s, t \in Fresh(u)' : s = t
    <3>1. \A t \in DOMAIN link : link'[t].user # u
      BY <2>3, <2>5, Tables
    <3>2. QED
      BY <2>5, <3>1 DEF Fresh
  <2>8. LinksOpen'
    BY <1>2, <2>3, <2>6, <2>7, LinksKept DEF OpenInv, Calm
  <2>9. InvitesOpen'
    <3>1. CASE ~Claimable(k, m)
      BY <1>2, <2>1, <3>1, SameInvites DEF OpenInv, Calm
    <3>2. CASE Claimable(k, m)
      <4>1. referral' = [referral EXCEPT ![k].user = u, ![k].state = "registered"] /\ u \in Nat
        BY <2>1, <2>3, <3>2
      <4>2. /\ k \in DOMAIN referral /\ DOMAIN referral' = DOMAIN referral
            /\ referral'[k].state = "registered"
            /\ referral'[k].from = referral[k].from /\ referral'[k].mail = referral[k].mail
            /\ \A r \in DOMAIN referral : r # k => referral'[r] = referral[r]
        BY <2>3, <3>2, <4>1, ClaimedReferral
      <4>3. \A r \in DOMAIN referral : /\ referral'[r].from = referral[r].from
                                       /\ referral'[r].mail = referral[r].mail
                                       /\ referral'[r].state = "invited" => referral[r].state = "invited"
        BY <4>2
      <4>4. QED
        BY <1>2, <4>2, <4>3, InvitesKept DEF OpenInv, Calm
    <3>3. QED
      BY <3>1, <3>2
  <2>10. QED
    BY <2>8, <2>9 DEF OpenInv
<1>5. QED
  BY <1>3, <1>4
\* issue_email_verification leaves no link open ...
LEMMA RetireLinksOpens ==
  ASSUME RowsInv, OpenInv, NEW c \in Clients, RetireLinks(c)
  PROVE  OpenInv'
<1>1. PICK u, r : u = req[c].user /\ r = [req[c] EXCEPT !.at = "insert link"]
  OBVIOUS
<1>2. /\ link' = Retired(u) /\ UNCHANGED <<user, referral, raced>>
      /\ \A d \in Clients : req'[d] = IF d = c THEN r ELSE req[d]
      /\ r.at = "insert link" /\ r.user = u
  <2>1. link' = Retired(u) /\ UNCHANGED <<user, referral, raced>> /\ req' = [req EXCEPT ![c] = r]
    BY <1>1 DEF RetireLinks, Goto, Step
  <2>2. r.at = "insert link" /\ r.user = u
    BY <1>1, Tables DEF RequestState
  <2>3. QED
    BY <2>1, <2>2 DEF RowsInv, Requests
<1>3. /\ DOMAIN link' = DOMAIN link
      /\ \A t \in DOMAIN link : /\ link'[t].user = link[t].user
                                /\ link'[t].consumed <=> link[t].consumed \/ t \in Fresh(u)
  BY <1>2, RetiredLinks
<1>4. Fresh(u)' = {}
  BY <1>3 DEF Fresh
<1>5. ASSUME NEW v \in DOMAIN user PROVE LinkOpen(v)'
  <2>1. CASE v = u
    BY <1>4, <2>1 DEF LinkOpen
  <2>2. CASE v # u
    <3>1. Fresh(v)' = Fresh(v)
      BY <1>3, <2>2 DEF Fresh
    <3>2. LinkOpen(v)
      BY DEF OpenInv, LinksOpen
    <3>3. \A d \in Clients : req'[d].at = "insert link" /\ req'[d].user = v => req'[d] = req[d]
      BY <1>2, <2>2
    <3>4. QED
      BY <1>2, <3>1, <3>2, <3>3 DEF LinkOpen
  <2>3. QED
    BY <2>1, <2>2
<1>6. CalmAt("insert referral")
  BY <1>2 DEF CalmAt
<1>7. InvitesOpen'
  BY <1>2, <1>6, SameInvites DEF OpenInv
<1>8. QED
  BY <1>2, <1>5, <1>7 DEF OpenInv, LinksOpen

\* ... and opens one; another request that was about to do so is on record.
LEMMA InsertLinkOpens ==
  ASSUME RowsInv, OpenInv, NEW c \in Clients, InsertLink(c)
  PROVE  OpenInv'
<1>1. PICK u, x : u = req[c].user /\ x = [user |-> u, consumed |-> FALSE, over |-> FALSE]
  OBVIOUS
<1>2. /\ req[c].at = "insert link" /\ UNCHANGED <<user, referral>> /\ Refuse(c) /\ Calm
      /\ raced \subseteq raced'
  BY RefusesCalmly DEF InsertLink
<1>3. u \in DOMAIN user
  BY <1>1, <1>2, Tables DEF Placed, ForUser
<1>4. /\ DOMAIN link' = DOMAIN link \cup {Len(link) + 1} /\ Len(link) + 1 \notin DOMAIN link
      /\ link'[Len(link) + 1] = x /\ \A t \in DOMAIN link : link'[t] = link[t]
  <2>1. u \in 1..MaxUsers
    <3>1. user \in Seq(UserRow) /\ Len(user) <= MaxUsers /\ Len(user) \in Nat /\ u \in 1..Len(user)
      BY <1>3, Tables DEF RowsInv, Users
    <3>2. QED
      BY <3>1, RegistrationAssumption
  <2>2. x \in LinkRow /\ link \in Seq(LinkRow)
    BY <1>1, <2>1 DEF LinkRow, RowsInv, Links
  <2>3. link' = Append(link, x)
    BY <1>1 DEF InsertLink, NewLink
  <2>4. QED
    BY <2>2, <2>3, OneMore
<1>5. x.user = u
  BY <1>1
<1>6. ASSUME NEW v \in DOMAIN user PROVE LinkOpen(v)'
  <2>1. LinkOpen(v)
    BY DEF OpenInv, LinksOpen
  <2>2. CASE <<v>> \in raced'
    BY <2>2 DEF LinkOpen
  <2>3. CASE <<v>> \notin raced' /\ v # u
    <3>1. Fresh(v)' = Fresh(v)
      BY <1>4, <1>5, <2>3 DEF Fresh
    <3>2. QED
      BY <1>2, <2>1, <2>3, <3>1 DEF LinkOpen, Calm, CalmAt
  <2>4. CASE <<v>> \notin raced' /\ v = u
    <3>1. \A d \in Clients \ {c} : ~(req[d].at = "insert link" /\ req[d].user = u)
      BY <1>1, <2>4 DEF InsertLink
    <3>2. Fresh(u) = {}
      BY <1>1, <1>2, <2>1, <2>4 DEF LinkOpen
    <3>3. \A s, t \in Fresh(u)' : s = t
      BY <1>4, <3>2 DEF Fresh
    <3>4. \A d \in Clients : ~(req'[d].at = "insert link" /\ req'[d].user = u)
      BY <1>2, <3>1 DEF Refuse, Step, Idle, RowsInv, Requests
    <3>5. QED
      BY <2>4, <3>3, <3>4 DEF LinkOpen
  <2>5. QED
    BY <2>2, <2>3, <2>4
<1>7. InvitesOpen'
  BY <1>2, SameInvites DEF OpenInv, Calm
<1>8. QED
  BY <1>2, <1>6, <1>7 DEF OpenInv, LinksOpen

\* create_referral likewise.
LEMMA RevokeInvitedOpens ==
  ASSUME RowsInv, OpenInv, NEW c \in Clients, RevokeInvited(c)
  PROVE  OpenInv'
<1>1. PICK u, a, r : u = req[c].user /\ a = req[c].contact /\ r = [req[c] EXCEPT !.at = "insert referral"]
  OBVIOUS
<1>2. PICK R : R = Invited(u, a)
  OBVIOUS
<1>3. /\ referral' = SetState(R, "revoked") /\ R \in SUBSET DOMAIN referral /\ UNCHANGED <<user, link, raced>>
      /\ \A d \in Clients : req'[d] = IF d = c THEN r ELSE req[d]
      /\ r.at = "insert referral" /\ r.user = u /\ r.contact = a
  <2>1. referral' = SetState(R, "revoked") /\ UNCHANGED <<user, link, raced>> /\ req' = [req EXCEPT ![c] = r]
    BY <1>1, <1>2 DEF RevokeInvited, Goto, Step
  <2>2. r.at = "insert referral" /\ r.user = u /\ r.contact = a
    BY <1>1, Tables DEF RequestState
  <2>3. R \in SUBSET DOMAIN referral
    BY <1>2 DEF Invited
  <2>4. QED
    BY <2>1, <2>2, <2>3 DEF RowsInv, Requests
<1>4. /\ DOMAIN referral' = DOMAIN referral
      /\ \A q \in DOMAIN referral : /\ referral'[q].from = referral[q].from
                                    /\ referral'[q].mail = referral[q].mail
                                    /\ referral'[q].state = IF q \in R THEN "revoked" ELSE referral[q].state
  BY <1>3, DeadInvites
<1>5. Invited(u, a)' = {}
  BY <1>2, <1>4 DEF Invited
<1>6. ASSUME NEW v \in DOMAIN user, NEW m \in Mails PROVE InviteOpen(v, m)'
  <2>1. CASE v = u /\ m = a
    BY <1>5, <2>1 DEF InviteOpen
  <2>2. CASE ~(v = u /\ m = a)
    <3>1. Invited(v, m)' = Invited(v, m)
      BY <1>2, <1>4, <2>2 DEF Invited
    <3>2. InviteOpen(v, m)
      BY DEF OpenInv, InvitesOpen
    <3>3. \A d \in Clients : req'[d].at = "insert referral" /\ req'[d].user = v /\ req'[d].contact = m
                               => req'[d] = req[d]
      BY <1>3, <2>2
    <3>4. QED
      BY <1>3, <3>1, <3>2, <3>3 DEF InviteOpen
  <2>3. QED
    BY <2>1, <2>2
<1>7. CalmAt("insert link")
  BY <1>3 DEF CalmAt
<1>8. LinksOpen'
  BY <1>3, <1>7, SameLinks DEF OpenInv
<1>9. QED
  BY <1>3, <1>6, <1>8 DEF OpenInv, InvitesOpen

LEMMA CreateReferralOpens ==
  ASSUME RowsInv, OpenInv, NEW c \in Clients, CreateReferral(c)
  PROVE  OpenInv'
<1>1. PICK u, a, k : u = req[c].user /\ a = req[c].contact /\ k = Len(referral) + 1
  OBVIOUS
<1>2. PICK x, r : /\ x = [from |-> u, mail |-> a, state |-> "invited", user |-> 0, over |-> FALSE]
                  /\ r = [req[c] EXCEPT !.at = "send referral", !.ref = k]
  OBVIOUS
<1>3. /\ req[c].at = "insert referral" /\ UNCHANGED <<user, link>> /\ raced \subseteq raced'
      /\ r.at = "send referral" /\ \A d \in Clients : req'[d] = IF d = c THEN r ELSE req[d]
  <2>1. req[c].at = "insert referral" /\ UNCHANGED <<user, link>> /\ raced \subseteq raced' /\ req' = [req EXCEPT ![c] = r]
    BY <1>1, <1>2 DEF CreateReferral, Step
  <2>2. r.at = "send referral"
    BY <1>2, Tables DEF RequestState
  <2>3. QED
    BY <2>1, <2>2 DEF RowsInv, Requests
<1>4. /\ DOMAIN referral' = DOMAIN referral \cup {k} /\ k \notin DOMAIN referral
      /\ referral'[k] = x /\ \A q \in DOMAIN referral : referral'[q] = referral[q]
  <2>1. u \in 1..MaxUsers /\ a \in Mails
    <3>1. user \in Seq(UserRow) /\ Len(user) <= MaxUsers /\ Len(user) \in Nat /\ u \in 1..Len(user) /\ a \in Mails
      BY <1>1, <1>3, Tables DEF Placed, ForUser, Inviting, RowsInv, Users
    <3>2. QED
      BY <3>1, RegistrationAssumption
  <2>2. x \in ReferralRow /\ referral \in Seq(ReferralRow)
    BY <1>2, <2>1, RegistrationAssumption DEF ReferralRow, RowsInv, Referred
  <2>3. referral' = Append(referral, x)
    BY <1>1, <1>2 DEF CreateReferral
  <2>4. QED
    BY <1>1, <2>2, <2>3, OneMore
<1>5. x.from = u /\ x.mail = a
  BY <1>2
<1>6. ASSUME NEW v \in DOMAIN user, NEW m \in Mails PROVE InviteOpen(v, m)'
  <2>1. InviteOpen(v, m)
    BY DEF OpenInv, InvitesOpen
  <2>2. CASE <<v, m>> \in raced'
    BY <2>2 DEF InviteOpen
  <2>3. CASE <<v, m>> \notin raced' /\ ~(v = u /\ m = a)
    <3>1. Invited(v, m)' = Invited(v, m)
      BY <1>4, <1>5, <2>3 DEF Invited
    <3>2. \A d \in Clients : req'[d].at = "insert referral" => req'[d] = req[d]
      BY <1>3
    <3>3. QED
      BY <1>3, <2>1, <2>3, <3>1, <3>2 DEF InviteOpen
  <2>4. CASE <<v, m>> \notin raced' /\ v = u /\ m = a
    <3>1. \A d \in Clients \ {c} : ~(req[d].at = "insert referral" /\ req[d].user = u /\ req[d].contact = a)
      BY <1>1, <2>4 DEF CreateReferral
    <3>2. Invited(u, a) = {}
      BY <1>1, <1>3, <2>1, <2>4 DEF InviteOpen
    <3>3. \A q, p \in Invited(u, a)' : q = p
      BY <1>4, <3>2 DEF Invited
    <3>4. \A d \in Clients : ~(req'[d].at = "insert referral" /\ req'[d].user = u /\ req'[d].contact = a)
      BY <1>3, <3>1
    <3>5. QED
      BY <2>4, <3>3, <3>4 DEF InviteOpen
  <2>5. QED
    BY <2>2, <2>3, <2>4
<1>7. CalmAt("insert link")
  BY <1>3 DEF CalmAt
<1>8. LinksOpen'
  BY <1>3, <1>7, SameLinks DEF OpenInv
<1>9. QED
  BY <1>3, <1>6, <1>8 DEF OpenInv, InvitesOpen
LEMMA OpenStep ==
  ASSUME RowsInv, OpenInv, [RegistrationNext]_rvars
  PROVE  OpenInv'
<1>1. ASSUME NEW c \in Clients,
             \/ \E m \in load.contacts : \/ \E ref \in {0} \cup DOMAIN referral : Register(c, m, ref)
                                         \/ RequestVerification(c, m)
             \/ \E u \in DOMAIN load.users, m \in load.contacts \cap Mails : InviteReferral(c, u, m)
             \/ \E m \in Phones, code \in 0..drawn : VerifyPhone(c, m, code)
             \/ LookUp(c) \/ CreatePhoneRegistration(c) \/ StoreCode(c) \/ CheckCode(c) \/ ActivatePhone(c)
             \/ \E sent \in BOOLEAN : SendCode(c, sent) \/ SendReferral(c, sent)
             \/ Eligible(c) \/ Stop(c)
      PROVE  OpenInv'
  BY <1>1, QuietSteps
<1>2. ASSUME NEW c \in Clients,
             \/ CreateEmailRegistration(c) \/ RetireLinks(c) \/ InsertLink(c)
             \/ RevokeInvited(c) \/ CreateReferral(c)
      PROVE  OpenInv'
  BY <1>2, SignUpOpens, RetireLinksOpens, InsertLinkOpens, RevokeInvitedOpens, CreateReferralOpens
<1>3. CASE \/ \E t \in DOMAIN link : VerifyEmail(t) \/ LinkOver(t)
           \/ \E r \in DOMAIN referral : ReferralOver(r)
           \/ \E u \in DOMAIN user : ListReferrals(u) \/ CodeOver(u) \/ Suspend(u)
           \/ \E route \in Routes, m \in Contacts : WindowOver(route, m)
           \/ \E c \in Clients : RevokeReferral(c)
  BY <1>3, QuietTables
<1>4. CASE UNCHANGED rvars
  <2>1. Calm /\ UNCHANGED <<link, referral, raced>>
    BY <1>4 DEF rvars, Calm, CalmAt
  <2>2. QED
    BY <2>1, NothingOpened
<1>5. QED
  BY <1>1, <1>2, <1>3, <1>4 DEF RegistrationNext

LEMMA AtMostOne ==
  ASSUME NEW S, \A x, y \in S : x = y
  PROVE  Cardinality(S) <= 1
<1>1. CASE S = {}
  <2>1. Cardinality({}) = 0
    BY FS_EmptySet
  <2>2. QED
    BY <1>1, <2>1
<1>2. CASE S # {}
  <2>1. PICK x : x \in S
    BY <1>2
  <2>2. S = {x}
    BY <2>1
  <2>3. Cardinality({x}) = 1
    BY FS_Singleton
  <2>4. QED
    BY <2>2, <2>3
<1>3. QED
  BY <1>1, <1>2

\* A user never has two links that work, and a referrer never two open invitations for an
\* address, unless two requests for the same thing overlapped between retiring and inserting
\* (issue_email_verification, create_referral), whatever the number of requests.
THEOREM OneOfEachIsOpen == RegistrationSpec => []OneOpenUnlessRaced
<1>1. RegistrationInit => OpenInv
  <2>1. SUFFICES ASSUME RegistrationInit PROVE OpenInv
    OBVIOUS
  <2>2. DOMAIN link = {} /\ DOMAIN referral = {}
    BY <2>1 DEF RegistrationInit
  <2>3. \A u : Fresh(u) = {} /\ \A m : Invited(u, m) = {}
    BY <2>2 DEF Fresh, Invited
  <2>4. QED
    BY <2>3 DEF OpenInv, LinksOpen, InvitesOpen, LinkOpen, InviteOpen
<1>2. RowsInv /\ OpenInv /\ [RegistrationNext]_rvars => OpenInv'
  BY OpenStep
<1>3. OpenInv => OneOpenUnlessRaced
  <2>1. SUFFICES ASSUME OpenInv, NEW u \in DOMAIN user
                 PROVE  /\ <<u>> \in raced \/ Cardinality(Fresh(u)) <= 1
                        /\ \A m \in Mails : <<u, m>> \in raced \/ Cardinality(Invited(u, m)) <= 1
    BY DEF OneOpenUnlessRaced
  <2>2. <<u>> \in raced \/ Cardinality(Fresh(u)) <= 1
    <3>1. <<u>> \in raced \/ \A s, t \in Fresh(u) : s = t
      BY <2>1 DEF OpenInv, LinksOpen, LinkOpen
    <3>2. QED
      BY <3>1, AtMostOne
  <2>3. ASSUME NEW m \in Mails PROVE <<u, m>> \in raced \/ Cardinality(Invited(u, m)) <= 1
    <3>1. <<u, m>> \in raced \/ \A s, t \in Invited(u, m) : s = t
      BY <2>1, <2>3 DEF OpenInv, InvitesOpen, InviteOpen
    <3>2. QED
      BY <3>1, AtMostOne
  <2>4. QED
    BY <2>2, <2>3
<1>4. QED
  BY <1>1, <1>2, <1>3, RowsBelongTogether, PTL DEF RegistrationSpec

\* Every column holds a value of its type; a contact has one user, and a user comes from one
\* referral at most (the unique indexes, and the state that claiming a referral asks for).
THEOREM RegistrationTypeCorrect == RegistrationSpec => []RegistrationTypeOK
<1>1. RowsInv => RegistrationTypeOK
  <2>1. SUFFICES ASSUME RowsInv PROVE RegistrationTypeOK
    OBVIOUS
  <2>2. user \in Seq(UserRow) /\ link \in Seq(LinkRow) /\ referral \in Seq(ReferralRow)
    BY <2>1 DEF RowsInv, Users, Links, Referred
  <2>3. DOMAIN otp = DOMAIN user /\ \A u \in DOMAIN user : otp[u].attempts < OtpAttempts
    BY <2>1, Tables, RegistrationAssumption DEF CodeRow
  <2>4. ASSUME NEW m \in Contacts PROVE Cardinality(UsersOf(m)) <= 1
    <3>1. \A u, v \in UsersOf(m) : u = v
      BY <2>1 DEF RowsInv, Users, Unique, UsersOf
    <3>2. QED
      BY <3>1, AtMostOne
  <2>5. QED
    BY <2>1, <2>2, <2>3, <2>4 DEF RegistrationTypeOK, RowsInv, Referred, OneReferral
<1>2. QED
  BY <1>1, RowsBelongTogether, PTL
-----------------------------------------------------------------------------
(***************************************************************************)
(* AccountLife: the state it sees.                                         *)
(***************************************************************************)
LifeBar == [m \in Contacts |-> IF UsersOf(m) = {} THEN "absent" ELSE user[CHOOSE u \in UsersOf(m) : TRUE].state]
StageBar == [r \in 1..MaxReferrals |-> IF r \in DOMAIN referral THEN Stages[referral[r].state] ELSE "none"]
TakerBar == [r \in 1..MaxReferrals |-> IF r \in DOMAIN referral /\ referral[r].user # 0
                                       THEN user[referral[r].user].contact ELSE None]

\* The steps of AccountLife, in terms of what it sees.
LEMMA BarStutters ==
  ASSUME UNCHANGED <<LifeBar, StageBar, TakerBar>>
  PROVE  UNCHANGED Life!lifeVars
BY DEF Life!lifeVars, LifeBar, StageBar, TakerBar

LEMMA BarOpens ==
  ASSUME NEW m \in Contacts, LifeBar[m] = "absent", LifeBar' = [LifeBar EXCEPT ![m] = "pending"],
         \/ UNCHANGED <<StageBar, TakerBar>>
         \/ \E r \in 1..MaxReferrals : /\ StageBar[r] = "open"
                                       /\ StageBar' = [StageBar EXCEPT ![r] = "taken"]
                                       /\ TakerBar' = [TakerBar EXCEPT ![r] = m]
  PROVE  Life!LifeNext
<1>1. Life!Open(m)
  BY Zenon DEF Life!Open, LifeBar, StageBar, TakerBar
<1>2. QED
  BY <1>1, Zenon DEF Life!LifeNext

LEMMA BarActivates ==
  ASSUME NEW m \in Contacts, LifeBar[m] = "pending", LifeBar' = [LifeBar EXCEPT ![m] = "active"],
         StageBar' = [r \in 1..MaxReferrals |-> IF StageBar[r] = "taken" /\ TakerBar[r] = m THEN "earned"
                                                ELSE StageBar[r]],
         UNCHANGED TakerBar
  PROVE  Life!LifeNext
<1>1. Life!Activate(m)
  BY Zenon DEF Life!Activate, LifeBar, StageBar, TakerBar
<1>2. QED
  BY <1>1, Zenon DEF Life!LifeNext

LEMMA BarShuts ==
  ASSUME NEW m \in Contacts, LifeBar[m] \in {"pending", "active"}, LifeBar' = [LifeBar EXCEPT ![m] = "suspended"],
         UNCHANGED <<StageBar, TakerBar>>
  PROVE  Life!LifeNext
<1>1. Life!Shut(m)
  BY Zenon DEF Life!Shut, LifeBar, StageBar, TakerBar
<1>2. QED
  BY <1>1, Zenon DEF Life!LifeNext

LEMMA BarInvites ==
  ASSUME NEW r \in 1..MaxReferrals, StageBar[r] = "none", StageBar' = [StageBar EXCEPT ![r] = "open"],
         UNCHANGED <<LifeBar, TakerBar>>
  PROVE  Life!LifeNext
<1>1. Life!Invite(r)
  BY Zenon DEF Life!Invite, LifeBar, StageBar, TakerBar
<1>2. QED
  BY <1>1, Zenon DEF Life!LifeNext

LEMMA BarDies ==
  ASSUME NEW R \in SUBSET (1..MaxReferrals), \A r \in R : StageBar[r] = "open",
         StageBar' = [r \in 1..MaxReferrals |-> IF r \in R THEN "dead" ELSE StageBar[r]],
         UNCHANGED <<LifeBar, TakerBar>>
  PROVE  Life!LifeNext
<1>1. Life!Die(R)
  BY Zenon DEF Life!Die, LifeBar, StageBar, TakerBar
<1>2. QED
  BY <1>1, Zenon DEF Life!LifeNext
\* The life of a contact, in a table of users that has its contacts once.
LifeIn(U, m) == LET S == {u \in DOMAIN U : U[u].contact = m}
                IN IF S = {} THEN "absent" ELSE U[CHOOSE u \in S : TRUE].state

LEMMA LifeOfUser ==
  ASSUME NEW U, Unique(U), NEW u \in DOMAIN U
  PROVE  LifeIn(U, U[u].contact) = U[u].state
<1>1. PICK m : m = U[u].contact
  OBVIOUS
<1>2. {v \in DOMAIN U : U[v].contact = m} = {u}
  BY <1>1 DEF Unique
<1>3. (CHOOSE v \in {u} : TRUE) = u
  OBVIOUS
<1>4. LifeIn(U, m) = U[u].state
  BY <1>2, <1>3 DEF LifeIn
<1>5. QED
  BY <1>1, <1>4

LEMMA LifeOfNobody ==
  ASSUME NEW U, NEW m, \A u \in DOMAIN U : U[u].contact # m
  PROVE  LifeIn(U, m) = "absent"
<1>1. {u \in DOMAIN U : U[u].contact = m} = {}
  OBVIOUS
<1>2. QED
  BY <1>1 DEF LifeIn

LEMMA BarIsLife ==
  /\ LifeBar = [m \in Contacts |-> LifeIn(user, m)]
  /\ LifeBar' = [m \in Contacts |-> LifeIn(user', m)]
BY DEF LifeBar, LifeIn, UsersOf

\* One account moves on, or is opened; the others stay as they are.
LEMMA OneLifeMoves ==
  ASSUME Users, Users', NEW u, DOMAIN user' = DOMAIN user \cup {u},
         \A v \in DOMAIN user : user'[v].contact = user[v].contact,
         \A v \in DOMAIN user : v # u => user'[v].state = user[v].state
  PROVE  LifeBar' = [LifeBar EXCEPT ![user'[u].contact] = user'[u].state]
<1>1. PICK a : a = user'[u].contact
  OBVIOUS
<1>2. PICK U, V : U = user /\ V = user'
  OBVIOUS
<1>3. Unique(U) /\ Unique(V)
  BY <1>2 DEF Users, Unique
<1>4. LifeIn(V, a) = V[u].state
  BY <1>1, <1>2, <1>3, LifeOfUser
<1>5. ASSUME NEW m \in Contacts, m # a PROVE LifeIn(V, m) = LifeIn(U, m)
  <2>1. CASE \E v \in DOMAIN U : U[v].contact = m
    <3>1. PICK v \in DOMAIN U : U[v].contact = m
      BY <2>1
    <3>2. v # u /\ v \in DOMAIN V /\ V[v].contact = m /\ V[v].state = U[v].state
      BY <1>1, <1>2, <1>5, <3>1
    <3>3. LifeIn(V, m) = V[v].state /\ LifeIn(U, m) = U[v].state
      BY <1>3, <3>1, <3>2, LifeOfUser
    <3>4. QED
      BY <3>2, <3>3
  <2>2. CASE \A v \in DOMAIN U : U[v].contact # m
    <3>1. \A v \in DOMAIN V : V[v].contact # m
      BY <1>1, <1>2, <1>5, <2>2
    <3>2. QED
      BY <2>2, <3>1, LifeOfNobody
  <2>3. QED
    BY <2>1, <2>2
<1>6. \A m \in Contacts : LifeIn(V, m) = IF m = a THEN V[u].state ELSE LifeIn(U, m)
  BY <1>4, <1>5
<1>7. LifeBar = [m \in Contacts |-> LifeIn(U, m)] /\ LifeBar' = [m \in Contacts |-> LifeIn(V, m)]
  BY <1>2, BarIsLife
<1>8. LifeBar' = [LifeBar EXCEPT ![a] = V[u].state]
  BY <1>6, <1>7
<1>9. QED
  BY <1>1, <1>2, <1>8

\* No account moves.
LEMMA LifeStays ==
  ASSUME user' = user
  PROVE  LifeBar' = LifeBar
BY BarIsLife

LEMMA SeenLife ==
  ASSUME Users, NEW u \in DOMAIN user
  PROVE  LifeBar[user[u].contact] = user[u].state /\ user[u].contact \in Contacts
<1>1. user[u].contact \in Contacts
  <2>1. user[u] \in UserRow
    BY DEF Users
  <2>2. QED
    BY <2>1 DEF UserRow
<1>2. LifeIn(user, user[u].contact) = user[u].state
  BY LifeOfUser DEF Users
<1>3. QED
  BY <1>1, <1>2, BarIsLife

\* An account that is active already is activated again.
LEMMA SameLife ==
  ASSUME Users, Users', NEW u \in DOMAIN user, DOMAIN user' = DOMAIN user,
         \A v \in DOMAIN user : user'[v].contact = user[v].contact,
         \A v \in DOMAIN user : user'[v].state = user[v].state
  PROVE  LifeBar' = LifeBar
<1>1. DOMAIN user' = DOMAIN user \cup {u}
  OBVIOUS
<1>2. LifeBar' = [LifeBar EXCEPT ![user'[u].contact] = user'[u].state]
  BY <1>1, OneLifeMoves
<1>3. LifeBar[user[u].contact] = user[u].state /\ user[u].contact \in Contacts
  BY SeenLife
<1>4. QED
  BY <1>2, <1>3, BarIsLife

\* What AccountLife sees of the referrals.
LEMMA SeenReferrals ==
  ASSUME RowsInv
  PROVE  /\ DOMAIN referral \subseteq 1..MaxReferrals
         /\ \A r \in DOMAIN referral : StageBar[r] = Stages[referral[r].state]
         /\ \A r \in 1..MaxReferrals : r \notin DOMAIN referral => StageBar[r] = "none"
         /\ \A r \in 1..MaxReferrals : TakerBar[r] = IF r \in DOMAIN referral /\ referral[r].user # 0
                                                     THEN user[referral[r].user].contact ELSE None
<1>1. DOMAIN referral = 1..Len(referral) /\ Len(referral) \in Nat /\ Len(referral) <= MaxReferrals
  BY Tables DEF RowsInv, Referred
<1>2. DOMAIN referral \subseteq 1..MaxReferrals
  BY <1>1, RegistrationAssumption
<1>3. QED
  BY <1>2 DEF StageBar, TakerBar

LEMMA TakerStays ==
  ASSUME RowsInv, Grows, DOMAIN referral' = DOMAIN referral,
         \A r \in DOMAIN referral : referral'[r].user = referral[r].user
  PROVE  TakerBar' = TakerBar
<1>1. \A r \in DOMAIN referral : referral[r].user # 0 => user'[referral[r].user].contact = user[referral[r].user].contact
  BY Tables DEF GoodReferral, Grows
<1>2. QED
  BY <1>1 DEF TakerBar

LEMMA StageStays ==
  ASSUME DOMAIN referral' = DOMAIN referral,
         \A r \in DOMAIN referral : referral'[r].state = referral[r].state
  PROVE  StageBar' = StageBar
BY DEF StageBar

\* The stages after a step, one by one.
LEMMA StagesNext ==
  ASSUME NEW f, f = [r \in 1..MaxReferrals |-> f[r]],
         \A r \in 1..MaxReferrals : r \in DOMAIN referral' => f[r] = Stages[referral'[r].state],
         \A r \in 1..MaxReferrals : r \notin DOMAIN referral' => f[r] = "none"
  PROVE  StageBar' = f
BY DEF StageBar

LEMMA TakersNext ==
  ASSUME NEW f, f = [r \in 1..MaxReferrals |-> f[r]],
         \A r \in 1..MaxReferrals : r \in DOMAIN referral' /\ referral'[r].user # 0
                                     => f[r] = user'[referral'[r].user].contact,
         \A r \in 1..MaxReferrals : ~(r \in DOMAIN referral' /\ referral'[r].user # 0) => f[r] = None
  PROVE  TakerBar' = f
BY DEF TakerBar

\* A step that AccountLife does not see.
LEMMA Unseen ==
  ASSUME UNCHANGED <<user, referral>>
  PROVE  UNCHANGED Life!lifeVars
<1>1. UNCHANGED <<LifeBar, StageBar, TakerBar>>
  BY DEF LifeBar, StageBar, TakerBar, UsersOf
<1>2. QED
  BY <1>1, BarStutters
-----------------------------------------------------------------------------
(***************************************************************************)
(* AccountLife: every step is one of its steps, or none.                   *)
(***************************************************************************)
Sees == Life!LifeNext \/ UNCHANGED Life!lifeVars

\* The rows a set of invitations leaves behind when they expire or are revoked.
LEMMA SeesDeath ==
  ASSUME RowsInv, load' = load, user' = user, NEW s \in {"expired", "revoked"}, NEW R \in SUBSET DOMAIN referral,
         \A r \in R : referral[r].state = "invited", referral' = SetState(R, s)
  PROVE  Sees
<1>1. /\ DOMAIN referral' = DOMAIN referral
      /\ \A r \in DOMAIN referral : /\ referral'[r].user = referral[r].user
                                    /\ referral'[r].state = IF r \in R THEN s ELSE referral[r].state
  BY DeadInvites
<1>2. Grows
  BY <1>1 DEF Grows
<1>3. TakerBar' = TakerBar /\ LifeBar' = LifeBar
  BY <1>1, <1>2, TakerStays, LifeStays
<1>4. R \in SUBSET (1..MaxReferrals) /\ \A r \in R : StageBar[r] = "open"
  BY SeenReferrals DEF Stages
<1>5. StageBar' = [r \in 1..MaxReferrals |-> IF r \in R THEN "dead" ELSE StageBar[r]]
  BY <1>1 DEF StageBar, Stages
<1>6. QED
  BY <1>3, <1>4, <1>5, BarDies DEF Sees

\* An account is opened.
LEMMA SeesOpening ==
  ASSUME RowsInv, Users', NEW m \in Contacts, NoDuplicate(m), NEW u,
         DOMAIN user' = DOMAIN user \cup {u}, u \notin DOMAIN user,
         user'[u].contact = m, user'[u].state = "pending", \A v \in DOMAIN user : user'[v] = user[v]
  PROVE  LifeBar[m] = "absent" /\ LifeBar' = [LifeBar EXCEPT ![m] = "pending"]
<1>1. \A v \in DOMAIN user : user[v].contact # m
  BY DEF NoDuplicate, UsersOf
<1>2. LifeBar[m] = "absent"
  BY <1>1, LifeOfNobody, BarIsLife
<1>3. Users
  BY DEF RowsInv
<1>4. LifeBar' = [LifeBar EXCEPT ![user'[u].contact] = user'[u].state]
  BY <1>3, OneLifeMoves
<1>5. QED
  BY <1>2, <1>4

LEMMA SeesPhone ==
  ASSUME RowsInv, NEW c \in Clients, CreatePhoneRegistration(c)
  PROVE  Sees
<1>1. PICK m, u : m = req[c].contact /\ u = Len(user) + 1
  OBVIOUS
<1>2. m \in Contacts /\ UNCHANGED <<load, link, referral, drawn>>
  BY <1>1 DEF CreatePhoneRegistration, Contacts
<1>3. CASE ~NoDuplicate(m)
  BY <1>1, <1>2, <1>3, Unseen DEF CreatePhoneRegistration, Sees
<1>4. CASE NoDuplicate(m)
  <2>1. NewUser(m)
    BY <1>1, <1>4 DEF CreatePhoneRegistration
  <2>2. /\ Users' /\ Grows /\ DOMAIN user' = DOMAIN user \cup {u} /\ u \notin DOMAIN user
        /\ user'[u].contact = m /\ user'[u].state = "pending" /\ \A v \in DOMAIN user : user'[v] = user[v]
    BY <1>1, <1>2, <1>4, <2>1, UserAdded
  <2>3. LifeBar[m] = "absent" /\ LifeBar' = [LifeBar EXCEPT ![m] = "pending"]
    BY <1>2, <1>4, <2>2, SeesOpening
  <2>4. UNCHANGED <<StageBar, TakerBar>>
    BY <1>2, <2>2, StageStays, TakerStays
  <2>5. QED
    BY <1>2, <2>3, <2>4, BarOpens DEF Sees
<1>5. QED
  BY <1>3, <1>4

LEMMA SeesEmail ==
  ASSUME RowsInv, NEW c \in Clients, CreateEmailRegistration(c)
  PROVE  Sees
<1>1. PICK m, k, u : m = req[c].contact /\ k = req[c].ref /\ u = Len(user) + 1
  OBVIOUS
<1>2. m \in Contacts /\ UNCHANGED <<load, drawn>>
  BY <1>1 DEF CreateEmailRegistration, Contacts
<1>3. CASE ~NoDuplicate(m)
  BY <1>1, <1>3, Unseen DEF CreateEmailRegistration, Sees
<1>4. CASE NoDuplicate(m)
  <2>1. /\ NewUser(m)
        /\ referral' = IF Claimable(k, m) THEN [referral EXCEPT ![k].user = u, ![k].state = "registered"]
                       ELSE referral
    BY <1>1, <1>4 DEF CreateEmailRegistration
  <2>2. DOMAIN referral \subseteq DOMAIN referral'
    BY <2>1
  <2>3. /\ Users' /\ Grows /\ DOMAIN user' = DOMAIN user \cup {u} /\ u \notin DOMAIN user /\ u \in 1..MaxUsers
        /\ user'[u].contact = m /\ user'[u].state = "pending" /\ \A v \in DOMAIN user : user'[v] = user[v]
    BY <1>1, <1>2, <1>4, <2>1, <2>2, UserAdded
  <2>4. LifeBar[m] = "absent" /\ LifeBar' = [LifeBar EXCEPT ![m] = "pending"]
    BY <1>2, <1>4, <2>3, SeesOpening
  <2>5. CASE ~Claimable(k, m)
    <3>1. referral' = referral
      BY <2>1, <2>5
    <3>2. UNCHANGED <<StageBar, TakerBar>>
      BY <2>3, <3>1, StageStays, TakerStays
    <3>3. QED
      BY <1>2, <2>4, <3>2, BarOpens DEF Sees
  <2>6. CASE Claimable(k, m)
    <3>1. referral' = [referral EXCEPT ![k].user = u, ![k].state = "registered"] /\ u \in Nat /\ u # 0
      BY <2>1, <2>3, <2>6
    <3>2. /\ k \in DOMAIN referral /\ referral[k].state = "invited" /\ DOMAIN referral' = DOMAIN referral
          /\ referral'[k].user = u /\ referral'[k].state = "registered"
          /\ \A r \in DOMAIN referral : r # k => referral'[r] = referral[r]
      BY <2>3, <2>6, <3>1, ClaimedReferral
    <3>3. k \in 1..MaxReferrals /\ StageBar[k] = "open"
      BY <3>2, SeenReferrals DEF Stages
    <3>4. StageBar' = [StageBar EXCEPT ![k] = "taken"]
      <4>1. PICK f : f = [StageBar EXCEPT ![k] = "taken"]
        OBVIOUS
      <4>2. f = [r \in 1..MaxReferrals |-> f[r]] /\ \A r \in 1..MaxReferrals : f[r] = IF r = k THEN "taken" ELSE StageBar[r]
        BY <4>1 DEF StageBar
      <4>3. \A r \in 1..MaxReferrals : r \in DOMAIN referral' => f[r] = Stages[referral'[r].state]
        BY <3>2, <4>2, SeenReferrals DEF Stages
      <4>4. \A r \in 1..MaxReferrals : r \notin DOMAIN referral' => f[r] = "none"
        BY <3>2, <4>2, SeenReferrals
      <4>5. StageBar' = f
        BY <4>2, <4>3, <4>4, StagesNext
      <4>6. QED
        BY <4>1, <4>5
    <3>5. TakerBar' = [TakerBar EXCEPT ![k] = m]
      <4>1. \A r \in DOMAIN referral : referral[r].user # 0
                 => user'[referral[r].user].contact = user[referral[r].user].contact
        BY <2>3, Tables DEF GoodReferral
      <4>2. PICK f : f = [TakerBar EXCEPT ![k] = m]
        OBVIOUS
      <4>3. f = [r \in 1..MaxReferrals |-> f[r]] /\ \A r \in 1..MaxReferrals : f[r] = IF r = k THEN m ELSE TakerBar[r]
        BY <4>2 DEF TakerBar
      <4>4. \A r \in 1..MaxReferrals : r \in DOMAIN referral' /\ referral'[r].user # 0
                                       => f[r] = user'[referral'[r].user].contact
        BY <2>3, <3>2, <4>1, <4>3, SeenReferrals
      <4>5. \A r \in 1..MaxReferrals : ~(r \in DOMAIN referral' /\ referral'[r].user # 0) => f[r] = None
        BY <3>1, <3>2, <4>3, SeenReferrals
      <4>6. QED
        BY <4>2, <4>3, <4>4, <4>5, TakersNext
    <3>6. QED
      BY <1>2, <2>4, <3>3, <3>4, <3>5, BarOpens DEF Sees
  <2>7. QED
    BY <2>5, <2>6
<1>5. QED
  BY <1>3, <1>4

\* An account becomes active, and earns the referrals it took.
LEMMA SeesActivation ==
  ASSUME RowsInv, load' = load, NEW u \in DOMAIN user, user[u].state \in {"pending", "active"},
         user' = Activated(u), referral' = Earned(EarnedBy(u))
  PROVE  Sees
<1>1. /\ DOMAIN referral' = DOMAIN referral
      /\ \A r \in DOMAIN referral : /\ referral'[r].user = referral[r].user
                                    /\ referral'[r].state = IF r \in EarnedBy(u) THEN "verified" ELSE referral[r].state
  BY EarnedReferrals DEF EarnedBy
<1>2. PICK x \in UserRow : x.contact = user[u].contact /\ x.state = "active" /\ Activated(u) = [user EXCEPT ![u] = x]
  BY ActiveRow
<1>3. /\ Users' /\ Grows /\ DOMAIN user' = DOMAIN user
      /\ user'[u] = x /\ \A v \in DOMAIN user : v # u => user'[v] = user[v]
  BY <1>1, <1>2, OneUser
<1>4. TakerBar' = TakerBar
  BY <1>1, <1>3, TakerStays
<1>5. PICK m : m = user[u].contact
  OBVIOUS
<1>6. Users /\ m \in Contacts /\ LifeBar[m] = user[u].state
  BY <1>5, SeenLife DEF RowsInv
<1>7. CASE user[u].state = "active"
  <2>1. EarnedBy(u) = {}
    BY <1>7, Tables DEF EarnedBy, GoodReferral
  <2>2. StageBar' = StageBar
    BY <1>1, <2>1, StageStays
  <2>3. \A v \in DOMAIN user : user'[v].contact = user[v].contact /\ user'[v].state = user[v].state
    BY <1>2, <1>3, <1>7
  <2>4. LifeBar' = LifeBar
    BY <1>3, <1>6, <2>3, SameLife
  <2>5. QED
    BY <1>4, <2>2, <2>4, BarStutters DEF Sees
<1>8. CASE user[u].state = "pending"
  <2>1. LifeBar' = [LifeBar EXCEPT ![m] = "active"]
    <3>1. DOMAIN user' = DOMAIN user \cup {u} /\ user'[u].contact = m /\ user'[u].state = "active"
      BY <1>2, <1>3, <1>5
    <3>2. \A v \in DOMAIN user : /\ user'[v].contact = user[v].contact
                                 /\ v # u => user'[v].state = user[v].state
      BY <1>2, <1>3
    <3>3. LifeBar' = [LifeBar EXCEPT ![user'[u].contact] = user'[u].state]
      BY <1>3, <1>6, <3>1, <3>2, OneLifeMoves
    <3>4. QED
      BY <3>1, <3>3
  <2>2. ASSUME NEW r \in 1..MaxReferrals
        PROVE  (StageBar[r] = "taken" /\ TakerBar[r] = m) <=> r \in EarnedBy(u)
    <3>1. CASE r \notin DOMAIN referral
      BY <3>1, SeenReferrals DEF EarnedBy
    <3>2. CASE r \in DOMAIN referral
      <4>1. referral[r] \in ReferralRow /\ GoodReferral(referral[r])
        BY <3>2, Tables
      <4>2. StageBar[r] = "taken" <=> referral[r].state = "registered"
        BY <3>2, <4>1, SeenReferrals DEF Stages, ReferralRow
      <4>3. referral[r].state = "registered" => /\ referral[r].user \in DOMAIN user
                                                /\ TakerBar[r] = user[referral[r].user].contact
        BY <3>2, <4>1, SeenReferrals DEF GoodReferral, Taken
      <4>4. referral[r].user \in DOMAIN user => (user[referral[r].user].contact = m <=> referral[r].user = u)
        BY <1>5, <1>6 DEF Users, Unique
      <4>5. QED
        BY <3>2, <4>2, <4>3, <4>4 DEF EarnedBy
    <3>3. QED
      BY <3>1, <3>2
  <2>3. StageBar' = [r \in 1..MaxReferrals |-> IF StageBar[r] = "taken" /\ TakerBar[r] = m THEN "earned"
                                               ELSE StageBar[r]]
    <3>1. StageBar' = [r \in 1..MaxReferrals |-> IF r \in EarnedBy(u) THEN "earned" ELSE StageBar[r]]
      <4>1. PICK f : f = [r \in 1..MaxReferrals |-> IF r \in EarnedBy(u) THEN "earned" ELSE StageBar[r]]
        OBVIOUS
      <4>2. /\ f = [r \in 1..MaxReferrals |-> f[r]]
            /\ \A r \in 1..MaxReferrals : f[r] = IF r \in EarnedBy(u) THEN "earned" ELSE StageBar[r]
        BY <4>1
      <4>3. \A r \in 1..MaxReferrals : r \in DOMAIN referral' => f[r] = Stages[referral'[r].state]
        BY <1>1, <4>2, SeenReferrals DEF Stages
      <4>4. \A r \in 1..MaxReferrals : r \notin DOMAIN referral' => f[r] = "none"
        BY <1>1, <4>2, SeenReferrals DEF EarnedBy
      <4>5. StageBar' = f
        BY <4>2, <4>3, <4>4, StagesNext
      <4>6. QED
        BY <4>1, <4>5
    <3>2. QED
      BY <2>2, <3>1
  <2>4. QED
    BY <1>4, <1>6, <1>8, <2>1, <2>3, BarActivates DEF Sees
<1>9. QED
  BY <1>7, <1>8

LEMMA SeesVerifyEmail ==
  ASSUME RowsInv, NEW t \in DOMAIN link, VerifyEmail(t)
  PROVE  Sees
<1>1. PICK u : u = link[t].user
  OBVIOUS
<1>2. /\ u \in DOMAIN user /\ load' = load
      /\ \/ user[u].state = "suspended" /\ user' = user /\ referral' = Earned({})
         \/ user[u].state \in {"pending", "active"} /\ user' = Activated(u) /\ referral' = Earned(EarnedBy(u))
  BY <1>1, VerifyEmailEffect
<1>3. CASE user' = user /\ referral' = Earned({})
  <2>1. referral' = referral
    <3>1. referral = [r \in DOMAIN referral |-> referral[r]]
      BY DEF RowsInv, Referred
    <3>2. QED
      BY <1>3, <3>1 DEF Earned
  <2>2. QED
    BY <1>3, <2>1, Unseen DEF Sees
<1>4. QED
  BY <1>2, <1>3, SeesActivation

LEMMA SeesActivatePhone ==
  ASSUME RowsInv, NEW c \in Clients, ActivatePhone(c)
  PROVE  Sees
<1>1. PICK u : u = req[c].user
  OBVIOUS
<1>2. load' = load /\ referral' = referral /\ req[c].at = "activate"
  BY DEF ActivatePhone
<1>3. u \in DOMAIN user /\ user[u].contact \in Phones
  BY <1>1, <1>2, Tables DEF Placed, ForUser, OnPhone
<1>4. CASE user' = user
  BY <1>2, <1>4, Unseen DEF Sees
<1>5. CASE user[u].state \in {"pending", "active"} /\ user' = Activated(u)
  <2>1. EarnedBy(u) = {}
    BY <1>3, Tables, RegistrationAssumption DEF EarnedBy, GoodReferral, Taken
  <2>2. referral = [r \in DOMAIN referral |-> referral[r]]
    BY DEF RowsInv, Referred
  <2>3. referral' = Earned(EarnedBy(u))
    BY <1>2, <2>1, <2>2 DEF Earned
  <2>4. QED
    BY <1>2, <1>3, <1>5, <2>3, SeesActivation
<1>6. QED
  BY <1>1, <1>4, <1>5 DEF ActivatePhone

LEMMA SeesSuspend ==
  ASSUME RowsInv, NEW u \in DOMAIN user, Suspend(u)
  PROVE  Sees
<1>1. user[u] \in UserRow /\ Users /\ user \in Seq(UserRow)
  BY Tables DEF RowsInv, Users
<1>2. PICK m, x : m = user[u].contact /\ x = [user[u] EXCEPT !.state = "suspended", !.version = @ + 1]
  OBVIOUS
<1>3. x.contact = m /\ x.state = "suspended"
  BY <1>1, <1>2 DEF UserRow
<1>4. /\ user' = [user EXCEPT ![u] = x] /\ load' = load /\ referral' = referral
      /\ user[u].state # "suspended"
  BY <1>1, <1>2 DEF Suspend, UserRow
<1>5. /\ DOMAIN user' = DOMAIN user /\ user'[u] = x /\ \A v \in DOMAIN user : v # u => user'[v] = user[v]
  BY <1>4
<1>6. RowsInv'
  BY SuspendKeeps
<1>7. LifeBar' = [LifeBar EXCEPT ![m] = "suspended"]
  <2>1. DOMAIN user' = DOMAIN user \cup {u} /\ user'[u].contact = m /\ user'[u].state = "suspended" /\ Users'
    BY <1>3, <1>5, <1>6 DEF RowsInv
  <2>2. \A v \in DOMAIN user : /\ user'[v].contact = user[v].contact
                               /\ v # u => user'[v].state = user[v].state
    BY <1>2, <1>3, <1>5
  <2>3. LifeBar' = [LifeBar EXCEPT ![user'[u].contact] = user'[u].state]
    BY <1>1, <2>1, <2>2, OneLifeMoves
  <2>4. QED
    BY <2>1, <2>3
<1>8. m \in Contacts /\ LifeBar[m] \in {"pending", "active"}
  BY <1>1, <1>2, <1>4, SeenLife DEF UserRow
<1>9. Grows
  BY <1>2, <1>3, <1>4, <1>5 DEF Grows
<1>10. UNCHANGED <<StageBar, TakerBar>>
  BY <1>4, <1>9, StageStays, TakerStays
<1>11. QED
  BY <1>7, <1>8, <1>10, BarShuts DEF Sees

LEMMA SeesInvitation ==
  ASSUME RowsInv, NEW c \in Clients, CreateReferral(c)
  PROVE  Sees
<1>1. PICK k, x : /\ k = Len(referral) + 1
                  /\ x = [from |-> req[c].user, mail |-> req[c].contact, state |-> "invited", user |-> 0, over |-> FALSE]
  OBVIOUS
<1>2. user' = user /\ load' = load /\ referral' = Append(referral, x) /\ Len(referral) < MaxReferrals
  BY <1>1 DEF CreateReferral
<1>3. Len(referral) \in Nat /\ DOMAIN referral = 1..Len(referral) /\ referral \in Seq(ReferralRow)
  BY Tables DEF RowsInv, Referred
<1>4. k \in 1..MaxReferrals /\ k \notin DOMAIN referral
  BY <1>1, <1>2, <1>3, RegistrationAssumption
<1>5. x.state = "invited" /\ x.user = 0
  BY <1>1
<1>6. DOMAIN referral' = DOMAIN referral \cup {k} /\ referral'[k] = x /\ \A r \in DOMAIN referral : referral'[r] = referral[r]
  <2>1. PICK S : S = ReferralRow \cup {x}
    OBVIOUS
  <2>2. referral \in Seq(S) /\ x \in S
    BY <1>3, <2>1
  <2>3. QED
    BY <1>1, <1>2, <2>2, OneMore
<1>7. LifeBar' = LifeBar
  BY <1>2, LifeStays
<1>8. StageBar[k] = "none" /\ StageBar' = [StageBar EXCEPT ![k] = "open"]
  <2>1. PICK f : f = [StageBar EXCEPT ![k] = "open"]
    OBVIOUS
  <2>2. f = [r \in 1..MaxReferrals |-> f[r]] /\ \A r \in 1..MaxReferrals : f[r] = IF r = k THEN "open" ELSE StageBar[r]
    BY <2>1 DEF StageBar
  <2>3. \A r \in 1..MaxReferrals : r \in DOMAIN referral' => f[r] = Stages[referral'[r].state]
    BY <1>5, <1>6, <2>2, SeenReferrals DEF Stages
  <2>4. \A r \in 1..MaxReferrals : r \notin DOMAIN referral' => f[r] = "none"
    BY <1>6, <2>2, SeenReferrals
  <2>5. StageBar[k] = "none"
    BY <1>4, SeenReferrals
  <2>6. StageBar' = f
    BY <2>2, <2>3, <2>4, StagesNext
  <2>7. QED
    BY <2>1, <2>5, <2>6
<1>9. TakerBar' = TakerBar
  BY <1>2, <1>4, <1>5, <1>6 DEF TakerBar
<1>10. QED
  BY <1>4, <1>7, <1>8, <1>9, BarInvites DEF Sees
LEMMA SeesOver ==
  ASSUME RowsInv, NEW r \in DOMAIN referral, ReferralOver(r)
  PROVE  Sees
<1>1. PICK x : x = [referral[r] EXCEPT !.over = TRUE]
  OBVIOUS
<1>2. x.user = referral[r].user /\ x.state = referral[r].state
  BY <1>1, Tables DEF ReferralRow
<1>3. referral' = [referral EXCEPT ![r] = x] /\ user' = user /\ load' = load
  BY <1>1 DEF ReferralOver
<1>4. /\ DOMAIN referral' = DOMAIN referral
      /\ \A k \in DOMAIN referral : referral'[k].user = referral[k].user /\ referral'[k].state = referral[k].state
  BY <1>2, <1>3
<1>5. Grows
  BY <1>3, <1>4 DEF Grows
<1>6. UNCHANGED <<LifeBar, StageBar, TakerBar>>
  BY <1>3, <1>4, <1>5, LifeStays, StageStays, TakerStays
<1>7. QED
  BY <1>6, BarStutters DEF Sees

LEMMA EveryStepIsSeen ==
  ASSUME RowsInv, [RegistrationNext]_rvars
  PROVE  Sees
<1>1. ASSUME NEW c \in Clients,
             \/ \E m \in load.contacts : \/ \E ref \in {0} \cup DOMAIN referral : Register(c, m, ref)
                                         \/ RequestVerification(c, m)
             \/ \E u \in DOMAIN load.users, m \in load.contacts \cap Mails : InviteReferral(c, u, m)
             \/ \E m \in Phones, code \in 0..drawn : VerifyPhone(c, m, code)
      PROVE  Sees
  <2>1. UNCHANGED <<user, referral>>
    BY <1>1 DEF Register, RequestVerification, InviteReferral, VerifyPhone, Ask
  <2>2. QED
    BY <2>1, Unseen DEF Sees
<1>2. ASSUME NEW c \in Clients,
             \/ LookUp(c) \/ RetireLinks(c) \/ InsertLink(c) \/ StoreCode(c) \/ CheckCode(c)
             \/ \E sent \in BOOLEAN : SendCode(c, sent) \/ SendReferral(c, sent)
             \/ Eligible(c) \/ Stop(c)
      PROVE  Sees
  <2>1. UNCHANGED <<user, referral>>
    BY <1>2 DEF LookUp, RetireLinks, InsertLink, StoreCode, CheckCode, SendCode, SendReferral, Eligible, Stop
  <2>2. QED
    BY <2>1, Unseen DEF Sees
<1>3. ASSUME NEW c \in Clients,
             CreateEmailRegistration(c) \/ CreatePhoneRegistration(c) \/ ActivatePhone(c) \/ CreateReferral(c)
      PROVE  Sees
  BY <1>3, SeesEmail, SeesPhone, SeesActivatePhone, SeesInvitation
<1>4. ASSUME NEW c \in Clients, RevokeInvited(c) PROVE Sees
  <2>1. PICK R : R = Invited(req[c].user, req[c].contact)
    OBVIOUS
  <2>2. /\ R \in SUBSET DOMAIN referral /\ (\A r \in R : referral[r].state = "invited")
        /\ referral' = SetState(R, "revoked") /\ load' = load /\ user' = user
    BY <1>4, <2>1 DEF Invited, RevokeInvited
  <2>3. QED
    BY <2>2, SeesDeath
<1>5. ASSUME NEW c \in Clients, RevokeReferral(c) PROVE Sees
  <2>1. PICK R : R = Revocable(req[c].ref)
    OBVIOUS
  <2>2. req[c].at = "revoke" /\ referral' = SetState(R, "revoked") /\ load' = load /\ user' = user
    BY <1>5, <2>1 DEF RevokeReferral
  <2>3. R \in SUBSET DOMAIN referral /\ (\A r \in R : referral[r].state = "invited")
    BY <2>1, <2>2, Tables DEF Revocable, Placed
  <2>4. QED
    BY <2>2, <2>3, SeesDeath
<1>6. ASSUME NEW u \in DOMAIN user, ListReferrals(u) PROVE Sees
  <2>1. PICK R : R = {r \in DOMAIN referral : referral[r].from = u /\ referral[r].state = "invited" /\ referral[r].over}
    OBVIOUS
  <2>2. /\ R \in SUBSET DOMAIN referral /\ (\A r \in R : referral[r].state = "invited")
        /\ referral' = SetState(R, "expired") /\ load' = load /\ user' = user
    BY <1>6, <2>1 DEF ListReferrals
  <2>3. QED
    BY <2>2, SeesDeath
<1>7. ASSUME NEW t \in DOMAIN link, VerifyEmail(t) PROVE Sees
  BY <1>7, SeesVerifyEmail
<1>8. ASSUME NEW r \in DOMAIN referral, ReferralOver(r) PROVE Sees
  BY <1>8, SeesOver
<1>9. ASSUME NEW u \in DOMAIN user, Suspend(u) PROVE Sees
  BY <1>9, SeesSuspend
<1>10. CASE \/ \E t \in DOMAIN link : LinkOver(t)
            \/ \E u \in DOMAIN user : CodeOver(u)
            \/ \E route \in Routes, m \in Contacts : WindowOver(route, m)
            \/ UNCHANGED rvars
  <2>1. UNCHANGED <<user, referral>>
    BY <1>10 DEF LinkOver, CodeOver, WindowOver, rvars
  <2>2. QED
    BY <2>1, Unseen DEF Sees
<1>11. QED
  BY <1>1, <1>2, <1>3, <1>4, <1>5, <1>6, <1>7, <1>8, <1>9, <1>10 DEF RegistrationNext

LEMMA LifeInitially ==
  ASSUME RegistrationInit
  PROVE  Life!LifeInit
<1>1. RowsInv
  BY RowsInitially
<1>2. DOMAIN referral = {}
  BY DEF RegistrationInit
<1>3. \A u \in DOMAIN user : user[u].state = "active"
  BY DEF RegistrationInit
<1>4. ASSUME NEW m \in Contacts PROVE LifeBar[m] \in {"absent", "active"}
  <2>1. LifeBar[m] = LifeIn(user, m) /\ Unique(user)
    BY <1>1, BarIsLife DEF RowsInv, Users
  <2>2. CASE \E u \in DOMAIN user : user[u].contact = m
    BY <1>3, <2>1, <2>2, LifeOfUser
  <2>3. CASE \A u \in DOMAIN user : user[u].contact # m
    BY <2>1, <2>3, LifeOfNobody
  <2>4. QED
    BY <2>2, <2>3
<1>5. LifeBar \in [Contacts -> {"absent", "active"}]
  BY <1>4, BarIsLife
<1>6. StageBar = [r \in 1..MaxReferrals |-> "none"] /\ TakerBar = [r \in 1..MaxReferrals |-> None]
  BY <1>2 DEF StageBar, TakerBar
<1>7. QED
  BY <1>5, <1>6, Zenon DEF Life!LifeInit, LifeBar, StageBar, TakerBar

\* Registration and referral implement AccountLife, for any number of requests in any order:
\* an account is opened once and never leaves the suspension (verify_email and verify_phone
\* ask for the state under the lock), a referral is taken by one account and earned in the
\* very step that makes it active, and one that was taken is never revoked or expired.
THEOREM RegistrationImplementsLife == RegistrationSpec => LifeHolds
<1>1. RegistrationInit => Life!LifeInit
  BY LifeInitially
<1>2. RowsInv /\ [RegistrationNext]_rvars => [Life!LifeNext]_(Life!lifeVars)
  BY EveryStepIsSeen DEF Sees
<1>3. QED
  BY <1>1, <1>2, RowsBelongTogether, PTL DEF RegistrationSpec, LifeHolds, Life!LifeSpec
-----------------------------------------------------------------------------
(***************************************************************************)
(* What a referral is worth.  As with the tickets of login, the invariant  *)
(* is about AccountLife alone and carried over to the handlers.            *)
(***************************************************************************)
Deserved(l, s, t) ==
  /\ l \in [Contacts -> {"absent", "pending", "active", "suspended"}]
  /\ s \in [1..MaxReferrals -> {"none", "open", "taken", "earned", "dead"}]
  /\ t \in [1..MaxReferrals -> Contacts \cup {None}]
  /\ \A r \in 1..MaxReferrals : t[r] # None <=> s[r] \in {"taken", "earned"}
  /\ \A r \in 1..MaxReferrals : s[r] = "taken" => l[t[r]] \in {"pending", "suspended"}
  /\ \A r \in 1..MaxReferrals : s[r] = "earned" => l[t[r]] \in {"active", "suspended"}
  /\ \A q, r \in 1..MaxReferrals : t[q] # None /\ t[q] = t[r] => q = r

\* Whoever took a referral is a contact with an account.
LEMMA TakersExist ==
  ASSUME NEW l, NEW s, NEW t, Deserved(l, s, t), NEW r \in 1..MaxReferrals, s[r] \in {"taken", "earned"}
  PROVE  t[r] \in Contacts /\ l[t[r]] # "absent"
BY RegistrationAssumption DEF Deserved

LEMMA OpenKeepsDeserved ==
  ASSUME NEW l, NEW s, NEW t, Deserved(l, s, t), NEW m \in Contacts, l[m] = "absent"
  PROVE  /\ Deserved([l EXCEPT ![m] = "pending"], s, t)
         /\ \A r \in 1..MaxReferrals :
              s[r] = "open" => Deserved([l EXCEPT ![m] = "pending"], [s EXCEPT ![r] = "taken"], [t EXCEPT ![r] = m])
<1>1. \A q \in 1..MaxReferrals : s[q] \in {"taken", "earned"} => t[q] \in Contacts /\ t[q] # m
  BY TakersExist
<1>2. \A q \in 1..MaxReferrals : t[q] # m
  BY <1>1, RegistrationAssumption DEF Deserved
<1>3. PICK k : k = [l EXCEPT ![m] = "pending"]
  OBVIOUS
<1>4. k \in [Contacts -> {"absent", "pending", "active", "suspended"}] /\ k[m] = "pending"
  BY <1>3 DEF Deserved
<1>5. \A q \in 1..MaxReferrals : s[q] \in {"taken", "earned"} => k[t[q]] = l[t[q]]
  BY <1>1, <1>3 DEF Deserved
<1>6. Deserved(k, s, t)
  BY <1>4, <1>5 DEF Deserved
<1>7. ASSUME NEW r \in 1..MaxReferrals, s[r] = "open"
      PROVE  Deserved(k, [s EXCEPT ![r] = "taken"], [t EXCEPT ![r] = m])
  <2>1. PICK v, w : v = [s EXCEPT ![r] = "taken"] /\ w = [t EXCEPT ![r] = m]
    OBVIOUS
  <2>2. /\ v \in [1..MaxReferrals -> {"none", "open", "taken", "earned", "dead"}]
        /\ w \in [1..MaxReferrals -> Contacts \cup {None}]
        /\ \A q \in 1..MaxReferrals : q # r => v[q] = s[q] /\ w[q] = t[q]
        /\ v[r] = "taken" /\ w[r] = m /\ m # None
    BY <2>1, RegistrationAssumption DEF Deserved
  <2>3. Deserved(k, v, w)
    BY <1>2, <1>4, <1>6, <2>2 DEF Deserved
  <2>4. QED
    BY <2>1, <2>3
<1>8. QED
  BY <1>3, <1>6, <1>7

LEMMA ActivateKeepsDeserved ==
  ASSUME NEW l, NEW s, NEW t, Deserved(l, s, t), NEW m \in Contacts, l[m] = "pending"
  PROVE  Deserved([l EXCEPT ![m] = "active"],
                  [r \in 1..MaxReferrals |-> IF s[r] = "taken" /\ t[r] = m THEN "earned" ELSE s[r]], t)
<1>1. PICK k, v : /\ k = [l EXCEPT ![m] = "active"]
                  /\ v = [r \in 1..MaxReferrals |-> IF s[r] = "taken" /\ t[r] = m THEN "earned" ELSE s[r]]
  OBVIOUS
<1>2. /\ k \in [Contacts -> {"absent", "pending", "active", "suspended"}] /\ k[m] = "active"
      /\ \A i \in Contacts : i # m => k[i] = l[i]
  BY <1>1 DEF Deserved
<1>3. /\ v \in [1..MaxReferrals -> {"none", "open", "taken", "earned", "dead"}]
      /\ \A r \in 1..MaxReferrals : v[r] = IF s[r] = "taken" /\ t[r] = m THEN "earned" ELSE s[r]
  BY <1>1 DEF Deserved
<1>4. \A r \in 1..MaxReferrals : s[r] \in {"taken", "earned"} => t[r] \in Contacts
  BY TakersExist
<1>5. Deserved(k, v, t)
  BY <1>2, <1>3, <1>4 DEF Deserved
<1>6. QED
  BY <1>1, <1>5

LEMMA ShutKeepsDeserved ==
  ASSUME NEW l, NEW s, NEW t, Deserved(l, s, t), NEW m \in Contacts
  PROVE  Deserved([l EXCEPT ![m] = "suspended"], s, t)
<1>1. PICK k : k = [l EXCEPT ![m] = "suspended"]
  OBVIOUS
<1>2. /\ k \in [Contacts -> {"absent", "pending", "active", "suspended"}]
      /\ \A i \in Contacts : k[i] = l[i] \/ k[i] = "suspended"
  BY <1>1 DEF Deserved
<1>3. \A r \in 1..MaxReferrals : s[r] \in {"taken", "earned"} => t[r] \in Contacts
  BY TakersExist
<1>4. Deserved(k, s, t)
  BY <1>2, <1>3 DEF Deserved
<1>5. QED
  BY <1>1, <1>4

LEMMA InviteKeepsDeserved ==
  ASSUME NEW l, NEW s, NEW t, Deserved(l, s, t), NEW r \in 1..MaxReferrals, s[r] = "none"
  PROVE  Deserved(l, [s EXCEPT ![r] = "open"], t)
BY DEF Deserved

LEMMA DieKeepsDeserved ==
  ASSUME NEW l, NEW s, NEW t, Deserved(l, s, t), NEW R \in SUBSET (1..MaxReferrals), \A r \in R : s[r] = "open"
  PROVE  Deserved(l, [r \in 1..MaxReferrals |-> IF r \in R THEN "dead" ELSE s[r]], t)
BY DEF Deserved

DeservedNow == Deserved(LifeBar, StageBar, TakerBar)

\* Every step of AccountLife keeps it.
LEMMA DeservedStep ==
  ASSUME DeservedNow, Sees
  PROVE  DeservedNow'
<1>1. Deserved(LifeBar, StageBar, TakerBar)
  BY DEF DeservedNow
<1>2. ASSUME Deserved(LifeBar', StageBar', TakerBar') PROVE DeservedNow'
  BY <1>2 DEF DeservedNow, Deserved
<1>3. ASSUME NEW m \in Contacts, Life!Open(m) PROVE DeservedNow'
  <2>1. /\ LifeBar[m] = "absent" /\ LifeBar' = [LifeBar EXCEPT ![m] = "pending"]
        /\ \/ StageBar' = StageBar /\ TakerBar' = TakerBar
           \/ \E r \in 1..MaxReferrals : /\ StageBar[r] = "open"
                                         /\ StageBar' = [StageBar EXCEPT ![r] = "taken"]
                                         /\ TakerBar' = [TakerBar EXCEPT ![r] = m]
    BY <1>3, Zenon DEF Life!Open, LifeBar, StageBar, TakerBar
  <2>2. /\ Deserved([LifeBar EXCEPT ![m] = "pending"], StageBar, TakerBar)
        /\ \A r \in 1..MaxReferrals :
             StageBar[r] = "open" => Deserved([LifeBar EXCEPT ![m] = "pending"], [StageBar EXCEPT ![r] = "taken"],
                                              [TakerBar EXCEPT ![r] = m])
    BY <1>1, <2>1, OpenKeepsDeserved
  <2>3. Deserved(LifeBar', StageBar', TakerBar')
    BY <2>1, <2>2, Zenon
  <2>4. QED
    BY <1>2, <2>3
<1>4. ASSUME NEW m \in Contacts, Life!Activate(m) PROVE DeservedNow'
  <2>1. /\ LifeBar[m] = "pending" /\ LifeBar' = [LifeBar EXCEPT ![m] = "active"] /\ TakerBar' = TakerBar
        /\ StageBar' = [r \in 1..MaxReferrals |-> IF StageBar[r] = "taken" /\ TakerBar[r] = m THEN "earned"
                                                  ELSE StageBar[r]]
    BY <1>4, Zenon DEF Life!Activate, LifeBar, StageBar, TakerBar
  <2>2. Deserved([LifeBar EXCEPT ![m] = "active"],
                 [r \in 1..MaxReferrals |-> IF StageBar[r] = "taken" /\ TakerBar[r] = m THEN "earned" ELSE StageBar[r]],
                 TakerBar)
    BY <1>1, <2>1, ActivateKeepsDeserved
  <2>3. Deserved(LifeBar', StageBar', TakerBar')
    BY <2>1, <2>2, Zenon
  <2>4. QED
    BY <1>2, <2>3
<1>5. ASSUME NEW m \in Contacts, Life!Shut(m) PROVE DeservedNow'
  <2>1. LifeBar' = [LifeBar EXCEPT ![m] = "suspended"] /\ StageBar' = StageBar /\ TakerBar' = TakerBar
    BY <1>5, Zenon DEF Life!Shut, LifeBar, StageBar, TakerBar
  <2>2. Deserved([LifeBar EXCEPT ![m] = "suspended"], StageBar, TakerBar)
    BY <1>1, ShutKeepsDeserved
  <2>3. QED
    BY <1>2, <2>1, <2>2
<1>6. ASSUME NEW r \in 1..MaxReferrals, Life!Invite(r) PROVE DeservedNow'
  <2>1. /\ StageBar[r] = "none" /\ StageBar' = [StageBar EXCEPT ![r] = "open"]
        /\ LifeBar' = LifeBar /\ TakerBar' = TakerBar
    BY <1>6, Zenon DEF Life!Invite, LifeBar, StageBar, TakerBar
  <2>2. Deserved(LifeBar, [StageBar EXCEPT ![r] = "open"], TakerBar)
    BY <1>1, <2>1, InviteKeepsDeserved
  <2>3. QED
    BY <1>2, <2>1, <2>2
<1>7. ASSUME NEW R \in SUBSET (1..MaxReferrals), Life!Die(R) PROVE DeservedNow'
  <2>1. /\ \A r \in R : StageBar[r] = "open"
        /\ StageBar' = [r \in 1..MaxReferrals |-> IF r \in R THEN "dead" ELSE StageBar[r]]
        /\ LifeBar' = LifeBar /\ TakerBar' = TakerBar
    BY <1>7, Zenon DEF Life!Die, LifeBar, StageBar, TakerBar
  <2>2. Deserved(LifeBar, [r \in 1..MaxReferrals |-> IF r \in R THEN "dead" ELSE StageBar[r]], TakerBar)
    BY <1>1, <2>1, DieKeepsDeserved
  <2>3. Deserved(LifeBar', StageBar', TakerBar')
    BY <2>1, <2>2, Zenon
  <2>4. QED
    BY <1>2, <2>3
<1>8. CASE UNCHANGED Life!lifeVars
  <2>1. LifeBar' = LifeBar /\ StageBar' = StageBar /\ TakerBar' = TakerBar
    BY <1>8, Zenon DEF Life!lifeVars, LifeBar, StageBar, TakerBar
  <2>2. QED
    BY <1>1, <1>2, <2>1
<1>9. QED
  BY <1>3, <1>4, <1>5, <1>6, <1>7, <1>8, Zenon DEF Sees, Life!LifeNext

\* create_email_registration, verify_email, verify_phone and the referral routes: behind a
\* referral that counts as verified is an account that was activated, behind one that counts
\* as registered an account that still waits (or was shut), and no account has two.
THEOREM ReferralsAreEarnedOnce == RegistrationSpec => []Life!EarnedByOne
<1>1. RegistrationInit => DeservedNow
  <2> SUFFICES ASSUME RegistrationInit PROVE DeservedNow
    OBVIOUS
  <2>1. Life!LifeInit
    BY LifeInitially
  <2>2. /\ LifeBar \in [Contacts -> {"absent", "active"}]
        /\ StageBar = [r \in 1..MaxReferrals |-> "none"] /\ TakerBar = [r \in 1..MaxReferrals |-> None]
    BY <2>1, Zenon DEF Life!LifeInit, LifeBar, StageBar, TakerBar
  <2>3. QED
    BY <2>2 DEF DeservedNow, Deserved
<1>2. RowsInv /\ [RegistrationNext]_rvars /\ DeservedNow => DeservedNow'
  BY EveryStepIsSeen, DeservedStep
<1>3. DeservedNow => Life!EarnedByOne
  <2> SUFFICES ASSUME DeservedNow PROVE Life!EarnedByOne
    OBVIOUS
  <2>1. /\ \A r \in 1..MaxReferrals : TakerBar[r] # None <=> StageBar[r] \in {"taken", "earned"}
        /\ \A r \in 1..MaxReferrals : StageBar[r] = "taken" => LifeBar[TakerBar[r]] \in {"pending", "suspended"}
        /\ \A r \in 1..MaxReferrals : StageBar[r] = "earned" => LifeBar[TakerBar[r]] \in {"active", "suspended"}
        /\ \A q, r \in 1..MaxReferrals : TakerBar[q] # None /\ TakerBar[q] = TakerBar[r] => q = r
    BY DEF DeservedNow, Deserved
  <2>2. QED
    BY <2>1, Zenon DEF Life!EarnedByOne, LifeBar, StageBar, TakerBar
<1>4. QED
  BY <1>1, <1>2, <1>3, RowsBelongTogether, PTL DEF RegistrationSpec
=============================================================================
