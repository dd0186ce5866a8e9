----------------------------- MODULE LoginProofs -----------------------------
(***************************************************************************)
(* Login, for any number of clients, accounts and requests.  TablesInv     *)
(* says what the tables hold and what a request has in hand; on it rest    *)
(* the invariants for passwords, phone codes, social logins, devices and   *)
(* the counters of wrong passwords.                                        *)
(***************************************************************************)
EXTENDS Login, FiniteSetTheorems, TLAPS

\* The steps of a request: those of a password, of a phone code, of a social login, and those
\* that all three have in common.
OfPassword == {"identity", "count mail", "count ip", "lock", "reset", "rehash"}
OfPhone == {"hset", "expire", "send", "check"}
OfSocial == {"find", "find mail", "provision"}
OfDevice == {"device", "insert device", "decide"}
ForAccount == OfPhone \cup OfDevice \cup {"reset", "rehash"}

Labels == OfPassword \cup OfPhone \cup OfSocial \cup OfDevice \cup {"idle"}

RequestState ==
  [at : Labels,
   via : {"password", "phone", "social", None}, acct : Nat, sub : Subjects \cup {None},
   mail : Mails \cup {None}, dev : Devices \cup {None}, ip : Addresses \cup {None}, guess : Nat,
   dated : BOOLEAN, hit : SUBSET Counted, known : BOOLEAN, moved : BOOLEAN]

CodeRow == [gen : Nat, attempts : 0..(OtpAttempts - 1), ttl : BOOLEAN]
Decision == [via : {"password", "phone", "social"}, acct : Nat, sub : Subjects \cup {None}, state : Nat,
             dev : Devices, known : BOOLEAN, decision : {"collision", "mfa", "ready"}]

\* What a request has in hand.
Placed(r) ==
  /\ r.at \in ForAccount => r.acct \in DOMAIN account
  /\ r.at \in OfPassword => r.mail \in Mails /\ r.via = "password"
  /\ r.at = "count ip" => r.ip \in Addresses /\ r.hit \subseteq {r.mail}
  /\ r.at = "lock" => r.hit # {} /\ r.hit \subseteq {r.mail, r.ip}
  /\ r.at \in OfPassword \ {"count ip", "lock"} => r.hit = {}
  /\ r.at = "rehash" => r.dated
  /\ r.at \in OfSocial => r.sub \in Subjects /\ r.via = "social"
  /\ r.at \in OfSocial \cup OfDevice => r.dev \in Devices
  /\ r.at \in OfPassword \cup {"check"} => r.dev \in Devices
  /\ r.at \in OfDevice \cup {"check"} => r.via \in {"password", "phone", "social"}
  /\ r.at = "check" => r.via = "phone"
  /\ r.at \in OfDevice /\ r.via = "social" => <<r.sub, r.acct>> \in identity /\ r.sub \in Subjects

\* The unique indexes over users and identities.
UniqueMails == \A a, b \in DOMAIN account : account[a].mail = account[b].mail => a = b
UniqueSubjects == \A s \in Subjects : \A a, b \in DOMAIN account : <<s, a>> \in identity /\ <<s, b>> \in identity => a = b

Users ==
  /\ load \in Workloads
  /\ account \in Seq(AccountRow) /\ Len(account) <= MaxAccounts
  /\ latest \in Seq(Nat) /\ Len(latest) = Len(account)
  /\ identity \subseteq Subjects \X DOMAIN account
  /\ UniqueMails /\ UniqueSubjects

Codes ==
  /\ otp \in Seq(CodeRow) /\ Len(otp) = Len(account)
  /\ drawn \in Nat /\ \A a \in DOMAIN otp : otp[a].gen <= drawn

Keys == attempts \in [Counted -> Nat] /\ lock \in [Counted -> {"open", "locked", "fading"}]

Decisions ==
  /\ state \in Seq({"live", "gone"}) /\ device \subseteq DeviceRow
  /\ decided \in Seq(Decision) /\ \A i \in DOMAIN decided : decided[i].acct \in DOMAIN account

Requests == req \in [Clients -> RequestState] /\ \A c \in Clients : Placed(req[c])

TablesInv == Users /\ Codes /\ Keys /\ Decisions /\ Requests

\* A login that is about to renew a hash has the password of today, unless it was reset meanwhile.
PasswordInv ==
  /\ PasswordUnlessRaced
  /\ \A c \in Clients : req[c].at \in {"reset", "rehash"} /\ req[c].dated /\ req[c].acct \notin raced
                          => req[c].guess = latest[req[c].acct]

\* A state is in the hands of one request or one decision, and gone.
Social(r) == r.via = "social" /\ r.at \in OfSocial \cup OfDevice
SocialInv ==
  /\ \A c \in Clients : Social(req[c]) => req[c].guess \in DOMAIN state /\ state[req[c].guess] = "gone"
  /\ \A i \in DOMAIN decided : decided[i].via = "social" =>
       /\ decided[i].state \in DOMAIN state /\ state[decided[i].state] = "gone"
       /\ decided[i].decision # "collision" => <<decided[i].sub, decided[i].acct>> \in identity /\ decided[i].sub \in Subjects
       /\ \A c \in Clients : Social(req[c]) => req[c].guess # decided[i].state
       /\ \A j \in DOMAIN decided : decided[j].via = "social" /\ decided[i].state = decided[j].state => i = j
  /\ \A c, d \in Clients : Social(req[c]) /\ Social(req[d]) /\ req[c].guess = req[d].guess => c = d

\* The first sight of a device is in the hands of one request or one decision.
New(r) == r.at = "decide" /\ ~r.known
NewIn(x) == x.decision # "collision" /\ ~x.known
DeviceInv ==
  /\ \A c \in Clients : New(req[c]) => Seen(req[c].acct, req[c].dev) # {}
  /\ \A i \in DOMAIN decided : NewIn(decided[i]) => Seen(decided[i].acct, decided[i].dev) # {}
  /\ \A c, d \in Clients : New(req[c]) /\ New(req[d]) /\ req[c].acct = req[d].acct /\ req[c].dev = req[d].dev => c = d
  /\ \A c \in Clients, i \in DOMAIN decided :
       ~(New(req[c]) /\ NewIn(decided[i]) /\ req[c].acct = decided[i].acct /\ req[c].dev = decided[i].dev)
  /\ FirstSightOnce

\* The comparisons a code has seen are those its key counts.
TriesInv ==
  /\ tries \in [1..MaxCodes -> [wrong : Nat, right : Nat]] /\ drawn <= MaxCodes
  /\ \A a, b \in DOMAIN otp : otp[a].gen = otp[b].gen /\ otp[a].gen # 0 => a = b
  /\ \A a \in DOMAIN otp : otp[a].gen # 0 => tries[otp[a].gen].right = 0 /\ tries[otp[a].gen].wrong = otp[a].attempts
  /\ \A g \in 1..MaxCodes : /\ g > drawn => tries[g].right = 0 /\ tries[g].wrong = 0
                            /\ tries[g].right <= 1 /\ tries[g].wrong + tries[g].right <= OtpAttempts

\* The requests that may still count for an address, and those that will lock it: a counter
\* past the limit has a lock, or somebody on the way to set it.
Counts(r, s) ==
  \/ r.at \in {"identity", "count mail"} /\ (s = r.mail \/ s = r.ip)
  \/ r.at = "count ip" /\ s = r.ip
Locks(r, s) == r.at \in {"count ip", "lock"} /\ s \in r.hit
WillCount(s) == {c \in Clients : Counts(req[c], s)}
WillLock(s) == {c \in Clients : Locks(req[c], s)}

CounterHolds(s) ==
  /\ lock[s] # "locked" => attempts[s] <= AttemptLimit - 1 + Cardinality(WillLock(s))
  /\ lock[s] = "locked" => attempts[s] + Cardinality(WillCount(s)) <= AttemptLimit - 1 + Cardinality(Clients)
Counters == \A s \in Counted : CounterHolds(s)
CountersInv == "stop" \notin load.requests => Counters
-----------------------------------------------------------------------------
(***************************************************************************)
(* Sequences, and the tables.                                              *)
(***************************************************************************)
\* A sequence whose elements are replaced one by one.
LEMMA SameLength ==
  ASSUME NEW S, NEW T, NEW s \in Seq(S), NEW f, f = [k \in DOMAIN s |-> f[k]],
         \A k \in DOMAIN s : f[k] \in T
  PROVE  f \in Seq(T) /\ Len(f) = Len(s) /\ DOMAIN f = DOMAIN s
<1>1. DOMAIN s = 1..Len(s) /\ Len(s) \in Nat
  OBVIOUS
<1>2. f = [k \in 1..Len(s) |-> f[k]] /\ \A k \in 1..Len(s) : f[k] \in T
  BY <1>1
<1>3. f \in Seq(T) /\ Len(f) = Len(s)
  BY <1>1, <1>2
<1>4. QED
  BY <1>1, <1>3

\* A sequence of which one element is replaced.
LEMMA OneEntry ==
  ASSUME NEW S, NEW s \in Seq(S), NEW id \in DOMAIN s, NEW x \in S, NEW f, f = [s EXCEPT ![id] = x]
  PROVE  /\ f \in Seq(S) /\ Len(f) = Len(s) /\ DOMAIN f = DOMAIN s
         /\ f[id] = x /\ \A k \in DOMAIN s : k # id => f[k] = s[k]
<1>1. /\ f = [k \in DOMAIN s |-> f[k]]
      /\ f[id] = x /\ \A k \in DOMAIN s : k # id => f[k] = s[k]
  OBVIOUS
<1>2. \A k \in DOMAIN s : f[k] \in S
  BY <1>1
<1>3. QED
  BY <1>1, <1>2, SameLength

\* A sequence with one element more.
LEMMA OneMore ==
  ASSUME NEW S, NEW s \in Seq(S), NEW x \in S, NEW f, f = Append(s, x)
  PROVE  /\ f \in Seq(S) /\ Len(f) = Len(s) + 1 /\ DOMAIN f = DOMAIN s \cup {Len(s) + 1}
         /\ f[Len(s) + 1] = x /\ Len(s) + 1 \notin DOMAIN s /\ \A k \in DOMAIN s : f[k] = s[k]
<1>1. DOMAIN s = 1..Len(s) /\ Len(s) \in Nat
  OBVIOUS
<1>2. /\ f \in Seq(S) /\ Len(f) = Len(s) + 1
      /\ f[Len(s) + 1] = x /\ \A k \in 1..Len(s) : f[k] = s[k]
  OBVIOUS
<1>3. DOMAIN f = 1..(Len(s) + 1)
  BY <1>1, <1>2
<1>4. QED
  BY <1>1, <1>2, <1>3

LEMMA Tables ==
  ASSUME TablesInv
  PROVE  /\ Len(account) \in Nat /\ DOMAIN account = 1..Len(account)
         /\ \A a \in DOMAIN account : account[a] \in AccountRow /\ latest[a] \in Nat /\ otp[a] \in CodeRow
         /\ DOMAIN latest = DOMAIN account /\ DOMAIN otp = DOMAIN account /\ 0 \notin DOMAIN account
         /\ \A c \in Clients : req[c] \in RequestState /\ Placed(req[c])
<1>1. /\ Len(account) \in Nat /\ DOMAIN account = 1..Len(account)
      /\ \A a \in DOMAIN account : account[a] \in AccountRow
  BY DEF TablesInv, Users
<1>2. DOMAIN latest = DOMAIN account /\ \A a \in DOMAIN account : latest[a] \in Nat
  BY <1>1 DEF TablesInv, Users
<1>3. DOMAIN otp = DOMAIN account /\ \A a \in DOMAIN account : otp[a] \in CodeRow
  BY <1>1 DEF TablesInv, Users, Codes
<1>4. \A c \in Clients : req[c] \in RequestState /\ Placed(req[c])
  BY DEF TablesInv, Requests
<1>5. QED
  BY <1>1, <1>2, <1>3, <1>4

\* Accounts and identities stay.
Grows == load' = load /\ DOMAIN account \subseteq DOMAIN account' /\ identity \subseteq identity'

\* A step of one request that leaves it placed.
LEMMA OneMoves ==
  ASSUME TablesInv, Grows, NEW c \in Clients, NEW r \in RequestState, Step(c, r), Placed(r)'
  PROVE  Requests' /\ \A d \in Clients : req'[d] = IF d = c THEN r ELSE req[d]
<1>1. req' \in [Clients -> RequestState] /\ \A d \in Clients : req'[d] = IF d = c THEN r ELSE req[d]
  BY DEF TablesInv, Requests, Step
<1>2. ASSUME NEW d \in Clients PROVE Placed(req[d])'
  <2>1. CASE d = c
    BY <1>1, <2>1
  <2>2. CASE d # c
    <3>1. req'[d] = req[d] /\ Placed(req[d])
      BY <1>1, <2>2 DEF TablesInv, Requests
    <3>2. QED
      BY <3>1 DEF Placed, Grows
  <2>3. QED
    BY <2>1, <2>2
<1>3. QED
  BY <1>1, <1>2 DEF Requests

LEMMA NobodyMoves ==
  ASSUME TablesInv, Grows, req' = req
  PROVE  Requests'
<1>1. ASSUME NEW r, Placed(r) PROVE Placed(r)'
  BY <1>1 DEF Placed, Grows
<1>2. QED
  BY <1>1 DEF TablesInv, Requests

LEMMA LabelsAre ==
  /\ Labels = {"identity", "count mail", "count ip", "lock", "reset", "rehash", "hset", "expire", "send", "check",
               "find", "find mail", "provision", "device", "insert device", "decide", "idle"}
BY DEF Labels, OfPassword, OfPhone, OfSocial, OfDevice

LEMMA IdlePlaced ==
  /\ Idle \in RequestState /\ Placed(Idle) /\ Placed(Idle)'
BY DEF Idle, RequestState, Placed, Labels, ForAccount, OfPassword, OfPhone, OfSocial, OfDevice

LEMMA RefusePlaces ==
  ASSUME TablesInv, Grows, NEW c \in Clients, Refuse(c)
  PROVE  Requests' /\ \A d \in Clients : req'[d] = IF d = c THEN Idle ELSE req[d]
BY OneMoves, IdlePlaced DEF Refuse

\* The parts of TablesInv a step leaves alone.
LEMMA UsersStay ==
  ASSUME TablesInv, UNCHANGED <<load, account, identity, latest>>
  PROVE  Users' /\ Grows
BY DEF TablesInv, Users, UniqueMails, UniqueSubjects, Grows

LEMMA CodesStay ==
  ASSUME TablesInv, UNCHANGED <<account, otp, drawn>>
  PROVE  Codes'
BY DEF TablesInv, Codes

LEMMA KeysStay ==
  ASSUME TablesInv, UNCHANGED <<attempts, lock>>
  PROVE  Keys'
BY DEF TablesInv, Keys

LEMMA DecisionsStay ==
  ASSUME TablesInv, Grows, UNCHANGED <<state, device, decided>>
  PROVE  Decisions'
BY DEF TablesInv, Decisions, Grows

\* Only requests and Redis keys change.
LEMMA DatabaseStays ==
  ASSUME TablesInv, UNCHANGED <<load, account, identity, latest, state, device, decided>>, Codes', Keys',
         Requests'
  PROVE  TablesInv'
BY UsersStay, DecisionsStay DEF TablesInv

\* Only requests change.
LEMMA OnlyRequests ==
  ASSUME TablesInv, UNCHANGED <<load, account, identity, latest, state, device, decided, otp, drawn, attempts, lock>>,
         Requests'
  PROVE  TablesInv'
BY DatabaseStays, CodesStay, KeysStay
-----------------------------------------------------------------------------
(***************************************************************************)
(* login_password.                                                         *)
(***************************************************************************)
LEMMA LoginPasswordKeeps ==
  ASSUME TablesInv, NEW c \in Clients, NEW m \in Mails, NEW guess \in 0..MaxPassword, NEW dev \in Devices,
         NEW ip \in load.from, LoginPassword(c, m, guess, dev, ip)
  PROVE  TablesInv'
<1>1. UNCHANGED <<load, account, identity, latest, state, device, decided, otp, drawn, attempts, lock>>
  BY DEF LoginPassword, db, password, phone, social, rest
<1>2. PICK r : r = [Idle EXCEPT !.at = "identity", !.via = "password", !.mail = m, !.guess = guess,
                                !.dev = dev, !.ip = ip]
  OBVIOUS
<1>3. ip \in Addresses \cup {None} /\ guess \in Nat
  BY LoginAssumption DEF TablesInv, Users
<1>4. r \in RequestState /\ r.at = "identity" /\ r.via = "password" /\ r.mail = m /\ r.dev = dev /\ r.hit = {}
  BY <1>2, <1>3, LabelsAre DEF RequestState, Idle
<1>5. Placed(r)'
  BY <1>4 DEF Placed, ForAccount, OfPassword, OfPhone, OfSocial, OfDevice
<1>6. Grows /\ Step(c, r)
  BY <1>1, <1>2, UsersStay DEF LoginPassword
<1>7. QED
  BY <1>1, <1>4, <1>5, <1>6, OneMoves, OnlyRequests

\* What the password's request finds.
LEMMA ReadIdentityStep ==
  ASSUME TablesInv, NEW c \in Clients, ReadIdentity(c)
  PROVE  /\ req[c].at = "identity"
         /\ \/ Goto(c, "count mail")
            \/ \E a \in DOMAIN account :
                 /\ account[a].password = req[c].guess
                 /\ Step(c, [req[c] EXCEPT !.at = "reset", !.acct = a, !.dated = account[a].dated])
BY DEF ReadIdentity, Accounts

LEMMA ReadIdentityKeeps ==
  ASSUME TablesInv, NEW c \in Clients, ReadIdentity(c)
  PROVE  TablesInv'
<1>1. UNCHANGED <<load, account, identity, latest, state, device, decided, otp, drawn, attempts, lock>>
  BY DEF ReadIdentity, db, password, phone, social, rest
<1>2. Grows /\ req[c] \in RequestState /\ Placed(req[c]) /\ req[c].at = "identity"
  BY <1>1, UsersStay, Tables DEF ReadIdentity
<1>3. CASE Goto(c, "count mail")
  <2>1. PICK r : r = [req[c] EXCEPT !.at = "count mail"]
    OBVIOUS
  <2>2. /\ r \in RequestState /\ r.at = "count mail" /\ r.via = req[c].via /\ r.mail = req[c].mail
        /\ r.dev = req[c].dev /\ r.hit = req[c].hit
    BY <1>2, <2>1, LabelsAre DEF RequestState
  <2>3. Placed(r)'
    BY <1>2, <2>2 DEF Placed, ForAccount, OfPassword, OfPhone, OfSocial, OfDevice
  <2>4. Step(c, r)
    BY <1>3, <2>1 DEF Goto
  <2>5. QED
    BY <1>1, <1>2, <2>2, <2>3, <2>4, OneMoves, OnlyRequests
<1>4. ASSUME NEW a \in DOMAIN account,
             Step(c, [req[c] EXCEPT !.at = "reset", !.acct = a, !.dated = account[a].dated])
      PROVE  TablesInv'
  <2>1. PICK r : r = [req[c] EXCEPT !.at = "reset", !.acct = a, !.dated = account[a].dated]
    OBVIOUS
  <2>2. a \in Nat /\ account[a].dated \in BOOLEAN
    BY Tables DEF AccountRow
  <2>3. /\ r \in RequestState /\ r.at = "reset" /\ r.via = req[c].via /\ r.mail = req[c].mail /\ r.acct = a
        /\ r.dev = req[c].dev /\ r.hit = req[c].hit
    BY <1>2, <2>1, <2>2, LabelsAre DEF RequestState
  <2>4. Placed(r)'
    BY <1>1, <1>2, <2>3 DEF Placed, ForAccount, OfPassword, OfPhone, OfSocial, OfDevice
  <2>5. Step(c, r)
    BY <1>4, <2>1
  <2>6. QED
    BY <1>1, <1>2, <2>3, <2>4, <2>5, OneMoves, OnlyRequests
<1>5. QED
  BY <1>3, <1>4, ReadIdentityStep

\* One counter goes up.
LEMMA CountKeys ==
  ASSUME TablesInv, NEW s \in Counted, Count(s), lock' = lock
  PROVE  /\ Keys' /\ attempts'[s] = attempts[s] + 1 /\ attempts[s] \in Nat
         /\ \A q \in Counted : q # s => attempts'[q] = attempts[q]
BY DEF TablesInv, Keys, Count

\* The request after it has counted an address: on to the network address, to the lock, or over.
Counting(c, label, hit) == Step(c, [req[c] EXCEPT !.at = label, !.hit = hit])

LEMMA ReachedIs ==
  ASSUME NEW s
  PROVE  Reached(s) \subseteq {s}
BY DEF Reached

LEMMA CountMailKeeps ==
  ASSUME TablesInv, NEW c \in Clients, CountMail(c)
  PROVE  TablesInv'
<1>1. UNCHANGED <<load, account, identity, latest, state, device, decided, otp, drawn, lock>>
  BY DEF CountMail, db, phone, social, rest
<1>2. Grows /\ req[c] \in RequestState /\ Placed(req[c]) /\ req[c].at = "count mail"
  BY <1>1, UsersStay, Tables DEF CountMail
<1>3. PICK m, hit : m = req[c].mail /\ hit = Reached(m)
  OBVIOUS
<1>10. m \in Mails
  BY <1>2, <1>3 DEF Placed, OfPassword
<1>11. hit \subseteq {m}
  BY <1>3, ReachedIs
<1>4. m \in Mails /\ m \in Counted /\ hit \subseteq {m} /\ hit \in SUBSET Counted
  BY <1>10, <1>11 DEF Counted
<1>5. Codes' /\ Keys'
  BY <1>1, <1>3, <1>4, CodesStay, CountKeys DEF CountMail
<1>6. CASE Refuse(c)
  BY <1>1, <1>2, <1>5, <1>6, RefusePlaces, DatabaseStays
<1>7. ASSUME NEW label \in {"count ip", "lock"}, Counting(c, label, hit),
             label = "count ip" => req[c].ip # None, label = "lock" => hit # {}
      PROVE  TablesInv'
  <2>1. PICK r : r = [req[c] EXCEPT !.at = label, !.hit = hit]
    OBVIOUS
  <2>2. /\ r \in RequestState /\ r.at = label /\ r.via = req[c].via /\ r.mail = m /\ r.dev = req[c].dev
        /\ r.ip = req[c].ip /\ r.hit = hit
    BY <1>2, <1>3, <1>4, <2>1, LabelsAre DEF RequestState
  <2>3. req[c].ip \in Addresses \cup {None}
    BY <1>2 DEF RequestState
  <2>4. Placed(r)'
    BY <1>2, <1>3, <1>4, <1>7, <2>2, <2>3 DEF Placed, ForAccount, OfPassword, OfPhone, OfSocial, OfDevice
  <2>5. Step(c, r)
    BY <1>7, <2>1 DEF Counting
  <2>6. QED
    BY <1>1, <1>2, <1>5, <2>2, <2>4, <2>5, OneMoves, DatabaseStays
<1>8. \/ Refuse(c)
      \/ Counting(c, "count ip", hit) /\ req[c].ip # None
      \/ Counting(c, "lock", hit) /\ hit # {}
  BY <1>3 DEF CountMail, Counting
<1>9. QED
  BY <1>6, <1>7, <1>8

LEMMA CountAddressKeeps ==
  ASSUME TablesInv, NEW c \in Clients, CountAddress(c)
  PROVE  TablesInv'
<1>1. UNCHANGED <<load, account, identity, latest, state, device, decided, otp, drawn, lock>>
  BY DEF CountAddress, db, phone, social, rest
<1>2. Grows /\ req[c] \in RequestState /\ Placed(req[c]) /\ req[c].at = "count ip"
  BY <1>1, UsersStay, Tables DEF CountAddress
<1>3. PICK i, hit : i = req[c].ip /\ hit = req[c].hit \cup Reached(i)
  OBVIOUS
<1>10. i \in Addresses /\ req[c].hit \subseteq {req[c].mail} /\ req[c].mail \in Mails
  BY <1>2, <1>3 DEF Placed, OfPassword
<1>11. hit \subseteq {req[c].mail, i}
  BY <1>3, <1>10, ReachedIs
<1>4. i \in Addresses /\ i \in Counted /\ hit \subseteq {req[c].mail, i} /\ hit \in SUBSET Counted
  BY <1>10, <1>11 DEF Counted
<1>5. Codes' /\ Keys'
  BY <1>1, <1>3, <1>4, CodesStay, CountKeys DEF CountAddress
<1>6. CASE Refuse(c)
  BY <1>1, <1>2, <1>5, <1>6, RefusePlaces, DatabaseStays
<1>7. CASE Counting(c, "lock", hit) /\ hit # {}
  <2>1. PICK r : r = [req[c] EXCEPT !.at = "lock", !.hit = hit]
    OBVIOUS
  <2>2. /\ r \in RequestState /\ r.at = "lock" /\ r.via = req[c].via /\ r.mail = req[c].mail /\ r.dev = req[c].dev
        /\ r.ip = i /\ r.hit = hit
    BY <1>2, <1>3, <1>4, <2>1, LabelsAre DEF RequestState
  <2>3. Placed(r)'
    BY <1>2, <1>4, <1>7, <2>2 DEF Placed, ForAccount, OfPassword, OfPhone, OfSocial, OfDevice
  <2>4. Step(c, r)
    BY <1>7, <2>1 DEF Counting
  <2>5. QED
    BY <1>1, <1>2, <1>5, <2>2, <2>3, <2>4, OneMoves, DatabaseStays
<1>8. \/ Refuse(c)
      \/ Counting(c, "lock", hit) /\ hit # {}
  BY <1>3 DEF CountAddress, Counting
<1>9. QED
  BY <1>6, <1>7, <1>8

\* Which address is locked.
LockedNext(r) == IF r.mail \in r.hit THEN r.mail ELSE r.ip

LEMMA LockLoginStep ==
  ASSUME TablesInv, NEW c \in Clients, LockLogin(c), NEW s, s = LockedNext(req[c])
  PROVE  /\ req[c].at = "lock" /\ s \in Counted /\ s \in req[c].hit /\ req[c].hit \subseteq {req[c].mail, req[c].ip}
         /\ lock' = [lock EXCEPT ![s] = IF attempts[s] = 0 THEN "fading" ELSE "locked"]
         /\ \/ req[c].hit = {s} /\ Refuse(c)
            \/ req[c].hit # {s} /\ Counting(c, "lock", req[c].hit \ {s})
<1>1. req[c] \in RequestState /\ Placed(req[c]) /\ req[c].at = "lock"
  BY Tables DEF LockLogin
<1>2. s \in req[c].hit /\ s \in Counted /\ req[c].hit \subseteq {req[c].mail, req[c].ip}
  BY <1>1 DEF LockedNext, Placed, RequestState
<1>3. lock' = [lock EXCEPT ![s] = IF attempts[s] = 0 THEN "fading" ELSE "locked"]
  BY DEF LockLogin, LockedNext
<1>4. \/ req[c].hit = {s} /\ Refuse(c)
      \/ req[c].hit # {s} /\ Step(c, [req[c] EXCEPT !.hit = @ \ {s}])
  BY DEF LockLogin, LockedNext
<1>5. [req[c] EXCEPT !.hit = @ \ {s}] = [req[c] EXCEPT !.at = "lock", !.hit = req[c].hit \ {s}]
  BY <1>1 DEF RequestState
<1>6. QED
  BY <1>1, <1>2, <1>3, <1>4, <1>5 DEF Counting

LEMMA LockLoginKeeps ==
  ASSUME TablesInv, NEW c \in Clients, LockLogin(c)
  PROVE  TablesInv'
<1>1. UNCHANGED <<load, account, identity, latest, state, device, decided, otp, drawn, attempts>>
  BY DEF LockLogin, db, phone, social, rest
<1>2. Grows /\ req[c] \in RequestState /\ Placed(req[c])
  BY <1>1, UsersStay, Tables
<1>3. PICK s : s = LockedNext(req[c])
  OBVIOUS
<1>4. /\ req[c].at = "lock" /\ s \in Counted /\ s \in req[c].hit /\ req[c].hit \subseteq {req[c].mail, req[c].ip}
      /\ lock' = [lock EXCEPT ![s] = IF attempts[s] = 0 THEN "fading" ELSE "locked"]
      /\ \/ req[c].hit = {s} /\ Refuse(c)
         \/ req[c].hit # {s} /\ Counting(c, "lock", req[c].hit \ {s})
  BY <1>3, LockLoginStep
<1>5. Codes' /\ Keys'
  BY <1>1, <1>4, CodesStay DEF TablesInv, Keys
<1>6. CASE Refuse(c)
  BY <1>1, <1>2, <1>5, <1>6, RefusePlaces, DatabaseStays
<1>7. CASE req[c].hit # {s} /\ Counting(c, "lock", req[c].hit \ {s})
  <2>1. PICK r, hit : hit = req[c].hit \ {s} /\ r = [req[c] EXCEPT !.at = "lock", !.hit = hit]
    OBVIOUS
  <2>2. hit \in SUBSET Counted /\ hit # {} /\ hit \subseteq req[c].hit
    BY <1>2, <1>4, <1>7, <2>1 DEF RequestState
  <2>3. /\ r \in RequestState /\ r.at = "lock" /\ r.via = req[c].via /\ r.mail = req[c].mail /\ r.dev = req[c].dev
        /\ r.ip = req[c].ip /\ r.hit = hit
    BY <1>2, <2>1, <2>2, LabelsAre DEF RequestState
  <2>4. Placed(r)'
    BY <1>2, <1>4, <2>2, <2>3 DEF Placed, ForAccount, OfPassword, OfPhone, OfSocial, OfDevice
  <2>5. Step(c, r)
    BY <1>7, <2>1 DEF Counting
  <2>6. QED
    BY <1>1, <1>2, <1>5, <2>3, <2>4, <2>5, OneMoves, DatabaseStays
<1>8. QED
  BY <1>4, <1>6, <1>7

LEMMA ForgetKeys ==
  ASSUME TablesInv, NEW s \in Counted, Forget(s)
  PROVE  /\ Keys' /\ attempts'[s] = 0 /\ lock'[s] # "locked"
         /\ \A q \in Counted : q # s => attempts'[q] = attempts[q] /\ lock'[q] = lock[q]
BY DEF TablesInv, Keys, Forget

LEMMA ResetAttemptsKeeps ==
  ASSUME TablesInv, NEW c \in Clients, ResetAttempts(c)
  PROVE  TablesInv'
<1>1. UNCHANGED <<load, account, identity, latest, state, device, decided, otp, drawn>>
  BY DEF ResetAttempts, db, phone, social, rest
<1>2. Grows /\ req[c] \in RequestState /\ Placed(req[c]) /\ req[c].at = "reset"
  BY <1>1, UsersStay, Tables DEF ResetAttempts
<1>3. PICK m, label : m = req[c].mail /\ label = IF req[c].dated THEN "rehash" ELSE "device"
  OBVIOUS
<1>4. m \in Counted /\ Forget(m) /\ Goto(c, label)
  BY <1>2, <1>3 DEF ResetAttempts, Placed, OfPassword, Counted
<1>5. Codes' /\ Keys'
  BY <1>1, <1>4, CodesStay, ForgetKeys
<1>6. PICK r : r = [req[c] EXCEPT !.at = label]
  OBVIOUS
<1>0. label \in Labels
  BY <1>3, LabelsAre
<1>7. /\ r \in RequestState /\ r.at = label /\ r.via = req[c].via /\ r.mail = req[c].mail /\ r.acct = req[c].acct
      /\ r.dev = req[c].dev /\ r.hit = req[c].hit /\ r.dated = req[c].dated
  BY <1>2, <1>3, <1>6, <1>0 DEF RequestState
<1>8. Placed(r)'
  BY <1>1, <1>2, <1>3, <1>7 DEF Placed, ForAccount, OfPassword, OfPhone, OfSocial, OfDevice
<1>9. Step(c, r)
  BY <1>4, <1>6 DEF Goto
<1>10. QED
  BY <1>1, <1>2, <1>5, <1>7, <1>8, <1>9, OneMoves, DatabaseStays
\* One user's row changes, and not its address.
LEMMA RowChanges ==
  ASSUME TablesInv, NEW a \in DOMAIN account, NEW x \in AccountRow, x.mail = account[a].mail,
         account' = [account EXCEPT ![a] = x], UNCHANGED <<load, identity>>,
         latest' \in Seq(Nat), Len(latest') = Len(latest)
  PROVE  /\ Users' /\ Grows /\ Len(account') = Len(account) /\ DOMAIN account' = DOMAIN account
         /\ account'[a] = x /\ \A k \in DOMAIN account : k # a => account'[k] = account[k]
<1>1. account \in Seq(AccountRow)
  BY DEF TablesInv, Users
<1>2. /\ account' \in Seq(AccountRow) /\ Len(account') = Len(account) /\ DOMAIN account' = DOMAIN account
      /\ account'[a] = x /\ \A k \in DOMAIN account : k # a => account'[k] = account[k]
  BY <1>1, OneEntry
<1>3. \A k \in DOMAIN account : account'[k].mail = account[k].mail
  BY <1>2
<1>4. Grows /\ UniqueMails' /\ UniqueSubjects'
  BY <1>2, <1>3 DEF TablesInv, Users, UniqueMails, UniqueSubjects, Grows
<1>5. QED
  BY <1>2, <1>4 DEF TablesInv, Users

LEMMA RehashStep ==
  ASSUME TablesInv, NEW c \in Clients, Rehash(c)
  PROVE  /\ req[c].acct \in DOMAIN account
         /\ Users' /\ Grows /\ Len(account') = Len(account) /\ DOMAIN account' = DOMAIN account
         /\ account'[req[c].acct].password = req[c].guess
         /\ \A k \in DOMAIN account : k # req[c].acct => account'[k] = account[k]
<1>1. req[c] \in RequestState /\ Placed(req[c]) /\ req[c].at = "rehash"
  BY Tables DEF Rehash
<1>2. PICK a, x : a = req[c].acct /\ x = [account[a] EXCEPT !.password = req[c].guess, !.dated = FALSE]
  OBVIOUS
<1>3. a \in DOMAIN account /\ account[a] \in AccountRow
  BY <1>1, <1>2, Tables DEF Placed, ForAccount
<1>4. x \in AccountRow /\ x.mail = account[a].mail /\ x.password = req[c].guess
  BY <1>1, <1>2, <1>3 DEF AccountRow, RequestState
<1>5. account' = [account EXCEPT ![a] = x]
  BY <1>2, <1>3 DEF Rehash
<1>6. UNCHANGED <<load, identity, latest>> /\ latest' \in Seq(Nat) /\ Len(latest') = Len(latest)
  BY DEF Rehash, rest, TablesInv, Users
<1>7. QED
  BY <1>2, <1>3, <1>4, <1>5, <1>6, RowChanges

LEMMA RehashKeeps ==
  ASSUME TablesInv, NEW c \in Clients, Rehash(c)
  PROVE  TablesInv'
<1>1. UNCHANGED <<state, device, decided, otp, drawn, attempts, lock>>
  BY DEF Rehash, password, phone, social, rest
<1>2. Users' /\ Grows /\ Len(account') = Len(account) /\ DOMAIN account' = DOMAIN account
  BY RehashStep
<1>3. Codes' /\ Keys' /\ Decisions'
  BY <1>1, <1>2, KeysStay, DecisionsStay DEF TablesInv, Codes
<1>4. req[c] \in RequestState /\ Placed(req[c]) /\ req[c].at = "rehash"
  BY Tables DEF Rehash
<1>5. PICK r : r = [req[c] EXCEPT !.at = "device"]
  OBVIOUS
<1>6. /\ r \in RequestState /\ r.at = "device" /\ r.via = req[c].via /\ r.acct = req[c].acct /\ r.dev = req[c].dev
  BY <1>4, <1>5, LabelsAre DEF RequestState
<1>7. Placed(r)'
  BY <1>2, <1>4, <1>6 DEF Placed, ForAccount, OfPassword, OfPhone, OfSocial, OfDevice
<1>8. Step(c, r)
  BY <1>5 DEF Goto, Rehash
<1>9. QED
  BY <1>2, <1>3, <1>6, <1>7, <1>8, OneMoves DEF TablesInv
-----------------------------------------------------------------------------
(***************************************************************************)
(* request_phone_otp and login_phone.                                      *)
(***************************************************************************)
LEMMA RequestPhoneOtpKeeps ==
  ASSUME TablesInv, NEW c \in Clients, NEW a \in DOMAIN account, RequestPhoneOtp(c, a)
  PROVE  TablesInv'
<1>1. UNCHANGED <<load, account, identity, latest, state, device, decided, otp, drawn, attempts, lock>>
  BY DEF RequestPhoneOtp, db, password, social, rest
<1>2. Grows /\ a \in Nat
  BY <1>1, UsersStay, Tables
<1>3. CASE UNCHANGED req
  BY <1>1, <1>2, <1>3, NobodyMoves, OnlyRequests
<1>4. CASE Step(c, [Idle EXCEPT !.at = "hset", !.acct = a])
  <2>1. PICK r : r = [Idle EXCEPT !.at = "hset", !.acct = a]
    OBVIOUS
  <2>2. r \in RequestState /\ r.at = "hset" /\ r.acct = a
    BY <1>2, <2>1, LabelsAre DEF RequestState, Idle
  <2>3. Placed(r)'
    BY <1>1, <2>2 DEF Placed, ForAccount, OfPassword, OfPhone, OfSocial, OfDevice
  <2>4. Step(c, r)
    BY <1>4, <2>1
  <2>5. QED
    BY <1>1, <1>2, <2>2, <2>3, <2>4, OneMoves, OnlyRequests
<1>5. QED
  BY <1>3, <1>4 DEF RequestPhoneOtp

\* One code's key changes.
LEMMA CodeChanges ==
  ASSUME TablesInv, NEW a \in DOMAIN account, NEW x \in CodeRow, x.gen <= drawn', drawn' \in Nat, drawn <= drawn',
         otp' = [otp EXCEPT ![a] = x], account' = account
  PROVE  /\ Codes' /\ DOMAIN otp' = DOMAIN otp /\ otp'[a] = x
         /\ \A k \in DOMAIN otp : k # a => otp'[k] = otp[k]
<1>1. otp \in Seq(CodeRow) /\ a \in DOMAIN otp
  BY Tables DEF TablesInv, Codes
<1>2. /\ otp' \in Seq(CodeRow) /\ Len(otp') = Len(otp) /\ DOMAIN otp' = DOMAIN otp
      /\ otp'[a] = x /\ \A k \in DOMAIN otp : k # a => otp'[k] = otp[k]
  BY <1>1, OneEntry
<1>3. ASSUME NEW k \in DOMAIN otp PROVE otp'[k].gen <= drawn'
  <2>1. CASE k = a
    BY <1>2, <2>1
  <2>2. CASE k # a
    <3>1. otp'[k].gen = otp[k].gen /\ otp[k].gen <= drawn /\ drawn \in Nat /\ otp[k] \in CodeRow
      BY <1>1, <1>2, <2>2 DEF TablesInv, Codes
    <3>2. otp[k].gen \in Nat
      BY <3>1 DEF CodeRow
    <3>3. QED
      BY <3>1, <3>2
  <2>3. QED
    BY <2>1, <2>2
<1>4. QED
  BY <1>2, <1>3 DEF TablesInv, Codes

LEMMA NoCodeIs ==
  NoCode \in CodeRow /\ NoCode.gen = 0 /\ NoCode.attempts = 0 /\ NoCode.ttl = FALSE
BY LoginAssumption DEF NoCode, CodeRow

\* A key that goes.
LEMMA CodeGoes ==
  ASSUME TablesInv, NEW a \in DOMAIN account, otp' = [otp EXCEPT ![a] = NoCode], UNCHANGED <<drawn, account>>
  PROVE  /\ Codes' /\ DOMAIN otp' = DOMAIN otp /\ otp'[a] = NoCode
         /\ \A k \in DOMAIN otp : k # a => otp'[k] = otp[k]
<1>1. drawn \in Nat
  BY DEF TablesInv, Codes
<1>2. NoCode.gen <= drawn' /\ drawn' \in Nat /\ drawn <= drawn'
  BY <1>1, NoCodeIs
<1>3. NoCode \in CodeRow
  BY NoCodeIs
<1>4. account' = account
  OBVIOUS
<1>5. QED
  BY <1>2, <1>3, <1>4, CodeChanges

\* HSET: the new code in the key, its time to live untouched.
LEMMA StoredCode ==
  ASSUME TablesInv, NEW c \in Clients, StoreOtpHash(c), NEW a, a = req[c].acct, account[a].active
  PROVE  /\ a \in DOMAIN account /\ drawn' = drawn + 1 /\ drawn < MaxCodes /\ drawn \in Nat
         /\ Codes' /\ DOMAIN otp' = DOMAIN otp
         /\ otp'[a].gen = drawn + 1 /\ otp'[a].attempts = 0 /\ otp'[a].ttl = otp[a].ttl
         /\ \A k \in DOMAIN otp : k # a => otp'[k] = otp[k]
<1>1. req[c] \in RequestState /\ Placed(req[c]) /\ req[c].at = "hset"
  BY Tables DEF StoreOtpHash
<1>2. a \in DOMAIN account /\ otp[a] \in CodeRow
  BY <1>1, Tables DEF Placed, ForAccount, OfPhone
<1>3. drawn' = drawn + 1 /\ drawn < MaxCodes /\ drawn \in Nat /\ account' = account
  BY DEF StoreOtpHash, TablesInv, Codes, db
<1>4. PICK x : x = [otp[a] EXCEPT !.gen = drawn + 1, !.attempts = 0]
  OBVIOUS
<1>9. drawn + 1 \in Nat /\ 0 \in 0..(OtpAttempts - 1)
  BY <1>3, LoginAssumption
<1>5. x \in CodeRow /\ x.gen = drawn + 1 /\ x.attempts = 0 /\ x.ttl = otp[a].ttl
  BY <1>2, <1>4, <1>9 DEF CodeRow
<1>6. otp' = [otp EXCEPT ![a] = x]
  BY <1>2, <1>4 DEF StoreOtpHash
<1>7. x.gen <= drawn' /\ drawn' \in Nat /\ drawn <= drawn'
  BY <1>3, <1>5
<1>8. QED
  BY <1>2, <1>3, <1>5, <1>6, <1>7, CodeChanges

LEMMA StoreOtpHashKeeps ==
  ASSUME TablesInv, NEW c \in Clients, StoreOtpHash(c)
  PROVE  TablesInv'
<1>1. UNCHANGED <<load, account, identity, latest, state, device, decided, attempts, lock>>
  BY DEF StoreOtpHash, db, password, social, rest
<1>2. Grows /\ Keys' /\ req[c] \in RequestState /\ Placed(req[c]) /\ req[c].at = "hset"
  BY <1>1, UsersStay, KeysStay, Tables DEF StoreOtpHash
<1>3. PICK a : a = req[c].acct
  OBVIOUS
<1>4. CASE account[a].active
  <2>1. Codes'
    BY <1>3, <1>4, StoredCode
  <2>2. PICK r : r = [req[c] EXCEPT !.at = "expire"]
    OBVIOUS
  <2>3. r \in RequestState /\ r.at = "expire" /\ r.acct = req[c].acct
    BY <1>2, <2>2, LabelsAre DEF RequestState
  <2>4. Placed(r)'
    BY <1>1, <1>2, <2>3 DEF Placed, ForAccount, OfPassword, OfPhone, OfSocial, OfDevice
  <2>5. Step(c, r)
    BY <1>3, <1>4, <2>2 DEF StoreOtpHash, Goto
  <2>6. QED
    BY <1>1, <1>2, <2>1, <2>3, <2>4, <2>5, OneMoves, DatabaseStays
<1>5. CASE ~account[a].active
  <2>1. Refuse(c) /\ UNCHANGED <<drawn, otp>>
    BY <1>3, <1>5 DEF StoreOtpHash
  <2>2. QED
    BY <1>1, <1>2, <2>1, CodesStay, RefusePlaces, DatabaseStays
<1>6. QED
  BY <1>4, <1>5

\* EXPIRE: a key that is there gets a time to live.
LEMMA ExpiringCode ==
  ASSUME TablesInv, NEW c \in Clients, ExpireOtpHash(c), NEW a, a = req[c].acct
  PROVE  /\ a \in DOMAIN account /\ Codes' /\ DOMAIN otp' = DOMAIN otp
         /\ otp'[a].gen = otp[a].gen /\ otp'[a].attempts = otp[a].attempts
         /\ otp[a].gen # 0 => otp'[a].ttl
         /\ \A k \in DOMAIN otp : k # a => otp'[k] = otp[k]
<1>1. req[c] \in RequestState /\ Placed(req[c]) /\ req[c].at = "expire"
  BY Tables DEF ExpireOtpHash
<1>2. a \in DOMAIN account /\ otp[a] \in CodeRow
  BY <1>1, Tables DEF Placed, ForAccount, OfPhone
<1>3. drawn' = drawn /\ drawn \in Nat /\ account' = account /\ otp[a].gen <= drawn
  BY <1>2, Tables DEF ExpireOtpHash, TablesInv, Codes, db
<1>4. PICK x : x = [otp[a] EXCEPT !.ttl = otp[a].ttl \/ otp[a].gen # 0]
  OBVIOUS
<1>5. x \in CodeRow /\ x.gen = otp[a].gen /\ x.attempts = otp[a].attempts /\ x.ttl = (otp[a].ttl \/ otp[a].gen # 0)
  BY <1>2, <1>4 DEF CodeRow
<1>6. otp' = [otp EXCEPT ![a] = x]
  BY <1>2, <1>4 DEF ExpireOtpHash
<1>7. x.gen <= drawn' /\ drawn' \in Nat /\ drawn <= drawn'
  BY <1>3, <1>5
<1>8. /\ Codes' /\ DOMAIN otp' = DOMAIN otp /\ otp'[a] = x
      /\ \A k \in DOMAIN otp : k # a => otp'[k] = otp[k]
  BY <1>2, <1>3, <1>5, <1>6, <1>7, CodeChanges
<1>9. QED
  BY <1>2, <1>5, <1>8

LEMMA ExpireOtpHashKeeps ==
  ASSUME TablesInv, NEW c \in Clients, ExpireOtpHash(c)
  PROVE  TablesInv'
<1>1. UNCHANGED <<load, account, identity, latest, state, device, decided, attempts, lock>>
  BY DEF ExpireOtpHash, db, password, social, rest
<1>2. Grows /\ Keys' /\ Codes' /\ req[c] \in RequestState /\ Placed(req[c]) /\ req[c].at = "expire"
  BY <1>1, UsersStay, KeysStay, Tables, ExpiringCode DEF ExpireOtpHash
<1>3. PICK r : r = [req[c] EXCEPT !.at = "send"]
  OBVIOUS
<1>4. r \in RequestState /\ r.at = "send" /\ r.acct = req[c].acct
  BY <1>2, <1>3, LabelsAre DEF RequestState
<1>5. Placed(r)'
  BY <1>1, <1>2, <1>4 DEF Placed, ForAccount, OfPassword, OfPhone, OfSocial, OfDevice
<1>6. Step(c, r)
  BY <1>3 DEF ExpireOtpHash, Goto
<1>7. QED
  BY <1>1, <1>2, <1>4, <1>5, <1>6, OneMoves, DatabaseStays

\* A delivery that fails takes the key with it.
LEMMA SentCode ==
  ASSUME TablesInv, NEW c \in Clients, NEW sent \in BOOLEAN, SendCode(c, sent), NEW a, a = req[c].acct
  PROVE  /\ a \in DOMAIN account /\ Codes' /\ DOMAIN otp' = DOMAIN otp
         /\ otp'[a] = otp[a] \/ otp'[a] = NoCode
         /\ \A k \in DOMAIN otp : k # a => otp'[k] = otp[k]
<1>1. Placed(req[c]) /\ req[c].at = "send"
  BY Tables DEF SendCode
<1>2. a \in DOMAIN account
  BY <1>1 DEF Placed, ForAccount, OfPhone
<1>3. drawn' = drawn /\ account' = account
  BY DEF SendCode, db
<1>4. CASE sent
  BY <1>2, <1>3, <1>4, CodesStay DEF SendCode
<1>5. CASE ~sent
  <2>1. otp' = [otp EXCEPT ![a] = NoCode]
    BY <1>5 DEF SendCode
  <2>2. QED
    BY <1>2, <1>3, <2>1, CodeGoes
<1>6. QED
  BY <1>4, <1>5

LEMMA SendCodeKeeps ==
  ASSUME TablesInv, NEW c \in Clients, NEW sent \in BOOLEAN, SendCode(c, sent)
  PROVE  TablesInv'
<1>1. UNCHANGED <<load, account, identity, latest, state, device, decided, attempts, lock>>
  BY DEF SendCode, db, password, social, rest
<1>2. Grows /\ Keys' /\ Codes' /\ Refuse(c)
  BY <1>1, UsersStay, KeysStay, SentCode DEF SendCode
<1>3. QED
  BY <1>1, <1>2, RefusePlaces, DatabaseStays
LEMMA LoginPhoneKeeps ==
  ASSUME TablesInv, NEW c \in Clients, NEW a \in DOMAIN account, NEW code \in {0, otp[a].gen}, NEW dev \in Devices,
         NEW ip \in load.from, LoginPhone(c, a, code, dev, ip)
  PROVE  TablesInv'
<1>1. UNCHANGED <<load, account, identity, latest, state, device, decided, otp, drawn, attempts, lock>>
  BY DEF LoginPhone, db, password, phone, social, rest
<1>2. Grows
  BY <1>1, UsersStay
<1>3. PICK r : r = [Idle EXCEPT !.at = "check", !.via = "phone", !.acct = a, !.guess = code, !.dev = dev, !.ip = ip]
  OBVIOUS
<1>4. ip \in Addresses \cup {None} /\ a \in Nat /\ otp[a] \in CodeRow
  BY LoginAssumption, Tables DEF TablesInv, Users
<1>5. code \in Nat
  BY <1>4 DEF CodeRow
<1>6. r \in RequestState /\ r.at = "check" /\ r.via = "phone" /\ r.acct = a /\ r.dev = dev
  BY <1>3, <1>4, <1>5, LabelsAre DEF RequestState, Idle
<1>7. Placed(r)'
  BY <1>1, <1>6 DEF Placed, ForAccount, OfPassword, OfPhone, OfSocial, OfDevice
<1>8. Step(c, r)
  BY <1>3 DEF LoginPhone
<1>9. QED
  BY <1>1, <1>2, <1>6, <1>7, <1>8, OneMoves, OnlyRequests

\* What the script does to the key, and to the count of comparisons.
Accepts(g) == tries' = [tries EXCEPT ![g].right = @ + 1]
Rejects(g) == tries' = [tries EXCEPT ![g].wrong = @ + 1]

LEMMA CheckedCode ==
  ASSUME TablesInv, NEW c \in Clients, CheckCode(c), NEW a, a = req[c].acct
  PROVE  /\ a \in DOMAIN account /\ Codes' /\ DOMAIN otp' = DOMAIN otp
         /\ \/ otp' = otp /\ tries' = tries /\ Refuse(c)
            \/ /\ otp[a].gen # 0
               /\ \/ otp'[a] = NoCode
                  \/ /\ otp'[a].gen = otp[a].gen /\ otp'[a].ttl = otp[a].ttl
                     /\ otp'[a].attempts = otp[a].attempts + 1 /\ req[c].guess # otp[a].gen
               /\ \/ Accepts(otp[a].gen) /\ otp'[a] = NoCode /\ Goto(c, "device")
                  \/ Rejects(otp[a].gen) /\ Refuse(c)
         /\ \A k \in DOMAIN otp : k # a => otp'[k] = otp[k]
<1>1. Placed(req[c]) /\ req[c].at = "check"
  BY Tables DEF CheckCode
<1>2. a \in DOMAIN account /\ otp[a] \in CodeRow
  BY <1>1, Tables DEF Placed, ForAccount, OfPhone
<1>3. drawn' = drawn /\ drawn \in Nat /\ account' = account /\ otp[a].gen <= drawn
  BY <1>2, Tables DEF CheckCode, TablesInv, Codes, db
<1>4. CASE otp[a].gen = 0
  <2>1. otp' = otp /\ tries' = tries /\ Refuse(c)
    BY <1>4 DEF CheckCode
  <2>2. QED
    BY <1>2, <1>3, <2>1, CodesStay
<1>5. CASE otp[a].gen # 0
  <2>1. PICK right : right = (req[c].guess = otp[a].gen)
    OBVIOUS
  <2>2. \/ right /\ Accepts(otp[a].gen) /\ Goto(c, "device")
        \/ ~right /\ Rejects(otp[a].gen) /\ Refuse(c)
    BY <1>5, <2>1 DEF CheckCode, Accepts, Rejects
  <2>3. CASE right \/ otp[a].attempts + 1 >= OtpAttempts
    <3>1. otp' = [otp EXCEPT ![a] = NoCode]
      BY <1>5, <2>1, <2>3 DEF CheckCode
    <3>2. /\ Codes' /\ DOMAIN otp' = DOMAIN otp /\ otp'[a] = NoCode
          /\ \A k \in DOMAIN otp : k # a => otp'[k] = otp[k]
      BY <1>2, <1>3, <3>1, CodeGoes
    <3>3. QED
      BY <1>2, <1>5, <2>2, <3>2
  <2>4. CASE ~right /\ ~(otp[a].attempts + 1 >= OtpAttempts)
    <3>1. PICK x : x = [otp[a] EXCEPT !.attempts = otp[a].attempts + 1]
      OBVIOUS
    <3>2. otp' = [otp EXCEPT ![a] = x]
      BY <1>2, <1>5, <2>1, <2>4, <3>1 DEF CheckCode, CodeRow
    <3>3. otp[a].attempts + 1 \in 0..(OtpAttempts - 1)
      BY <1>2, <2>4, LoginAssumption DEF CodeRow
    <3>4. x \in CodeRow /\ x.gen = otp[a].gen /\ x.attempts = otp[a].attempts + 1 /\ x.ttl = otp[a].ttl
      BY <1>2, <3>1, <3>3 DEF CodeRow
    <3>5. x.gen <= drawn' /\ drawn' \in Nat /\ drawn <= drawn'
      BY <1>3, <3>4
    <3>6. /\ Codes' /\ DOMAIN otp' = DOMAIN otp /\ otp'[a] = x
          /\ \A k \in DOMAIN otp : k # a => otp'[k] = otp[k]
      BY <1>2, <1>3, <3>2, <3>4, <3>5, CodeChanges
    <3>7. req[c].guess # otp[a].gen
      BY <2>1, <2>4
    <3>8. QED
      BY <1>2, <1>5, <2>2, <2>4, <3>4, <3>6, <3>7
  <2>5. QED
    BY <2>3, <2>4
<1>6. QED
  BY <1>4, <1>5

LEMMA CheckCodeKeeps ==
  ASSUME TablesInv, NEW c \in Clients, CheckCode(c)
  PROVE  TablesInv'
<1>1. UNCHANGED <<load, account, identity, latest, state, device, decided, attempts, lock>>
  BY DEF CheckCode, db, password, social, rest
<1>2. Grows /\ Keys' /\ req[c] \in RequestState /\ Placed(req[c]) /\ req[c].at = "check"
  BY <1>1, UsersStay, KeysStay, Tables DEF CheckCode
<1>3. Codes' /\ (Refuse(c) \/ Goto(c, "device"))
  BY CheckedCode
<1>4. CASE Refuse(c)
  BY <1>1, <1>2, <1>3, <1>4, RefusePlaces, DatabaseStays
<1>5. CASE Goto(c, "device")
  <2>1. PICK r : r = [req[c] EXCEPT !.at = "device"]
    OBVIOUS
  <2>2. r \in RequestState /\ r.at = "device" /\ r.acct = req[c].acct /\ r.via = req[c].via /\ r.dev = req[c].dev
    BY <1>2, <2>1, LabelsAre DEF RequestState
  <2>3. Placed(r)'
    BY <1>1, <1>2, <2>2 DEF Placed, ForAccount, OfPassword, OfPhone, OfSocial, OfDevice
  <2>4. Step(c, r)
    BY <1>5, <2>1 DEF Goto
  <2>5. QED
    BY <1>1, <1>2, <1>3, <2>2, <2>3, <2>4, OneMoves, DatabaseStays
<1>6. QED
  BY <1>3, <1>4, <1>5
-----------------------------------------------------------------------------
(***************************************************************************)
(* start_oidc and login_oidc.                                              *)
(***************************************************************************)
LEMMA StartOidcStep ==
  ASSUME TablesInv, StartOidc
  PROVE  /\ state' \in Seq({"live", "gone"}) /\ DOMAIN state \subseteq DOMAIN state'
         /\ \A k \in DOMAIN state : state'[k] = state[k]
<1>1. state \in Seq({"live", "gone"}) /\ "live" \in {"live", "gone"} /\ state' = Append(state, "live")
  BY DEF TablesInv, Decisions, StartOidc
<1>2. QED
  BY <1>1, OneMore

LEMMA StartOidcKeeps ==
  ASSUME TablesInv, StartOidc
  PROVE  TablesInv'
<1>1. UNCHANGED <<load, account, identity, latest, device, decided, otp, drawn, attempts, lock, req>>
  BY DEF StartOidc, db, password, phone, rest
<1>2. Users' /\ Codes' /\ Keys' /\ Grows
  BY <1>1, UsersStay, CodesStay, KeysStay
<1>3. Requests' /\ Decisions'
  BY <1>1, <1>2, NobodyMoves, StartOidcStep DEF TablesInv, Decisions
<1>4. QED
  BY <1>2, <1>3 DEF TablesInv

LEMMA StateTaken ==
  ASSUME TablesInv, NEW st \in DOMAIN state, TakeState(st)
  PROVE  /\ state' \in Seq({"live", "gone"}) /\ DOMAIN state' = DOMAIN state /\ state'[st] = "gone"
         /\ \A k \in DOMAIN state : k # st => state'[k] = state[k]
<1>1. state \in Seq({"live", "gone"}) /\ "gone" \in {"live", "gone"} /\ state' = [state EXCEPT ![st] = "gone"]
  BY DEF TablesInv, Decisions, TakeState
<1>2. QED
  BY <1>1, OneEntry

LEMMA LoginOidcKeeps ==
  ASSUME TablesInv, NEW c \in Clients, NEW st \in DOMAIN state, NEW s \in Subjects, NEW dev \in Devices,
         NEW ip \in load.from, NEW ok \in BOOLEAN, LoginOidc(c, st, s, dev, ip, ok)
  PROVE  TablesInv'
<1>1. UNCHANGED <<load, account, identity, latest, device, decided, otp, drawn, attempts, lock>>
  BY DEF LoginOidc, db, password, phone, rest
<1>2. Users' /\ Codes' /\ Keys' /\ Grows
  BY <1>1, UsersStay, CodesStay, KeysStay
<1>3. Decisions'
  BY <1>1, <1>2, StateTaken DEF TablesInv, Decisions, LoginOidc
<1>4. CASE UNCHANGED req
  BY <1>2, <1>3, <1>4, NobodyMoves DEF TablesInv
<1>5. CASE Step(c, [Idle EXCEPT !.at = "find", !.via = "social", !.guess = st, !.sub = s, !.dev = dev, !.ip = ip])
  <2>1. PICK r : r = [Idle EXCEPT !.at = "find", !.via = "social", !.guess = st, !.sub = s, !.dev = dev, !.ip = ip]
    OBVIOUS
  <2>2. ip \in Addresses \cup {None} /\ st \in Nat
    BY LoginAssumption DEF TablesInv, Users, Decisions
  <2>3. r \in RequestState /\ r.at = "find" /\ r.via = "social" /\ r.sub = s /\ r.dev = dev
    BY <2>1, <2>2, LabelsAre DEF RequestState, Idle
  <2>4. Placed(r)'
    BY <2>3 DEF Placed, ForAccount, OfPassword, OfPhone, OfSocial, OfDevice
  <2>5. Step(c, r)
    BY <1>5, <2>1
  <2>6. QED
    BY <1>2, <1>3, <2>3, <2>4, <2>5, OneMoves DEF TablesInv
<1>6. QED
  BY <1>4, <1>5 DEF LoginOidc
LEMMA FindIdentityStep ==
  ASSUME TablesInv, NEW c \in Clients, FindIdentity(c)
  PROVE  \/ Goto(c, "find mail")
         \/ Refuse(c)
         \/ \E a \in DOMAIN account : <<req[c].sub, a>> \in identity /\ Step(c, [req[c] EXCEPT !.at = "device", !.acct = a])
BY DEF FindIdentity, Linked

LEMMA FindIdentityKeeps ==
  ASSUME TablesInv, NEW c \in Clients, FindIdentity(c)
  PROVE  TablesInv'
<1>1. UNCHANGED <<load, account, identity, latest, state, device, decided, otp, drawn, attempts, lock>>
  BY DEF FindIdentity, db, password, phone, social, rest
<1>2. Grows /\ req[c] \in RequestState /\ Placed(req[c]) /\ req[c].at = "find"
  BY <1>1, UsersStay, Tables DEF FindIdentity
<1>3. CASE Goto(c, "find mail")
  <2>1. PICK r : r = [req[c] EXCEPT !.at = "find mail"]
    OBVIOUS
  <2>2. r \in RequestState /\ r.at = "find mail" /\ r.via = req[c].via /\ r.sub = req[c].sub /\ r.dev = req[c].dev
    BY <1>2, <2>1, LabelsAre DEF RequestState
  <2>3. Placed(r)'
    BY <1>2, <2>2 DEF Placed, ForAccount, OfPassword, OfPhone, OfSocial, OfDevice
  <2>4. Step(c, r)
    BY <1>3, <2>1 DEF Goto
  <2>5. QED
    BY <1>1, <1>2, <2>2, <2>3, <2>4, OneMoves, OnlyRequests
<1>4. CASE Refuse(c)
  BY <1>1, <1>2, <1>4, RefusePlaces, OnlyRequests
<1>5. ASSUME NEW a \in DOMAIN account, <<req[c].sub, a>> \in identity,
             Step(c, [req[c] EXCEPT !.at = "device", !.acct = a])
      PROVE  TablesInv'
  <2>1. PICK r : r = [req[c] EXCEPT !.at = "device", !.acct = a]
    OBVIOUS
  <2>2. a \in Nat
    BY Tables
  <2>3. /\ r \in RequestState /\ r.at = "device" /\ r.via = req[c].via /\ r.sub = req[c].sub /\ r.acct = a
        /\ r.dev = req[c].dev
    BY <1>2, <2>1, <2>2, LabelsAre DEF RequestState
  <2>4. Placed(r)'
    BY <1>1, <1>2, <1>5, <2>3 DEF Placed, ForAccount, OfPassword, OfPhone, OfSocial, OfDevice
  <2>5. Step(c, r)
    BY <1>5, <2>1
  <2>6. QED
    BY <1>1, <1>2, <2>3, <2>4, <2>5, OneMoves, OnlyRequests
<1>6. QED
  BY <1>3, <1>4, <1>5, FindIdentityStep

\* A decision about an account that is there joins the others.
LEMMA Decided ==
  ASSUME TablesInv, NEW x \in Decision, x.acct \in DOMAIN account, decided' = Append(decided, x),
         UNCHANGED <<account, state, device>>
  PROVE  /\ Decisions' /\ DOMAIN decided' = DOMAIN decided \cup {Len(decided) + 1}
         /\ decided'[Len(decided) + 1] = x /\ Len(decided) + 1 \notin DOMAIN decided
         /\ \A k \in DOMAIN decided : decided'[k] = decided[k]
<1>1. decided \in Seq(Decision)
  BY DEF TablesInv, Decisions
<1>2. /\ decided' \in Seq(Decision) /\ DOMAIN decided' = DOMAIN decided \cup {Len(decided) + 1}
      /\ decided'[Len(decided) + 1] = x /\ Len(decided) + 1 \notin DOMAIN decided
      /\ \A k \in DOMAIN decided : decided'[k] = decided[k]
  BY <1>1, OneMore
<1>3. ASSUME NEW i \in DOMAIN decided' PROVE decided'[i].acct \in DOMAIN account
  BY <1>2 DEF TablesInv, Decisions
<1>4. QED
  BY <1>2, <1>3 DEF TablesInv, Decisions

\* The decision an address that is taken leads to.
Collision(r, a) == [via |-> "social", acct |-> a, sub |-> r.sub, dev |-> r.dev, state |-> r.guess, known |-> FALSE,
                    decision |-> "collision"]

LEMMA AccountIds ==
  ASSUME TablesInv, NEW a \in DOMAIN account
  PROVE  a \in Nat
BY Tables

LEMMA CollisionIs ==
  ASSUME TablesInv, NEW c \in Clients, req[c].at = "find mail", NEW a \in DOMAIN account
  PROVE  /\ Collision(req[c], a) \in Decision /\ Collision(req[c], a).via = "social"
         /\ Collision(req[c], a).acct = a /\ Collision(req[c], a).state = req[c].guess
         /\ Collision(req[c], a).decision = "collision"
<1>1. req[c] \in RequestState /\ Placed(req[c])
  BY Tables
<1>2. a \in Nat
  BY AccountIds
<1>3. req[c].sub \in Subjects /\ req[c].dev \in Devices /\ req[c].guess \in Nat
  BY <1>1 DEF Placed, OfSocial, RequestState
<1>4. QED
  BY <1>2, <1>3 DEF Collision, Decision

LEMMA FindMailStep ==
  ASSUME TablesInv, NEW c \in Clients, FindMail(c)
  PROVE  \/ Goto(c, "provision") /\ UNCHANGED decided
         \/ Refuse(c) /\ \E a \in DOMAIN account : decided' = Append(decided, Collision(req[c], a))
BY DEF FindMail, Accounts, Collision

LEMMA FindMailKeeps ==
  ASSUME TablesInv, NEW c \in Clients, FindMail(c)
  PROVE  TablesInv'
<1>1. UNCHANGED <<load, account, identity, latest, state, device, otp, drawn, attempts, lock>>
  BY DEF FindMail, db, password, phone, social
<1>2. Grows /\ req[c] \in RequestState /\ Placed(req[c]) /\ req[c].at = "find mail"
  BY <1>1, UsersStay, Tables DEF FindMail
<1>3. CASE Goto(c, "provision") /\ UNCHANGED decided
  <2>1. PICK r : r = [req[c] EXCEPT !.at = "provision"]
    OBVIOUS
  <2>2. r \in RequestState /\ r.at = "provision" /\ r.via = req[c].via /\ r.sub = req[c].sub /\ r.dev = req[c].dev
    BY <1>2, <2>1, LabelsAre DEF RequestState
  <2>3. Placed(r)'
    BY <1>2, <2>2 DEF Placed, ForAccount, OfPassword, OfPhone, OfSocial, OfDevice
  <2>4. Step(c, r)
    BY <1>3, <2>1 DEF Goto
  <2>5. QED
    BY <1>1, <1>2, <1>3, <2>2, <2>3, <2>4, OneMoves, OnlyRequests
<1>4. ASSUME Refuse(c), NEW a \in DOMAIN account, decided' = Append(decided, Collision(req[c], a))
      PROVE  TablesInv'
  <2>1. PICK x : x = Collision(req[c], a)
    OBVIOUS
  <2>2. x \in Decision /\ x.acct = a
    BY <1>2, <2>1, CollisionIs
  <2>3. Decisions'
    BY <1>1, <1>4, <2>1, <2>2, Decided
  <2>4. Users' /\ Codes' /\ Keys' /\ Requests'
    BY <1>1, <1>2, <1>4, UsersStay, CodesStay, KeysStay, RefusePlaces
  <2>5. QED
    BY <2>3, <2>4 DEF TablesInv
<1>5. QED
  BY <1>3, <1>4, FindMailStep

\* A new account, whose address is nobody else's.
LEMMA AccountJoins ==
  ASSUME TablesInv, NEW m \in Mails, NEW pw \in Nat, Accounts(m) = {}, NewAccount(m, pw), UNCHANGED <<load, drawn>>,
         NEW n, n = Len(account) + 1,
         \/ identity' = identity
         \/ \E s \in Subjects : identity' = identity \cup {<<s, n>>} /\ Linked(s) = {}
  PROVE  /\ Users' /\ Codes' /\ Grows /\ n \in Nat /\ n \notin DOMAIN account /\ n \in DOMAIN account'
         /\ DOMAIN account' = DOMAIN account \cup {n} /\ DOMAIN otp' = DOMAIN otp \cup {n}
         /\ account'[n].password = pw /\ latest'[n] = pw /\ otp'[n] = NoCode
         /\ \A k \in DOMAIN account : account'[k] = account[k] /\ latest'[k] = latest[k] /\ otp'[k] = otp[k]
<1>1. PICK row : row = [mail |-> m, active |-> TRUE, password |-> pw, dated |-> FALSE]
  OBVIOUS
<1>2. row \in AccountRow /\ row.mail = m /\ row.password = pw
  BY <1>1 DEF AccountRow
<1>3. /\ account \in Seq(AccountRow) /\ latest \in Seq(Nat) /\ otp \in Seq(CodeRow)
      /\ Len(latest) = Len(account) /\ Len(otp) = Len(account)
      /\ account' = Append(account, row) /\ latest' = Append(latest, pw) /\ otp' = Append(otp, NoCode)
      /\ Len(account) < MaxAccounts
  BY <1>1 DEF TablesInv, Users, Codes, NewAccount
<1>4. /\ account' \in Seq(AccountRow) /\ Len(account') = n /\ DOMAIN account' = DOMAIN account \cup {n}
      /\ account'[n] = row /\ n \notin DOMAIN account /\ \A k \in DOMAIN account : account'[k] = account[k]
  BY <1>2, <1>3, OneMore
<1>5. /\ latest' \in Seq(Nat) /\ Len(latest') = n /\ DOMAIN latest' = DOMAIN latest \cup {n}
      /\ latest'[n] = pw /\ \A k \in DOMAIN latest : latest'[k] = latest[k]
  BY <1>3, OneMore
<1>6. /\ otp' \in Seq(CodeRow) /\ Len(otp') = n /\ DOMAIN otp' = DOMAIN otp \cup {n}
      /\ otp'[n] = NoCode /\ \A k \in DOMAIN otp : otp'[k] = otp[k]
  BY <1>3, NoCodeIs, OneMore
<1>7. n <= MaxAccounts /\ n \in Nat
  BY <1>3, LoginAssumption
<1>8. DOMAIN latest = DOMAIN account /\ DOMAIN otp = DOMAIN account
  BY Tables
<1>9. UniqueMails'
  <2>1. \A k \in DOMAIN account : account[k].mail # m
    BY DEF Accounts
  <2>2. QED
    BY <1>2, <1>4, <2>1 DEF TablesInv, Users, UniqueMails
<1>10. identity' \subseteq Subjects \X DOMAIN account' /\ identity \subseteq identity'
  BY <1>4 DEF TablesInv, Users
<1>11. UniqueSubjects'
  <2>1. \A s \in Subjects : <<s, n>> \notin identity
    BY <1>4 DEF TablesInv, Users
  <2>2. CASE identity' = identity
    BY <1>4, <2>1, <2>2 DEF TablesInv, Users, UniqueSubjects
  <2>3. ASSUME NEW s \in Subjects, identity' = identity \cup {<<s, n>>}, Linked(s) = {}
        PROVE  UniqueSubjects'
    <3>1. \A k \in DOMAIN account : <<s, k>> \notin identity
      BY <2>3 DEF Linked
    <3>2. ASSUME NEW q \in Subjects, NEW a \in DOMAIN account', NEW b \in DOMAIN account',
                 <<q, a>> \in identity', <<q, b>> \in identity'
          PROVE  a = b
      <4>1. CASE q = s
        <5>1. a = n /\ b = n
          BY <1>4, <2>3, <3>1, <3>2, <4>1
        <5>2. QED
          BY <5>1
      <4>2. CASE q # s
        <5>1. <<q, a>> \in identity /\ <<q, b>> \in identity
          BY <2>3, <3>2, <4>2
        <5>2. a # n /\ b # n
          BY <2>1, <5>1
        <5>3. a \in DOMAIN account /\ b \in DOMAIN account
          BY <1>4, <5>2
        <5>4. QED
          BY <5>1, <5>3 DEF TablesInv, Users, UniqueSubjects
      <4>3. QED
        BY <4>1, <4>2
    <3>3. QED
      BY <3>2 DEF UniqueSubjects
  <2>4. QED
    BY <2>2, <2>3
<1>12. Users' /\ Grows
  BY <1>4, <1>5, <1>7, <1>9, <1>10, <1>11 DEF TablesInv, Users, Grows
<1>13. Codes'
  <2>1. \A k \in DOMAIN otp : otp[k].gen <= drawn
    BY DEF TablesInv, Codes
  <2>2. drawn \in Nat
    BY DEF TablesInv, Codes
  <2>3. otp'[n].gen <= drawn
    BY <1>6, <2>2, NoCodeIs
  <2>4. QED
    BY <1>4, <1>6, <2>1, <2>2, <2>3 DEF Codes
<1>14. QED
  BY <1>2, <1>4, <1>5, <1>6, <1>7, <1>8, <1>12, <1>13
LEMMA ProvisionOidcStep ==
  ASSUME TablesInv, NEW c \in Clients, ProvisionOidc(c), NEW n, n = Len(account) + 1
  PROVE  \/ Refuse(c) /\ UNCHANGED <<account, latest, otp, identity>>
         \/ /\ Users' /\ Codes' /\ Grows /\ n \in Nat /\ n \notin DOMAIN account /\ n \in DOMAIN account'
            /\ DOMAIN account' = DOMAIN account \cup {n} /\ DOMAIN otp' = DOMAIN otp \cup {n}
            /\ account'[n].password = 0 /\ latest'[n] = 0 /\ otp'[n] = NoCode
            /\ \A k \in DOMAIN account : account'[k] = account[k] /\ latest'[k] = latest[k] /\ otp'[k] = otp[k]
            /\ identity' = identity \cup {<<req[c].sub, n>>}
            /\ Step(c, [req[c] EXCEPT !.at = "device", !.acct = n])
<1>1. PICK s : s = req[c].sub
  OBVIOUS
<1>2. s \in Subjects
  <2>1. Placed(req[c]) /\ req[c].at = "provision"
    BY Tables DEF ProvisionOidc
  <2>2. QED
    BY <1>1, <2>1 DEF Placed, OfSocial
<1>3. PICK m : m = MailOf[s]
  OBVIOUS
<1>4. m \in Mails
  BY <1>2, <1>3, LoginAssumption
<1>5. CASE Unique(s)
  <2>1. /\ Accounts(m) = {} /\ Linked(s) = {} /\ NewAccount(m, 0) /\ identity' = identity \cup {<<s, n>>}
        /\ Step(c, [req[c] EXCEPT !.at = "device", !.acct = n]) /\ UNCHANGED <<load, drawn>>
    BY <1>1, <1>3, <1>5 DEF ProvisionOidc, Unique, rest
  <2>2. \E q \in Subjects : identity' = identity \cup {<<q, n>>} /\ Linked(q) = {}
    BY <1>2, <2>1
  <2>3. 0 \in Nat
    OBVIOUS
  <2>4. /\ Users' /\ Codes' /\ Grows /\ n \in Nat /\ n \notin DOMAIN account /\ n \in DOMAIN account'
        /\ DOMAIN account' = DOMAIN account \cup {n} /\ DOMAIN otp' = DOMAIN otp \cup {n}
        /\ account'[n].password = 0 /\ latest'[n] = 0 /\ otp'[n] = NoCode
        /\ \A k \in DOMAIN account : account'[k] = account[k] /\ latest'[k] = latest[k] /\ otp'[k] = otp[k]
    BY <1>4, <2>1, <2>2, <2>3, AccountJoins
  <2>5. QED
    BY <1>1, <2>1, <2>4
<1>6. CASE ~Unique(s)
  BY <1>1, <1>6 DEF ProvisionOidc
<1>7. QED
  BY <1>5, <1>6

LEMMA ProvisionOidcKeeps ==
  ASSUME TablesInv, NEW c \in Clients, ProvisionOidc(c)
  PROVE  TablesInv'
<1>1. UNCHANGED <<load, device, state, decided, drawn, attempts, lock>> /\ Keys'
  BY KeysStay DEF ProvisionOidc, password, social, rest
<1>2. req[c] \in RequestState /\ Placed(req[c]) /\ req[c].at = "provision"
  BY Tables DEF ProvisionOidc
<1>3. PICK n : n = Len(account) + 1
  OBVIOUS
<1>4. CASE Refuse(c) /\ UNCHANGED <<account, latest, otp, identity>>
  <2>1. Grows
    BY <1>1, <1>4, UsersStay
  <2>2. QED
    BY <1>1, <1>4, <2>1, RefusePlaces, OnlyRequests
<1>5. CASE /\ Users' /\ Codes' /\ Grows /\ n \in Nat /\ n \in DOMAIN account'
           /\ identity' = identity \cup {<<req[c].sub, n>>}
           /\ Step(c, [req[c] EXCEPT !.at = "device", !.acct = n])
  <2>1. PICK r : r = [req[c] EXCEPT !.at = "device", !.acct = n]
    OBVIOUS
  <2>2. /\ r \in RequestState /\ r.at = "device" /\ r.via = req[c].via /\ r.sub = req[c].sub /\ r.acct = n
        /\ r.dev = req[c].dev
    BY <1>2, <1>5, <2>1, LabelsAre DEF RequestState
  <2>3. r.sub \in Subjects /\ r.via = "social" /\ r.dev \in Devices /\ <<r.sub, r.acct>> \in identity'
    BY <1>2, <1>5, <2>2 DEF Placed, OfSocial
  <2>4. Placed(r)'
    BY <1>5, <2>2, <2>3 DEF Placed, ForAccount, OfPassword, OfPhone, OfSocial, OfDevice
  <2>5. Step(c, r)
    BY <1>5, <2>1
  <2>6. Decisions' /\ Requests'
    BY <1>1, <1>5, <2>2, <2>4, <2>5, OneMoves, DecisionsStay
  <2>7. QED
    BY <1>1, <1>5, <2>6 DEF TablesInv
<1>6. QED
  BY <1>3, <1>4, <1>5, ProvisionOidcStep
-----------------------------------------------------------------------------
(***************************************************************************)
(* _primary_decision.                                                      *)
(***************************************************************************)
\* The tables of devices and decisions alone change.
LEMMA DevicesChange ==
  ASSUME TablesInv, UNCHANGED <<load, account, identity, latest, state, decided, otp, drawn, attempts, lock>>,
         device' \subseteq DeviceRow, Requests'
  PROVE  TablesInv'
<1>1. Users' /\ Codes' /\ Keys'
  BY UsersStay, CodesStay, KeysStay
<1>2. Decisions'
  BY DEF TablesInv, Decisions
<1>3. QED
  BY <1>1, <1>2 DEF TablesInv

\* A device that is there is updated, a request whose device is not goes on to insert it.
LEMMA SelectDeviceStep ==
  ASSUME TablesInv, NEW c \in Clients, SelectDevice(c)
  PROVE  \/ Goto(c, "insert device") /\ UNCHANGED device
         \/ \E moved \in BOOLEAN, d \in device, e \in DeviceRow :
              /\ e.acct = d.acct /\ e.dev = d.dev /\ device' = (device \ {d}) \cup {e}
              /\ Step(c, [req[c] EXCEPT !.at = "decide", !.known = TRUE, !.moved = moved])
<1>1. req[c] \in RequestState
  BY Tables
<1>2. CASE Seen(req[c].acct, req[c].dev) = {}
  BY <1>2 DEF SelectDevice
<1>3. CASE Seen(req[c].acct, req[c].dev) # {}
  <2>1. PICK d \in device :
          /\ device' = (device \ {d}) \cup {[d EXCEPT !.ip = req[c].ip]}
          /\ Step(c, [req[c] EXCEPT !.at = "decide", !.known = TRUE,
                                    !.moved = req[c].ip # None /\ d.ip # None /\ d.ip # req[c].ip])
    BY <1>3 DEF SelectDevice, Seen
  <2>2. PICK e, moved : e = [d EXCEPT !.ip = req[c].ip] /\ moved = (req[c].ip # None /\ d.ip # None /\ d.ip # req[c].ip)
    OBVIOUS
  <2>3. d \in DeviceRow /\ req[c].ip \in Addresses \cup {None}
    BY <1>1 DEF TablesInv, Decisions, RequestState
  <2>4. e \in DeviceRow /\ e.acct = d.acct /\ e.dev = d.dev
    BY <2>2, <2>3 DEF DeviceRow
  <2>5. moved \in BOOLEAN
    BY <2>2
  <2>6. QED
    BY <2>1, <2>2, <2>4, <2>5
<1>4. QED
  BY <1>2, <1>3

LEMMA SelectDeviceKeeps ==
  ASSUME TablesInv, NEW c \in Clients, SelectDevice(c)
  PROVE  TablesInv'
<1>1. UNCHANGED <<load, account, identity, latest, state, decided, otp, drawn, attempts, lock>>
  BY DEF SelectDevice, password, phone, social, rest
<1>2. Grows /\ req[c] \in RequestState /\ Placed(req[c]) /\ req[c].at = "device" /\ device \subseteq DeviceRow
  BY <1>1, UsersStay, Tables DEF SelectDevice, TablesInv, Decisions
<1>3. ASSUME NEW r \in RequestState, r.at \in OfDevice, r.via = req[c].via, r.sub = req[c].sub, r.acct = req[c].acct,
             r.dev = req[c].dev, Step(c, r)
      PROVE  Requests'
  <2>1. Placed(r)'
    BY <1>1, <1>2, <1>3 DEF Placed, ForAccount, OfPassword, OfPhone, OfSocial, OfDevice
  <2>2. QED
    BY <1>2, <1>3, <2>1, OneMoves
<1>4. CASE Goto(c, "insert device") /\ UNCHANGED device
  <2>1. PICK r : r = [req[c] EXCEPT !.at = "insert device"]
    OBVIOUS
  <2>2. r \in RequestState /\ r.at = "insert device" /\ r.via = req[c].via /\ r.sub = req[c].sub
        /\ r.acct = req[c].acct /\ r.dev = req[c].dev
    BY <1>2, <2>1, LabelsAre DEF RequestState
  <2>3. r.at \in OfDevice
    BY <2>2 DEF OfDevice
  <2>4. Step(c, r)
    BY <1>4, <2>1 DEF Goto
  <2>5. Requests'
    BY <1>3, <2>2, <2>3, <2>4
  <2>6. QED
    BY <1>1, <1>2, <1>4, <2>5, DevicesChange
<1>5. ASSUME NEW moved \in BOOLEAN, NEW d \in device, NEW e \in DeviceRow, device' = (device \ {d}) \cup {e},
             Step(c, [req[c] EXCEPT !.at = "decide", !.known = TRUE, !.moved = moved])
      PROVE  TablesInv'
  <2>1. PICK r : r = [req[c] EXCEPT !.at = "decide", !.known = TRUE, !.moved = moved]
    OBVIOUS
  <2>2. r \in RequestState /\ r.at = "decide" /\ r.via = req[c].via /\ r.sub = req[c].sub
        /\ r.acct = req[c].acct /\ r.dev = req[c].dev
    BY <1>2, <2>1, LabelsAre DEF RequestState
  <2>3. r.at \in OfDevice
    BY <2>2 DEF OfDevice
  <2>4. Step(c, r)
    BY <1>5, <2>1
  <2>5. Requests'
    BY <1>3, <2>2, <2>3, <2>4
  <2>6. device' \subseteq DeviceRow
    BY <1>2, <1>5
  <2>7. QED
    BY <1>1, <2>5, <2>6, DevicesChange
<1>6. QED
  BY <1>4, <1>5, SelectDeviceStep

LEMMA InsertDeviceStep ==
  ASSUME TablesInv, NEW c \in Clients, InsertDevice(c)
  PROVE  \/ Refuse(c) /\ UNCHANGED device
         \/ /\ Seen(req[c].acct, req[c].dev) = {}
            /\ Step(c, [req[c] EXCEPT !.at = "decide", !.known = FALSE])
            /\ \E e \in DeviceRow : e.acct = req[c].acct /\ e.dev = req[c].dev /\ device' = device \cup {e}
<1>1. req[c] \in RequestState /\ Placed(req[c]) /\ req[c].at = "insert device"
  BY Tables DEF InsertDevice
<1>2. CASE Seen(req[c].acct, req[c].dev) = {}
  <2>1. PICK e : e = [acct |-> req[c].acct, dev |-> req[c].dev, ip |-> req[c].ip]
    OBVIOUS
  <2>2. req[c].dev \in Devices /\ req[c].acct \in Nat /\ req[c].ip \in Addresses \cup {None}
    BY <1>1 DEF Placed, OfDevice, RequestState
  <2>3. e \in DeviceRow /\ e.acct = req[c].acct /\ e.dev = req[c].dev
    BY <2>1, <2>2 DEF DeviceRow
  <2>4. device' = device \cup {e} /\ Step(c, [req[c] EXCEPT !.at = "decide", !.known = FALSE])
    BY <1>2, <2>1 DEF InsertDevice
  <2>5. QED
    BY <1>2, <2>3, <2>4
<1>3. CASE Seen(req[c].acct, req[c].dev) # {}
  BY <1>3 DEF InsertDevice
<1>4. QED
  BY <1>2, <1>3

LEMMA InsertDeviceKeeps ==
  ASSUME TablesInv, NEW c \in Clients, InsertDevice(c)
  PROVE  TablesInv'
<1>1. UNCHANGED <<load, account, identity, latest, state, decided, otp, drawn, attempts, lock>>
  BY DEF InsertDevice, password, phone, social, rest
<1>2. Grows /\ req[c] \in RequestState /\ Placed(req[c]) /\ req[c].at = "insert device" /\ device \subseteq DeviceRow
  BY <1>1, UsersStay, Tables DEF InsertDevice, TablesInv, Decisions
<1>3. CASE Refuse(c) /\ UNCHANGED device
  BY <1>1, <1>2, <1>3, RefusePlaces, DevicesChange
<1>4. ASSUME Step(c, [req[c] EXCEPT !.at = "decide", !.known = FALSE]), NEW e \in DeviceRow, device' = device \cup {e}
      PROVE  TablesInv'
  <2>1. PICK r : r = [req[c] EXCEPT !.at = "decide", !.known = FALSE]
    OBVIOUS
  <2>2. r \in RequestState /\ r.at = "decide" /\ r.via = req[c].via /\ r.sub = req[c].sub
        /\ r.acct = req[c].acct /\ r.dev = req[c].dev
    BY <1>2, <2>1, LabelsAre DEF RequestState
  <2>3. Placed(r)'
    BY <1>1, <1>2, <2>2 DEF Placed, ForAccount, OfPassword, OfPhone, OfSocial, OfDevice
  <2>4. Step(c, r)
    BY <1>4, <2>1
  <2>5. device' \subseteq DeviceRow
    BY <1>2, <1>4
  <2>6. QED
    BY <1>1, <1>2, <2>2, <2>3, <2>4, <2>5, OneMoves, DevicesChange
<1>5. QED
  BY <1>3, <1>4, InsertDeviceStep
\* The decision a request ends in.
LEMMA PrimaryDecisionStep ==
  ASSUME TablesInv, NEW c \in Clients, PrimaryDecision(c)
  PROVE  /\ Refuse(c)
         /\ \E x \in Decision : /\ decided' = Append(decided, x) /\ x.via = req[c].via /\ x.acct = req[c].acct
                                /\ x.sub = req[c].sub /\ x.dev = req[c].dev /\ x.known = req[c].known
                                /\ x.decision # "collision"
                                /\ x.via = "social" => x.state = req[c].guess
<1>1. req[c] \in RequestState /\ Placed(req[c]) /\ req[c].at = "decide"
  BY Tables DEF PrimaryDecision
<1>2. PICK d : d = IF Score(req[c]) >= 25 THEN "mfa" ELSE "ready"
  OBVIOUS
<1>3. PICK x : x = [via |-> req[c].via, acct |-> req[c].acct, sub |-> req[c].sub,
                    state |-> IF req[c].via = "social" THEN req[c].guess ELSE 0,
                    dev |-> req[c].dev, known |-> req[c].known, decision |-> d]
  OBVIOUS
<1>4. decided' = Append(decided, x)
  BY <1>2, <1>3 DEF PrimaryDecision, Decide
<1>5. req[c].via \in {"password", "phone", "social"} /\ req[c].dev \in Devices
  BY <1>1 DEF Placed, OfDevice
<1>6. /\ req[c].acct \in Nat /\ req[c].sub \in Subjects \cup {None} /\ req[c].known \in BOOLEAN
      /\ req[c].guess \in Nat
  BY <1>1 DEF RequestState
<1>7. d \in {"mfa", "ready"}
  BY <1>2
<1>8. x \in Decision /\ x.decision = d /\ x.via = req[c].via /\ x.acct = req[c].acct
      /\ x.sub = req[c].sub /\ x.dev = req[c].dev /\ x.known = req[c].known
      /\ (x.via = "social" => x.state = req[c].guess)
  BY <1>3, <1>5, <1>6, <1>7 DEF Decision
<1>9. QED
  BY <1>4, <1>7, <1>8 DEF PrimaryDecision

LEMMA PrimaryDecisionKeeps ==
  ASSUME TablesInv, NEW c \in Clients, PrimaryDecision(c)
  PROVE  TablesInv'
<1>1. UNCHANGED <<load, account, identity, latest, state, device, otp, drawn, attempts, lock>>
  BY DEF PrimaryDecision, db, password, phone, social
<1>2. Grows /\ Placed(req[c]) /\ req[c].at = "decide"
  BY <1>1, UsersStay, Tables DEF PrimaryDecision
<1>3. PICK x \in Decision : decided' = Append(decided, x) /\ x.acct = req[c].acct
  BY PrimaryDecisionStep
<1>4. x.acct \in DOMAIN account
  BY <1>2, <1>3 DEF Placed, ForAccount, OfDevice
<1>5. Decisions'
  BY <1>1, <1>3, <1>4, Decided
<1>6. Refuse(c)
  BY DEF PrimaryDecision
<1>7. Users' /\ Codes' /\ Keys' /\ Requests'
  BY <1>1, <1>2, <1>6, UsersStay, CodesStay, KeysStay, RefusePlaces
<1>8. QED
  BY <1>5, <1>7 DEF TablesInv
-----------------------------------------------------------------------------
(***************************************************************************)
(* Time, failures, and the rest of the system.                             *)
(***************************************************************************)
LEMMA ExpireAttemptsKeeps ==
  ASSUME TablesInv, NEW s \in Counted, ExpireAttempts(s)
  PROVE  TablesInv'
<1>1. UNCHANGED <<load, account, identity, latest, state, device, decided, otp, drawn, req>> /\ Forget(s)
  BY DEF ExpireAttempts, db, phone, social, rest
<1>2. Grows /\ Codes' /\ Keys'
  BY <1>1, UsersStay, CodesStay, ForgetKeys
<1>3. QED
  BY <1>1, <1>2, NobodyMoves, DatabaseStays

LEMMA ExpireLockKeeps ==
  ASSUME TablesInv, NEW s \in Counted, ExpireLock(s)
  PROVE  TablesInv'
<1>1. UNCHANGED <<load, account, identity, latest, state, device, decided, otp, drawn, req>>
  BY DEF ExpireLock, db, phone, social, rest
<1>2. Grows /\ Codes' /\ Keys'
  BY <1>1, UsersStay, CodesStay DEF ExpireLock, TablesInv, Keys
<1>3. QED
  BY <1>1, <1>2, NobodyMoves, DatabaseStays

LEMMA ExpireOtpKeeps ==
  ASSUME TablesInv, NEW a \in DOMAIN account, ExpireOtp(a)
  PROVE  TablesInv'
<1>1. UNCHANGED <<load, account, identity, latest, state, device, decided, attempts, lock, drawn, req>>
  BY DEF ExpireOtp, db, password, social, rest
<1>2. Grows /\ Codes' /\ Keys'
  BY <1>1, UsersStay, KeysStay, CodeGoes DEF ExpireOtp
<1>3. QED
  BY <1>1, <1>2, NobodyMoves, DatabaseStays

LEMMA ExpireSendsKeeps ==
  ASSUME TablesInv, NEW a \in DOMAIN account, ExpireSends(a)
  PROVE  TablesInv'
<1>1. UNCHANGED <<load, account, identity, latest, state, device, decided, otp, attempts, lock, drawn, req>>
  BY DEF ExpireSends, db, password, social, rest
<1>2. Grows
  BY <1>1, UsersStay
<1>3. QED
  BY <1>1, <1>2, NobodyMoves, OnlyRequests

LEMMA ExpireStateKeeps ==
  ASSUME TablesInv, NEW st \in DOMAIN state, ExpireState(st)
  PROVE  TablesInv'
<1>1. UNCHANGED <<load, account, identity, latest, device, decided, otp, attempts, lock, drawn, req>> /\ TakeState(st)
  BY DEF ExpireState, TakeState, db, password, phone, rest
<1>2. Grows /\ Users' /\ Codes' /\ Keys'
  BY <1>1, UsersStay, CodesStay, KeysStay
<1>3. Requests' /\ Decisions'
  BY <1>1, <1>2, NobodyMoves, StateTaken DEF TablesInv, Decisions
<1>4. QED
  BY <1>2, <1>3 DEF TablesInv

LEMMA StopKeeps ==
  ASSUME TablesInv, NEW c \in Clients, Stop(c)
  PROVE  TablesInv'
<1>1. UNCHANGED <<load, account, identity, latest, state, device, decided, otp, attempts, lock, drawn>> /\ Refuse(c)
  BY DEF Stop, db, password, phone, social
<1>2. Grows
  BY <1>1, UsersStay
<1>3. QED
  BY <1>1, <1>2, RefusePlaces, OnlyRequests

LEMMA ResetPasswordStep ==
  ASSUME TablesInv, NEW a \in DOMAIN account, ResetPassword(a)
  PROVE  /\ Users' /\ Grows /\ Len(account') = Len(account) /\ DOMAIN account' = DOMAIN account
         /\ account'[a].password = latest[a] + 1 /\ latest'[a] = latest[a] + 1 /\ latest[a] \in Nat
         /\ \A k \in DOMAIN account : k # a => account'[k] = account[k] /\ latest'[k] = latest[k]
<1>1. account[a] \in AccountRow /\ latest[a] \in Nat /\ a \in DOMAIN latest
  BY Tables
<1>2. latest \in Seq(Nat) /\ latest[a] + 1 \in Nat /\ latest' = [latest EXCEPT ![a] = latest[a] + 1]
  BY <1>1 DEF TablesInv, Users, ResetPassword
<1>3. /\ latest' \in Seq(Nat) /\ Len(latest') = Len(latest) /\ latest'[a] = latest[a] + 1
      /\ \A k \in DOMAIN latest : k # a => latest'[k] = latest[k]
  BY <1>1, <1>2, OneEntry
<1>4. PICK x : x = [account[a] EXCEPT !.password = latest[a] + 1, !.dated = FALSE]
  OBVIOUS
<1>5. x \in AccountRow /\ x.mail = account[a].mail /\ x.password = latest[a] + 1
  BY <1>1, <1>2, <1>4 DEF AccountRow
<1>6. account' = [account EXCEPT ![a] = x] /\ UNCHANGED <<load, identity>>
  BY <1>1, <1>4 DEF ResetPassword
<1>7. /\ Users' /\ Grows /\ Len(account') = Len(account) /\ DOMAIN account' = DOMAIN account
      /\ account'[a] = x /\ \A k \in DOMAIN account : k # a => account'[k] = account[k]
  BY <1>3, <1>5, <1>6, RowChanges
<1>8. QED
  BY <1>1, <1>3, <1>5, <1>7, Tables

\* A row of users changes and nothing the requests, codes and decisions refer to.
LEMMA RowsKeep ==
  ASSUME TablesInv, UNCHANGED <<state, device, decided, otp, drawn, attempts, lock, req>>, Users', Grows,
         Len(account') = Len(account)
  PROVE  TablesInv'
<1>1. Codes' /\ Keys' /\ Decisions' /\ Requests'
  BY KeysStay, DecisionsStay, NobodyMoves DEF TablesInv, Codes
<1>2. QED
  BY <1>1 DEF TablesInv

LEMMA ResetPasswordKeeps ==
  ASSUME TablesInv, NEW a \in DOMAIN account, ResetPassword(a)
  PROVE  TablesInv'
<1>1. UNCHANGED <<state, device, decided, otp, drawn, attempts, lock, req>>
  BY DEF ResetPassword, password, phone, social
<1>2. QED
  BY <1>1, ResetPasswordStep, RowsKeep

LEMMA SuspendStep ==
  ASSUME TablesInv, NEW a \in DOMAIN account, Suspend(a)
  PROVE  /\ Users' /\ Grows /\ Len(account') = Len(account) /\ DOMAIN account' = DOMAIN account
         /\ \A k \in DOMAIN account : account'[k].password = account[k].password
<1>1. account[a] \in AccountRow
  BY Tables
<1>2. PICK x : x = [account[a] EXCEPT !.active = FALSE]
  OBVIOUS
<1>3. x \in AccountRow /\ x.mail = account[a].mail /\ x.password = account[a].password
  BY <1>1, <1>2 DEF AccountRow
<1>4. account' = [account EXCEPT ![a] = x] /\ UNCHANGED <<load, identity>>
  BY <1>1, <1>2 DEF Suspend, rest
<1>5. latest' \in Seq(Nat) /\ Len(latest') = Len(latest)
  BY DEF Suspend, TablesInv, Users
<1>6. /\ Users' /\ Grows /\ Len(account') = Len(account) /\ DOMAIN account' = DOMAIN account
      /\ account'[a] = x /\ \A k \in DOMAIN account : k # a => account'[k] = account[k]
  BY <1>3, <1>4, <1>5, RowChanges
<1>7. QED
  BY <1>3, <1>6

LEMMA SuspendKeeps ==
  ASSUME TablesInv, NEW a \in DOMAIN account, Suspend(a)
  PROVE  TablesInv'
<1>1. UNCHANGED <<state, device, decided, otp, drawn, attempts, lock, req>>
  BY DEF Suspend, password, phone, social, rest
<1>2. QED
  BY <1>1, SuspendStep, RowsKeep

LEMMA RegisterStep ==
  ASSUME TablesInv, NEW m \in Mails, Register(m), NEW n, n = Len(account) + 1
  PROVE  /\ Users' /\ Codes' /\ Grows /\ n \notin DOMAIN account
         /\ DOMAIN account' = DOMAIN account \cup {n} /\ DOMAIN otp' = DOMAIN otp \cup {n}
         /\ account'[n].password = 1 /\ latest'[n] = 1 /\ otp'[n] = NoCode
         /\ \A k \in DOMAIN account : account'[k] = account[k] /\ latest'[k] = latest[k] /\ otp'[k] = otp[k]
<1>1. Accounts(m) = {} /\ NewAccount(m, 1) /\ UNCHANGED <<load, drawn>> /\ identity' = identity /\ 1 \in Nat
  BY DEF Register, rest
<1>2. QED
  BY <1>1, AccountJoins

LEMMA RegisterKeeps ==
  ASSUME TablesInv, NEW m \in Mails, Register(m)
  PROVE  TablesInv'
<1>1. UNCHANGED <<device, state, decided, attempts, lock, req>>
  BY DEF Register, password, social, rest
<1>2. Users' /\ Codes' /\ Grows
  BY RegisterStep
<1>3. Keys' /\ Decisions' /\ Requests'
  BY <1>1, <1>2, KeysStay, DecisionsStay, NobodyMoves
<1>4. QED
  BY <1>2, <1>3 DEF TablesInv
-----------------------------------------------------------------------------
(***************************************************************************)
(* Types.                                                                  *)
(***************************************************************************)
LEMMA LoginInitTables ==
  ASSUME LoginInit
  PROVE  TablesInv
<1>1. /\ load \in Workloads /\ load.accounts \in Seq(Mails) /\ Len(load.accounts) <= MaxAccounts
      /\ \A a, b \in DOMAIN load.accounts : load.accounts[a] = load.accounts[b] => a = b
  BY LoginAssumption DEF LoginInit
<1>2. PICK s : s = load.accounts
  OBVIOUS
<1>3. s \in Seq(Mails) /\ Len(s) <= MaxAccounts /\ \A a, b \in DOMAIN s : s[a] = s[b] => a = b
  BY <1>1, <1>2
<1>4. account = [a \in DOMAIN s |-> [mail |-> s[a], active |-> TRUE, password |-> 1, dated |-> TRUE]]
  BY <1>2 DEF LoginInit
<1>5. \A a \in DOMAIN s : account[a] = [mail |-> s[a], active |-> TRUE, password |-> 1, dated |-> TRUE]
  BY <1>4
<1>6. \A a \in DOMAIN s : account[a] \in AccountRow /\ account[a].mail = s[a]
  <2>1. \A a \in DOMAIN s : s[a] \in Mails
    BY <1>3
  <2>2. ASSUME NEW a \in DOMAIN s PROVE account[a] \in AccountRow /\ account[a].mail = s[a]
    <3>1. PICK m \in Mails : m = s[a]
      BY <2>1
    <3>2. PICK row : row = [mail |-> m, active |-> TRUE, password |-> 1, dated |-> TRUE]
      OBVIOUS
    <3>3. row \in AccountRow /\ row.mail = m
      BY <3>2 DEF AccountRow
    <3>4. QED
      BY <1>5, <3>1, <3>2, <3>3
  <2>3. QED
    BY <2>2
<1>7. account = [a \in DOMAIN s |-> account[a]]
  BY <1>4
<1>8. account \in Seq(AccountRow) /\ Len(account) = Len(s) /\ DOMAIN account = DOMAIN s
  BY <1>3, <1>6, <1>7, SameLength
<1>9. latest \in Seq(Nat) /\ Len(latest) = Len(account)
  <2>1. latest = [a \in DOMAIN account |-> latest[a]] /\ \A a \in DOMAIN account : latest[a] \in Nat
    BY DEF LoginInit
  <2>2. QED
    BY <1>8, <2>1, SameLength
<1>10. otp \in Seq(CodeRow) /\ Len(otp) = Len(account) /\ \A a \in DOMAIN otp : otp[a].gen = 0
  <2>1. otp = [a \in DOMAIN account |-> NoCode]
    BY DEF LoginInit
  <2>2. otp = [a \in DOMAIN account |-> otp[a]] /\ \A a \in DOMAIN account : otp[a] = NoCode
    BY <2>1
  <2>3. \A a \in DOMAIN account : otp[a] \in CodeRow
    BY <2>2, NoCodeIs
  <2>4. otp \in Seq(CodeRow) /\ Len(otp) = Len(account) /\ DOMAIN otp = DOMAIN account
    BY <1>8, <2>2, <2>3, SameLength
  <2>5. QED
    BY <2>2, <2>4, NoCodeIs
<1>11. UniqueMails
  BY <1>3, <1>6, <1>8 DEF UniqueMails
<1>12. Users
  BY <1>1, <1>3, <1>8, <1>9, <1>11 DEF Users, UniqueSubjects, LoginInit
<1>13. Codes
  <2>1. drawn = 0
    BY DEF LoginInit
  <2>2. QED
    BY <1>10, <2>1 DEF Codes
<1>14. Keys
  BY DEF Keys, LoginInit
<1>15. Decisions
  BY DEF Decisions, LoginInit
<1>16. Requests
  BY IdlePlaced DEF Requests, LoginInit
<1>17. QED
  BY <1>12, <1>13, <1>14, <1>15, <1>16 DEF TablesInv

LEMMA LoginNextTables ==
  ASSUME TablesInv, [LoginNext]_lvars
  PROVE  TablesInv'
<1>1. CASE StartOidc
  BY <1>1, StartOidcKeeps
<1>2. ASSUME NEW c \in Clients, NEW dev \in Devices, NEW ip \in load.from, NEW m \in Mails, NEW guess \in 0..MaxPassword,
             LoginPassword(c, m, guess, dev, ip)
      PROVE  TablesInv'
  BY <1>2, LoginPasswordKeeps
<1>3. ASSUME NEW c \in Clients, NEW dev \in Devices, NEW ip \in load.from, NEW a \in DOMAIN account,
             NEW code \in {0, otp[a].gen}, LoginPhone(c, a, code, dev, ip)
      PROVE  TablesInv'
  BY <1>3, LoginPhoneKeeps
<1>4. ASSUME NEW c \in Clients, NEW dev \in Devices, NEW ip \in load.from, NEW st \in DOMAIN state, NEW s \in Subjects,
             NEW ok \in BOOLEAN, LoginOidc(c, st, s, dev, ip, ok)
      PROVE  TablesInv'
  BY <1>4, LoginOidcKeeps
<1>5. ASSUME NEW c \in Clients, NEW a \in DOMAIN account, RequestPhoneOtp(c, a) PROVE TablesInv'
  BY <1>5, RequestPhoneOtpKeeps
<1>6. ASSUME NEW c \in Clients, NEW sent \in BOOLEAN, SendCode(c, sent) PROVE TablesInv'
  BY <1>6, SendCodeKeeps
<1>7. ASSUME NEW c \in Clients,
             \/ ReadIdentity(c) \/ CountMail(c) \/ CountAddress(c) \/ LockLogin(c) \/ ResetAttempts(c) \/ Rehash(c)
      PROVE  TablesInv'
  BY <1>7, ReadIdentityKeeps, CountMailKeeps, CountAddressKeeps, LockLoginKeeps, ResetAttemptsKeeps, RehashKeeps
<1>8. ASSUME NEW c \in Clients,
             \/ StoreOtpHash(c) \/ ExpireOtpHash(c) \/ CheckCode(c)
             \/ FindIdentity(c) \/ FindMail(c) \/ ProvisionOidc(c)
      PROVE  TablesInv'
  BY <1>8, StoreOtpHashKeeps, ExpireOtpHashKeeps, CheckCodeKeeps, FindIdentityKeeps, FindMailKeeps, ProvisionOidcKeeps
<1>9. ASSUME NEW c \in Clients, SelectDevice(c) \/ InsertDevice(c) \/ PrimaryDecision(c) \/ Stop(c)
      PROVE  TablesInv'
  BY <1>9, SelectDeviceKeeps, InsertDeviceKeeps, PrimaryDecisionKeeps, StopKeeps
<1>10. ASSUME NEW s \in Counted, ExpireAttempts(s) \/ ExpireLock(s) PROVE TablesInv'
  BY <1>10, ExpireAttemptsKeeps, ExpireLockKeeps
<1>11. ASSUME NEW a \in DOMAIN account, ExpireOtp(a) \/ ExpireSends(a) \/ ResetPassword(a) \/ Suspend(a)
       PROVE  TablesInv'
  BY <1>11, ExpireOtpKeeps, ExpireSendsKeeps, ResetPasswordKeeps, SuspendKeeps
<1>12. ASSUME NEW st \in DOMAIN state, ExpireState(st) PROVE TablesInv'
  BY <1>12, ExpireStateKeeps
<1>13. ASSUME NEW m \in Mails, Register(m) PROVE TablesInv'
  BY <1>13, RegisterKeeps
<1>14. CASE UNCHANGED lvars
  <2>1. UNCHANGED <<load, account, identity, latest, state, device, decided, otp, drawn, attempts, lock, req>>
    BY <1>14 DEF lvars
  <2>2. Grows
    BY <2>1, UsersStay
  <2>3. QED
    BY <2>1, <2>2, NobodyMoves, OnlyRequests
<1>15. QED
  BY <1>1, <1>2, <1>3, <1>4, <1>5, <1>6, <1>7, <1>8, <1>9, <1>10, <1>11, <1>12, <1>13, <1>14 DEF LoginNext

LEMMA TablesAreTyped ==
  ASSUME TablesInv
  PROVE  LoginTypeOK
<1>1. /\ account \in Seq(AccountRow) /\ device \subseteq DeviceRow
      /\ attempts \in [Counted -> Nat] /\ lock \in [Counted -> {"open", "locked", "fading"}]
      /\ \A i \in DOMAIN decided : decided[i].acct \in DOMAIN account
  BY DEF TablesInv, Users, Keys, Decisions
<1>2. DOMAIN otp = DOMAIN account /\ DOMAIN latest = DOMAIN account
  BY Tables
<1>3. \A a \in DOMAIN otp : otp[a].gen \in 0..drawn /\ otp[a].attempts < OtpAttempts
  <2>1. SUFFICES ASSUME NEW a \in DOMAIN otp PROVE otp[a].gen \in 0..drawn /\ otp[a].attempts < OtpAttempts
    OBVIOUS
  <2>2. otp[a] \in CodeRow /\ otp[a].gen <= drawn /\ drawn \in Nat
    BY Tables, <1>2 DEF TablesInv, Codes
  <2>3. QED
    BY <2>2, LoginAssumption DEF CodeRow
<1>4. identity \subseteq Subjects \X (1..MaxAccounts)
  <2>1. DOMAIN account = 1..Len(account) /\ Len(account) \in Nat /\ Len(account) <= MaxAccounts
    BY Tables DEF TablesInv, Users
  <2>2. DOMAIN account \subseteq 1..MaxAccounts
    BY <2>1, LoginAssumption
  <2>3. QED
    BY <2>2 DEF TablesInv, Users
<1>5. QED
  BY <1>1, <1>2, <1>3, <1>4 DEF LoginTypeOK

\* The tables hold what their columns and unique indexes allow, whichever requests overlap, and a
\* request under way has an account, an address and a device that are there (LoginRepository).
THEOREM TablesStayTrue == LoginSpec => []TablesInv
<1>1. LoginInit => TablesInv
  BY LoginInitTables
<1>2. TablesInv /\ [LoginNext]_lvars => TablesInv'
  BY LoginNextTables
<1>3. QED
  BY <1>1, <1>2, PTL DEF LoginSpec

\* Every column and key of a login holds a value of its type.
THEOREM LoginTypeCorrect == LoginSpec => []LoginTypeOK
<1>1. TablesInv => LoginTypeOK
  BY TablesAreTyped
<1>2. QED
  BY <1>1, TablesStayTrue, PTL
-----------------------------------------------------------------------------
(***************************************************************************)
(* The way a request goes.                                                 *)
(***************************************************************************)
\* One request moves between labels, the others stay where they are.
Went(c, from, to) ==
  /\ req[c].at \in from /\ req'[c].at \in to
  /\ \A d \in Clients : d # c => req'[d] = req[d]

\* A step that changes only some fields of the request.
LEMMA Going ==
  ASSUME TablesInv, NEW c \in Clients, NEW r, Step(c, r)
  PROVE  req'[c] = r /\ \A d \in Clients : d # c => req'[d] = req[d]
BY DEF Step, TablesInv, Requests

LEMMA GoingTo ==
  ASSUME TablesInv, NEW c \in Clients, NEW label, Goto(c, label)
  PROVE  /\ req'[c].at = label /\ req'[c].via = req[c].via /\ req'[c].acct = req[c].acct
         /\ req'[c].guess = req[c].guess /\ req'[c].dated = req[c].dated /\ req'[c].hit = req[c].hit
         /\ req'[c].mail = req[c].mail /\ req'[c].ip = req[c].ip
         /\ req'[c].sub = req[c].sub /\ req'[c].known = req[c].known
         /\ \A d \in Clients : d # c => req'[d] = req[d]
<1>1. req[c] \in RequestState /\ Step(c, [req[c] EXCEPT !.at = label])
  BY Tables DEF Goto
<1>2. PICK r : r = [req[c] EXCEPT !.at = label]
  OBVIOUS
<1>3. req'[c] = r /\ \A d \in Clients : d # c => req'[d] = req[d]
  BY <1>1, <1>2, Going
<1>4. QED
  BY <1>1, <1>2, <1>3 DEF RequestState

LEMMA GoingHome ==
  ASSUME TablesInv, NEW c \in Clients, Refuse(c)
  PROVE  req'[c] = Idle /\ req'[c].at = "idle" /\ \A d \in Clients : d # c => req'[d] = req[d]
BY Going DEF Refuse, Idle

LEMMA PasswordPaths ==
  ASSUME TablesInv, NEW c \in Clients
  PROVE  /\ \A m, guess, dev, ip : LoginPassword(c, m, guess, dev, ip) => Went(c, {"idle"}, {"identity"})
         /\ ReadIdentity(c) => Went(c, {"identity"}, {"count mail", "reset"})
         /\ CountMail(c) => Went(c, {"count mail"}, {"count ip", "lock", "idle"})
         /\ CountAddress(c) => Went(c, {"count ip"}, {"lock", "idle"})
         /\ LockLogin(c) => Went(c, {"lock"}, {"lock", "idle"})
         /\ ResetAttempts(c) => Went(c, {"reset"}, {"rehash", "device"})
         /\ Rehash(c) => Went(c, {"rehash"}, {"device"})
<1>1. req[c] \in RequestState
  BY Tables
<1>2. ASSUME NEW m, NEW guess, NEW dev, NEW ip, LoginPassword(c, m, guess, dev, ip)
      PROVE  Went(c, {"idle"}, {"identity"})
  <2>1. PICK r : r = [Idle EXCEPT !.at = "identity", !.via = "password", !.mail = m, !.guess = guess,
                                  !.dev = dev, !.ip = ip]
    OBVIOUS
  <2>2. r.at = "identity"
    BY <2>1 DEF Idle
  <2>3. req'[c] = r /\ req[c] = Idle /\ \A d \in Clients : d # c => req'[d] = req[d]
    BY <1>2, <2>1, Going DEF LoginPassword
  <2>4. QED
    BY <2>2, <2>3 DEF Went, Idle
<1>3. ASSUME ReadIdentity(c) PROVE Went(c, {"identity"}, {"count mail", "reset"})
  <2>1. CASE Goto(c, "count mail")
    BY <1>3, <2>1, GoingTo DEF ReadIdentity, Went
  <2>2. ASSUME NEW a, Step(c, [req[c] EXCEPT !.at = "reset", !.acct = a, !.dated = account[a].dated])
        PROVE  Went(c, {"identity"}, {"count mail", "reset"})
    <3>1. PICK r : r = [req[c] EXCEPT !.at = "reset", !.acct = a, !.dated = account[a].dated]
      OBVIOUS
    <3>2. r.at = "reset"
      BY <1>1, <3>1 DEF RequestState
    <3>3. req'[c] = r /\ \A d \in Clients : d # c => req'[d] = req[d]
      BY <2>2, <3>1, Going
    <3>4. QED
      BY <1>3, <3>2, <3>3 DEF Went, ReadIdentity
  <2>3. QED
    BY <1>3, <2>1, <2>2, ReadIdentityStep
<1>4. ASSUME NEW label \in {"count ip", "lock"}, NEW hit, Counting(c, label, hit)
      PROVE  req'[c].at = label /\ \A d \in Clients : d # c => req'[d] = req[d]
  <2>1. PICK r : r = [req[c] EXCEPT !.at = label, !.hit = hit]
    OBVIOUS
  <2>2. r.at = label
    BY <1>1, <2>1 DEF RequestState
  <2>3. QED
    BY <1>4, <2>1, <2>2, Going DEF Counting
<1>5. ASSUME CountMail(c) PROVE Went(c, {"count mail"}, {"count ip", "lock", "idle"})
  <2>1. \/ Refuse(c)
        \/ \E hit : Counting(c, "count ip", hit)
        \/ \E hit : Counting(c, "lock", hit)
    BY <1>5 DEF CountMail, Counting
  <2>2. QED
    BY <1>4, <1>5, <2>1, GoingHome DEF CountMail, Went
<1>6. ASSUME CountAddress(c) PROVE Went(c, {"count ip"}, {"lock", "idle"})
  <2>1. \/ Refuse(c)
        \/ \E hit : Counting(c, "lock", hit)
    BY <1>6 DEF CountAddress, Counting
  <2>2. QED
    BY <1>4, <1>6, <2>1, GoingHome DEF CountAddress, Went
<1>7. ASSUME LockLogin(c) PROVE Went(c, {"lock"}, {"lock", "idle"})
  <2>1. \/ Refuse(c)
        \/ \E hit : Counting(c, "lock", hit)
    BY <1>7, LockLoginStep
  <2>2. QED
    BY <1>4, <1>7, <2>1, GoingHome DEF LockLogin, Went
<1>8. ASSUME ResetAttempts(c) PROVE Went(c, {"reset"}, {"rehash", "device"})
  <2>1. PICK label \in {"rehash", "device"} : Goto(c, label)
    BY <1>8 DEF ResetAttempts
  <2>2. QED
    BY <1>8, <2>1, GoingTo DEF ResetAttempts, Went
<1>9. ASSUME Rehash(c) PROVE Went(c, {"rehash"}, {"device"})
  BY <1>9, GoingTo DEF Rehash, Went
<1>10. QED
  BY <1>2, <1>3, <1>5, <1>6, <1>7, <1>8, <1>9

LEMMA PhonePaths ==
  ASSUME TablesInv, NEW c \in Clients
  PROVE  /\ \A a : RequestPhoneOtp(c, a) => req' = req \/ Went(c, {"idle"}, {"hset"})
         /\ StoreOtpHash(c) => Went(c, {"hset"}, {"expire", "idle"})
         /\ ExpireOtpHash(c) => Went(c, {"expire"}, {"send"})
         /\ \A sent : SendCode(c, sent) => Went(c, {"send"}, {"idle"})
         /\ \A a, code, dev, ip : LoginPhone(c, a, code, dev, ip) =>
              Went(c, {"idle"}, {"check"}) /\ req'[c].via = "phone"
         /\ CheckCode(c) => Went(c, {"check"}, {"device", "idle"})
<1>1. req[c] \in RequestState
  BY Tables
<1>2. ASSUME NEW a, RequestPhoneOtp(c, a) PROVE req' = req \/ Went(c, {"idle"}, {"hset"})
  <2>1. PICK r : r = [Idle EXCEPT !.at = "hset", !.acct = a]
    OBVIOUS
  <2>2. r.at = "hset"
    BY <2>1 DEF Idle
  <2>3. req' = req \/ Step(c, r)
    BY <1>2, <2>1 DEF RequestPhoneOtp
  <2>4. req[c] = Idle
    BY <1>2 DEF RequestPhoneOtp
  <2>5. QED
    BY <2>2, <2>3, <2>4, Going DEF Went, Idle
<1>3. ASSUME StoreOtpHash(c) PROVE Went(c, {"hset"}, {"expire", "idle"})
  BY <1>3, GoingTo, GoingHome DEF StoreOtpHash, Went
<1>4. ASSUME ExpireOtpHash(c) PROVE Went(c, {"expire"}, {"send"})
  BY <1>4, GoingTo DEF ExpireOtpHash, Went
<1>5. ASSUME NEW sent, SendCode(c, sent) PROVE Went(c, {"send"}, {"idle"})
  BY <1>5, GoingHome DEF SendCode, Went
<1>6. ASSUME NEW a, NEW code, NEW dev, NEW ip, LoginPhone(c, a, code, dev, ip)
      PROVE  Went(c, {"idle"}, {"check"}) /\ req'[c].via = "phone"
  <2>1. PICK r : r = [Idle EXCEPT !.at = "check", !.via = "phone", !.acct = a, !.guess = code, !.dev = dev, !.ip = ip]
    OBVIOUS
  <2>2. r.at = "check" /\ r.via = "phone"
    BY <2>1 DEF Idle
  <2>3. req[c] = Idle /\ Step(c, r)
    BY <1>6, <2>1 DEF LoginPhone
  <2>4. QED
    BY <2>2, <2>3, Going DEF Went, Idle
<1>7. ASSUME CheckCode(c) PROVE Went(c, {"check"}, {"device", "idle"})
  <2>1. Refuse(c) \/ Goto(c, "device")
    BY <1>7, CheckedCode
  <2>2. QED
    BY <1>7, <2>1, GoingTo, GoingHome DEF CheckCode, Went
<1>8. QED
  BY <1>2, <1>3, <1>4, <1>5, <1>6, <1>7

\* A social login keeps its state and its subject on the way, and only a device that was
\* just inserted is new.
LEMMA SocialPaths ==
  ASSUME TablesInv, NEW c \in Clients
  PROVE  /\ FindIdentity(c) => /\ Went(c, {"find"}, {"find mail", "device", "idle"})
                               /\ req'[c].at # "idle" => req'[c].guess = req[c].guess
         /\ FindMail(c) => /\ Went(c, {"find mail"}, {"provision", "idle"})
                           /\ req'[c].at # "idle" => req'[c].guess = req[c].guess
         /\ ProvisionOidc(c) => /\ Went(c, {"provision"}, {"device", "idle"})
                                /\ req'[c].at # "idle" => req'[c].guess = req[c].guess
<1>1. req[c] \in RequestState
  BY Tables
<1>2. ASSUME NEW a, Step(c, [req[c] EXCEPT !.at = "device", !.acct = a])
      PROVE  /\ req'[c].at = "device" /\ req'[c].guess = req[c].guess
             /\ \A d \in Clients : d # c => req'[d] = req[d]
  <2>1. PICK r : r = [req[c] EXCEPT !.at = "device", !.acct = a]
    OBVIOUS
  <2>2. r.at = "device" /\ r.guess = req[c].guess
    BY <1>1, <2>1 DEF RequestState
  <2>3. QED
    BY <1>2, <2>1, <2>2, Going
<1>3. ASSUME FindIdentity(c)
      PROVE  /\ Went(c, {"find"}, {"find mail", "device", "idle"})
             /\ req'[c].at # "idle" => req'[c].guess = req[c].guess
  <2>1. \/ Goto(c, "find mail")
        \/ Refuse(c)
        \/ \E a : Step(c, [req[c] EXCEPT !.at = "device", !.acct = a])
    BY <1>3, FindIdentityStep
  <2>2. req[c].at = "find"
    BY <1>3 DEF FindIdentity
  <2>3. QED
    BY <1>2, <2>1, <2>2, GoingTo, GoingHome DEF Went
<1>4. ASSUME FindMail(c)
      PROVE  /\ Went(c, {"find mail"}, {"provision", "idle"})
             /\ req'[c].at # "idle" => req'[c].guess = req[c].guess
  BY <1>4, GoingTo, GoingHome DEF FindMail, Went
<1>5. ASSUME ProvisionOidc(c)
      PROVE  /\ Went(c, {"provision"}, {"device", "idle"})
             /\ req'[c].at # "idle" => req'[c].guess = req[c].guess
  <2>1. \/ Refuse(c)
        \/ \E a : Step(c, [req[c] EXCEPT !.at = "device", !.acct = a])
    BY <1>5, ProvisionOidcStep
  <2>2. req[c].at = "provision"
    BY <1>5 DEF ProvisionOidc
  <2>3. QED
    BY <1>2, <2>1, <2>2, GoingHome DEF Went
<1>6. QED
  BY <1>3, <1>4, <1>5

LEMMA DevicePaths ==
  ASSUME TablesInv, NEW c \in Clients
  PROVE  /\ SelectDevice(c) => /\ Went(c, {"device"}, {"insert device", "decide"})
                               /\ req'[c].guess = req[c].guess /\ req'[c].via = req[c].via
                               /\ req'[c].at = "decide" => req'[c].known
         /\ InsertDevice(c) => /\ Went(c, {"insert device"}, {"decide", "idle"})
                               /\ req'[c].at = "decide" => /\ req'[c].guess = req[c].guess /\ req'[c].via = req[c].via
                                                           /\ req'[c].acct = req[c].acct /\ req'[c].dev = req[c].dev
         /\ PrimaryDecision(c) => Went(c, {"decide"}, {"idle"})
         /\ Stop(c) => Went(c, Labels, {"idle"})
<1>1. req[c] \in RequestState
  BY Tables
<1>2. ASSUME SelectDevice(c)
      PROVE  /\ Went(c, {"device"}, {"insert device", "decide"})
             /\ req'[c].guess = req[c].guess /\ req'[c].via = req[c].via
             /\ req'[c].at = "decide" => req'[c].known
  <2>1. req[c].at = "device"
    BY <1>2 DEF SelectDevice
  <2>2. CASE Goto(c, "insert device")
    <3>1. /\ req'[c].at = "insert device" /\ req'[c].guess = req[c].guess /\ req'[c].via = req[c].via
          /\ \A d \in Clients : d # c => req'[d] = req[d]
      BY <2>2, GoingTo
    <3>2. QED
      BY <2>1, <3>1 DEF Went
  <2>3. ASSUME NEW moved, Step(c, [req[c] EXCEPT !.at = "decide", !.known = TRUE, !.moved = moved])
        PROVE  /\ Went(c, {"device"}, {"insert device", "decide"})
               /\ req'[c].guess = req[c].guess /\ req'[c].via = req[c].via /\ req'[c].known
    <3>1. PICK r : r = [req[c] EXCEPT !.at = "decide", !.known = TRUE, !.moved = moved]
      OBVIOUS
    <3>2. r.at = "decide" /\ r.known = TRUE /\ r.guess = req[c].guess /\ r.via = req[c].via
      BY <1>1, <3>1 DEF RequestState
    <3>3. req'[c] = r /\ \A d \in Clients : d # c => req'[d] = req[d]
      BY <2>3, <3>1, Going
    <3>4. QED
      BY <2>1, <3>2, <3>3 DEF Went
  <2>4. \/ Goto(c, "insert device")
        \/ \E moved : Step(c, [req[c] EXCEPT !.at = "decide", !.known = TRUE, !.moved = moved])
    BY <1>2, SelectDeviceStep
  <2>5. QED
    BY <2>2, <2>3, <2>4
<1>3. ASSUME InsertDevice(c)
      PROVE  /\ Went(c, {"insert device"}, {"decide", "idle"})
             /\ req'[c].at = "decide" => /\ req'[c].guess = req[c].guess /\ req'[c].via = req[c].via
                                         /\ req'[c].acct = req[c].acct /\ req'[c].dev = req[c].dev
  <2>1. req[c].at = "insert device"
    BY <1>3 DEF InsertDevice
  <2>2. CASE Refuse(c)
    BY <2>1, <2>2, GoingHome DEF Went
  <2>3. CASE Step(c, [req[c] EXCEPT !.at = "decide", !.known = FALSE])
    <3>1. PICK r : r = [req[c] EXCEPT !.at = "decide", !.known = FALSE]
      OBVIOUS
    <3>2. r.at = "decide" /\ r.guess = req[c].guess /\ r.via = req[c].via /\ r.acct = req[c].acct /\ r.dev = req[c].dev
      BY <1>1, <3>1 DEF RequestState
    <3>3. req'[c] = r /\ \A d \in Clients : d # c => req'[d] = req[d]
      BY <2>3, <3>1, Going
    <3>4. QED
      BY <2>1, <3>2, <3>3 DEF Went
  <2>4. QED
    BY <1>3, <2>2, <2>3, InsertDeviceStep
<1>4. ASSUME PrimaryDecision(c) PROVE Went(c, {"decide"}, {"idle"})
  BY <1>4, GoingHome DEF PrimaryDecision, Went
<1>5. ASSUME Stop(c) PROVE Went(c, Labels, {"idle"})
  BY <1>1, <1>5, GoingHome DEF Stop, Went, RequestState
<1>6. QED
  BY <1>2, <1>3, <1>4, <1>5
-----------------------------------------------------------------------------
(***************************************************************************)
(* Codes that expire.                                                      *)
(***************************************************************************)
\* No key loses its time to live, none comes without one, and no request on its way to give
\* it one goes elsewhere.
LEMMA ExpiryStays ==
  ASSUME TablesInv, KeysExpireUnlessCut, cut \subseteq cut',
         \A a \in DOMAIN otp' : otp'[a].gen # 0 /\ ~otp'[a].ttl => a \in DOMAIN otp /\ otp[a].gen # 0 /\ ~otp[a].ttl,
         \A d \in Clients : req[d].at = "expire" => req'[d] = req[d]
  PROVE  KeysExpireUnlessCut'
BY DEF KeysExpireUnlessCut

LEMMA ExpiryKept ==
  ASSUME TablesInv, KeysExpireUnlessCut, cut' = cut, otp' = otp,
         NEW c \in Clients, NEW from, NEW to, Went(c, from, to), "expire" \notin from
  PROVE  KeysExpireUnlessCut'
<1>1. \A d \in Clients : req[d].at = "expire" => req'[d] = req[d]
  BY DEF Went
<1>2. QED
  BY <1>1, ExpiryStays

\* A key that goes takes nothing with it.
LEMMA ExpiryGone ==
  ASSUME TablesInv, KeysExpireUnlessCut, cut' = cut, DOMAIN otp' = DOMAIN otp, NEW a,
         \/ otp'[a] = NoCode
         \/ otp'[a] = otp[a]
         \/ otp'[a].gen = otp[a].gen /\ otp'[a].ttl = otp[a].ttl,
         \A k \in DOMAIN otp : k # a => otp'[k] = otp[k],
         \A d \in Clients : req[d].at = "expire" => req'[d] = req[d]
  PROVE  KeysExpireUnlessCut'
<1>1. \A k \in DOMAIN otp' : otp'[k].gen # 0 /\ ~otp'[k].ttl => k \in DOMAIN otp /\ otp[k].gen # 0 /\ ~otp[k].ttl
  BY NoCodeIs
<1>2. QED
  BY <1>1, ExpiryStays

LEMMA StoreOtpHashExpires ==
  ASSUME TablesInv, KeysExpireUnlessCut, NEW c \in Clients, StoreOtpHash(c)
  PROVE  KeysExpireUnlessCut'
<1>1. Went(c, {"hset"}, {"expire", "idle"}) /\ cut' = cut
  BY PhonePaths DEF StoreOtpHash, rest
<1>2. PICK a : a = req[c].acct
  OBVIOUS
<1>3. CASE account[a].active
  <2>1. req'[c].at = "expire" /\ req'[c].acct = a
    BY <1>2, <1>3, GoingTo DEF StoreOtpHash
  <2>2. DOMAIN otp' = DOMAIN otp /\ \A k \in DOMAIN otp : k # a => otp'[k] = otp[k]
    BY <1>2, <1>3, StoredCode
  <2>3. ASSUME NEW k \in DOMAIN otp', otp'[k].gen # 0, ~otp'[k].ttl
        PROVE  k \in cut' \/ \E d \in Clients : req'[d].at = "expire" /\ req'[d].acct = k
    <3>1. CASE k = a
      BY <2>1, <3>1
    <3>2. CASE k # a
      <4>1. otp[k].gen # 0 /\ ~otp[k].ttl /\ k \in DOMAIN otp
        BY <2>2, <2>3, <3>2
      <4>2. k \in cut \/ \E d \in Clients : req[d].at = "expire" /\ req[d].acct = k
        BY <4>1 DEF KeysExpireUnlessCut
      <4>3. QED
        BY <1>1, <4>2 DEF Went
    <3>3. QED
      BY <3>1, <3>2
  <2>4. QED
    BY <2>3 DEF KeysExpireUnlessCut
<1>4. CASE ~account[a].active
  <2>1. otp' = otp
    BY <1>2, <1>4 DEF StoreOtpHash
  <2>2. QED
    BY <1>1, <2>1, ExpiryKept
<1>5. QED
  BY <1>3, <1>4

LEMMA ExpireOtpHashExpires ==
  ASSUME TablesInv, KeysExpireUnlessCut, NEW c \in Clients, ExpireOtpHash(c)
  PROVE  KeysExpireUnlessCut'
<1>1. Went(c, {"expire"}, {"send"}) /\ cut' = cut
  BY PhonePaths DEF ExpireOtpHash, rest
<1>2. PICK a : a = req[c].acct
  OBVIOUS
<1>3. /\ DOMAIN otp' = DOMAIN otp /\ otp'[a].gen = otp[a].gen /\ (otp[a].gen # 0 => otp'[a].ttl)
      /\ \A k \in DOMAIN otp : k # a => otp'[k] = otp[k]
  BY <1>2, ExpiringCode
<1>4. ASSUME NEW k \in DOMAIN otp', otp'[k].gen # 0, ~otp'[k].ttl
      PROVE  k \in cut' \/ \E d \in Clients : req'[d].at = "expire" /\ req'[d].acct = k
  <2>1. k # a
    BY <1>3, <1>4
  <2>2. otp[k].gen # 0 /\ ~otp[k].ttl /\ k \in DOMAIN otp
    BY <1>3, <1>4, <2>1
  <2>3. k \in cut \/ \E d \in Clients : req[d].at = "expire" /\ req[d].acct = k
    BY <2>2 DEF KeysExpireUnlessCut
  <2>4. QED
    BY <1>1, <1>2, <2>1, <2>3 DEF Went
<1>5. QED
  BY <1>4 DEF KeysExpireUnlessCut

LEMMA StopExpires ==
  ASSUME TablesInv, KeysExpireUnlessCut, NEW c \in Clients, Stop(c)
  PROVE  KeysExpireUnlessCut'
<1>1. Went(c, Labels, {"idle"}) /\ otp' = otp
  BY DevicePaths DEF Stop, phone
<1>2. cut' = IF req[c].at = "expire" THEN cut \cup {req[c].acct} ELSE cut
  BY DEF Stop
<1>3. ASSUME NEW k \in DOMAIN otp', otp'[k].gen # 0, ~otp'[k].ttl
      PROVE  k \in cut' \/ \E d \in Clients : req'[d].at = "expire" /\ req'[d].acct = k
  <2>1. k \in cut \/ \E d \in Clients : req[d].at = "expire" /\ req[d].acct = k
    BY <1>1, <1>3 DEF KeysExpireUnlessCut
  <2>2. CASE k \in cut
    BY <1>2, <2>2
  <2>3. ASSUME NEW d \in Clients, req[d].at = "expire", req[d].acct = k
        PROVE  k \in cut' \/ (req'[d].at = "expire" /\ req'[d].acct = k)
    BY <1>1, <1>2, <2>3 DEF Went
  <2>4. QED
    BY <2>1, <2>2, <2>3
<1>4. QED
  BY <1>3 DEF KeysExpireUnlessCut

\* An account that joins has no code.
LEMMA JoiningExpires ==
  ASSUME TablesInv, KeysExpireUnlessCut, cut' = cut, NEW n, DOMAIN otp' = DOMAIN otp \cup {n}, otp'[n] = NoCode,
         \A k \in DOMAIN account : otp'[k] = otp[k],
         \A d \in Clients : req[d].at = "expire" => req'[d] = req[d]
  PROVE  KeysExpireUnlessCut'
<1>1. DOMAIN otp = DOMAIN account
  BY Tables
<1>2. \A k \in DOMAIN otp' : otp'[k].gen # 0 /\ ~otp'[k].ttl => k \in DOMAIN otp /\ otp[k].gen # 0 /\ ~otp[k].ttl
  BY <1>1, NoCodeIs
<1>3. QED
  BY <1>2, ExpiryStays

LEMMA LoginNextExpires ==
  ASSUME TablesInv, KeysExpireUnlessCut, [LoginNext]_lvars
  PROVE  KeysExpireUnlessCut'
<1>1. ASSUME otp' = otp, cut' = cut, req' = req PROVE KeysExpireUnlessCut'
  BY <1>1, ExpiryStays
<1>2. CASE StartOidc
  BY <1>1, <1>2 DEF StartOidc, phone, rest
<1>3. ASSUME NEW c \in Clients, NEW dev \in Devices, NEW ip \in load.from, NEW m \in Mails, NEW guess \in 0..MaxPassword,
             LoginPassword(c, m, guess, dev, ip)
      PROVE  KeysExpireUnlessCut'
  <2>1. Went(c, {"idle"}, {"identity"}) /\ cut' = cut /\ otp' = otp
    BY <1>3, PasswordPaths DEF LoginPassword, phone, rest
  <2>2. QED
    BY <2>1, ExpiryKept
<1>4. ASSUME NEW c \in Clients, NEW dev \in Devices, NEW ip \in load.from, NEW a \in DOMAIN account,
             NEW code \in {0, otp[a].gen}, LoginPhone(c, a, code, dev, ip)
      PROVE  KeysExpireUnlessCut'
  <2>1. Went(c, {"idle"}, {"check"}) /\ cut' = cut /\ otp' = otp
    BY <1>4, PhonePaths DEF LoginPhone, phone, rest
  <2>2. QED
    BY <2>1, ExpiryKept
<1>5. ASSUME NEW c \in Clients, NEW dev \in Devices, NEW ip \in load.from, NEW st \in DOMAIN state, NEW s \in Subjects,
             NEW ok \in BOOLEAN, LoginOidc(c, st, s, dev, ip, ok)
      PROVE  KeysExpireUnlessCut'
  <2>1. cut' = cut /\ otp' = otp
    BY <1>5 DEF LoginOidc, phone, rest
  <2>2. \A d \in Clients : req[d].at = "expire" => req'[d] = req[d]
    <3>1. req[c] = Idle /\ (req' = req \/ \E r : Step(c, r))
      BY <1>5 DEF LoginOidc
    <3>2. \A d \in Clients : d # c => req'[d] = req[d]
      BY <3>1, Going
    <3>3. QED
      BY <3>1, <3>2 DEF Idle
  <2>3. QED
    BY <2>1, <2>2, ExpiryStays
<1>6. ASSUME NEW c \in Clients, NEW a \in DOMAIN account, RequestPhoneOtp(c, a) PROVE KeysExpireUnlessCut'
  <2>1. cut' = cut /\ otp' = otp /\ (req' = req \/ Went(c, {"idle"}, {"hset"}))
    BY <1>6, PhonePaths DEF RequestPhoneOtp, rest
  <2>2. QED
    BY <1>1, <2>1, ExpiryKept
<1>7. ASSUME NEW c \in Clients, NEW sent \in BOOLEAN, SendCode(c, sent) PROVE KeysExpireUnlessCut'
  <2>1. Went(c, {"send"}, {"idle"}) /\ cut' = cut
    BY <1>7, PhonePaths DEF SendCode, rest
  <2>2. \A d \in Clients : req[d].at = "expire" => req'[d] = req[d]
    BY <2>1 DEF Went
  <2>3. PICK a : a = req[c].acct
    OBVIOUS
  <2>4. /\ DOMAIN otp' = DOMAIN otp /\ (otp'[a] = otp[a] \/ otp'[a] = NoCode)
        /\ \A k \in DOMAIN otp : k # a => otp'[k] = otp[k]
    BY <1>7, <2>3, SentCode
  <2>5. QED
    BY <2>1, <2>2, <2>4, ExpiryGone
<1>8. ASSUME NEW c \in Clients,
             \/ ReadIdentity(c) \/ CountMail(c) \/ CountAddress(c) \/ LockLogin(c) \/ ResetAttempts(c) \/ Rehash(c)
      PROVE  KeysExpireUnlessCut'
  <2>1. cut' = cut /\ otp' = otp
    BY <1>8 DEF ReadIdentity, CountMail, CountAddress, LockLogin, ResetAttempts, Rehash, phone, rest
  <2>2. req[c].at # "expire" /\ \A d \in Clients : d # c => req'[d] = req[d]
    BY <1>8, PasswordPaths DEF Went
  <2>3. \A d \in Clients : req[d].at = "expire" => req'[d] = req[d]
    BY <2>2
  <2>4. QED
    BY <2>1, <2>3, ExpiryStays
<1>9. ASSUME NEW c \in Clients, CheckCode(c) PROVE KeysExpireUnlessCut'
  <2>1. Went(c, {"check"}, {"device", "idle"}) /\ cut' = cut
    BY <1>9, PhonePaths DEF CheckCode, rest
  <2>2. \A d \in Clients : req[d].at = "expire" => req'[d] = req[d]
    BY <2>1 DEF Went
  <2>3. PICK a : a = req[c].acct
    OBVIOUS
  <2>4. /\ DOMAIN otp' = DOMAIN otp /\ \A k \in DOMAIN otp : k # a => otp'[k] = otp[k]
        /\ \/ otp'[a] = NoCode
           \/ otp'[a] = otp[a]
           \/ otp'[a].gen = otp[a].gen /\ otp'[a].ttl = otp[a].ttl
    BY <1>9, <2>3, CheckedCode
  <2>5. QED
    BY <2>1, <2>2, <2>4, ExpiryGone
<1>10. ASSUME NEW c \in Clients, ProvisionOidc(c) PROVE KeysExpireUnlessCut'
  <2>1. Went(c, {"provision"}, {"device", "idle"}) /\ cut' = cut
    BY <1>10, SocialPaths DEF ProvisionOidc, rest
  <2>2. \A d \in Clients : req[d].at = "expire" => req'[d] = req[d]
    BY <2>1 DEF Went
  <2>3. PICK n : n = Len(account) + 1
    OBVIOUS
  <2>4. \/ otp' = otp
        \/ /\ DOMAIN otp' = DOMAIN otp \cup {n} /\ otp'[n] = NoCode
           /\ \A k \in DOMAIN account : otp'[k] = otp[k]
    BY <1>10, <2>3, ProvisionOidcStep
  <2>5. CASE otp' = otp
    BY <2>1, <2>2, <2>5, ExpiryStays
  <2>6. CASE /\ DOMAIN otp' = DOMAIN otp \cup {n} /\ otp'[n] = NoCode
             /\ \A k \in DOMAIN account : otp'[k] = otp[k]
    BY <2>1, <2>2, <2>6, JoiningExpires
  <2>7. QED
    BY <2>4, <2>5, <2>6
<1>11. ASSUME NEW c \in Clients, FindIdentity(c) \/ FindMail(c) \/ SelectDevice(c) \/ InsertDevice(c) \/ PrimaryDecision(c)
       PROVE  KeysExpireUnlessCut'
  <2>1. cut' = cut /\ otp' = otp
    BY <1>11 DEF FindIdentity, FindMail, SelectDevice, InsertDevice, PrimaryDecision, phone, rest
  <2>2. req[c].at # "expire" /\ \A d \in Clients : d # c => req'[d] = req[d]
    BY <1>11, SocialPaths, DevicePaths DEF Went
  <2>3. \A d \in Clients : req[d].at = "expire" => req'[d] = req[d]
    BY <2>2
  <2>4. QED
    BY <2>1, <2>3, ExpiryStays
<1>12. ASSUME NEW s \in Counted, ExpireAttempts(s) \/ ExpireLock(s) PROVE KeysExpireUnlessCut'
  BY <1>1, <1>12 DEF ExpireAttempts, ExpireLock, phone, rest
<1>13. ASSUME NEW a \in DOMAIN account, ExpireSends(a) \/ ResetPassword(a) \/ Suspend(a) PROVE KeysExpireUnlessCut'
  BY <1>1, <1>13 DEF ExpireSends, ResetPassword, Suspend, phone, rest
<1>14. ASSUME NEW a \in DOMAIN account, ExpireOtp(a) PROVE KeysExpireUnlessCut'
  <2>1. cut' = cut /\ req' = req /\ otp' = [otp EXCEPT ![a] = NoCode] /\ UNCHANGED <<drawn, account>>
    BY <1>14 DEF ExpireOtp, rest, db
  <2>2. DOMAIN otp' = DOMAIN otp /\ otp'[a] = NoCode /\ \A k \in DOMAIN otp : k # a => otp'[k] = otp[k]
    BY <2>1, CodeGoes
  <2>3. \A d \in Clients : req[d].at = "expire" => req'[d] = req[d]
    BY <2>1
  <2>4. QED
    BY <2>1, <2>2, <2>3, ExpiryGone
<1>15. ASSUME NEW st \in DOMAIN state, ExpireState(st) PROVE KeysExpireUnlessCut'
  BY <1>1, <1>15 DEF ExpireState, phone, rest
<1>16. ASSUME NEW m \in Mails, Register(m) PROVE KeysExpireUnlessCut'
  <2>1. cut' = cut /\ req' = req
    BY <1>16 DEF Register, rest
  <2>2. PICK n : n = Len(account) + 1
    OBVIOUS
  <2>3. DOMAIN otp' = DOMAIN otp \cup {n} /\ otp'[n] = NoCode /\ \A k \in DOMAIN account : otp'[k] = otp[k]
    BY <1>16, <2>2, RegisterStep
  <2>4. \A d \in Clients : req[d].at = "expire" => req'[d] = req[d]
    BY <2>1
  <2>5. QED
    BY <2>1, <2>3, <2>4, JoiningExpires
<1>17. CASE UNCHANGED lvars
  BY <1>1, <1>17 DEF lvars
<1>18. ASSUME NEW c \in Clients, StoreOtpHash(c) \/ ExpireOtpHash(c) \/ Stop(c) PROVE KeysExpireUnlessCut'
  BY <1>18, StoreOtpHashExpires, ExpireOtpHashExpires, StopExpires
<1>19. QED
  BY <1>2, <1>3, <1>4, <1>5, <1>6, <1>7, <1>8, <1>9, <1>10, <1>11, <1>12, <1>13, <1>14, <1>15, <1>16, <1>17, <1>18
  DEF LoginNext

\* The hash of a phone code never stays for ever: HSET and EXPIRE are two commands, and whichever
\* checks, deliveries and other requests fall between them, only a request that stops there can
\* leave a key without a time to live (store_otp_hash).
THEOREM CodesExpire == LoginSpec => []KeysExpireUnlessCut
<1>1. LoginInit => KeysExpireUnlessCut
  <2>1. SUFFICES ASSUME LoginInit PROVE \A a \in DOMAIN otp : otp[a].gen = 0
    BY DEF KeysExpireUnlessCut
  <2>2. otp = [a \in DOMAIN account |-> NoCode]
    BY <2>1 DEF LoginInit
  <2>3. QED
    BY <2>2, NoCodeIs
<1>2. TablesInv /\ KeysExpireUnlessCut /\ [LoginNext]_lvars => KeysExpireUnlessCut'
  BY LoginNextExpires
<1>3. QED
  BY <1>1, <1>2, TablesStayTrue, PTL DEF LoginSpec
LEMMA OidcPath ==
  ASSUME TablesInv, NEW c \in Clients, NEW st, NEW s, NEW dev, NEW ip, NEW ok, LoginOidc(c, st, s, dev, ip, ok)
  PROVE  \/ req' = req
         \/ /\ Went(c, {"idle"}, {"find"})
            /\ req'[c].via = "social" /\ req'[c].guess = st
<1>1. PICK r : r = [Idle EXCEPT !.at = "find", !.via = "social", !.guess = st, !.sub = s, !.dev = dev, !.ip = ip]
  OBVIOUS
<1>2. r.at = "find" /\ r.via = "social" /\ r.guess = st
  BY <1>1 DEF Idle
<1>3. req[c] = Idle /\ (req' = req \/ Step(c, r))
  BY <1>1 DEF LoginOidc
<1>4. CASE Step(c, r)
  <2>1. req'[c] = r /\ \A d \in Clients : d # c => req'[d] = req[d]
    BY <1>4, Going
  <2>2. QED
    BY <1>2, <1>3, <2>1 DEF Went, Idle
<1>5. QED
  BY <1>3, <1>4
-----------------------------------------------------------------------------
(***************************************************************************)
(* The password that works.                                                *)
(***************************************************************************)
LEMMA PasswordStays ==
  ASSUME TablesInv, PasswordInv, UNCHANGED <<account, latest, raced>>,
         \A d \in Clients : req'[d].at \in {"reset", "rehash"} => req'[d] = req[d]
  PROVE  PasswordInv'
<1>1. PasswordUnlessRaced'
  BY DEF PasswordInv, PasswordUnlessRaced
<1>2. ASSUME NEW c \in Clients, req'[c].at \in {"reset", "rehash"}, req'[c].dated, req'[c].acct \notin raced'
      PROVE  req'[c].guess = latest'[req'[c].acct]
  <2>1. req'[c] = req[c]
    BY <1>2
  <2>2. req[c].at \in {"reset", "rehash"} /\ req[c].dated /\ req[c].acct \notin raced
    BY <1>2, <2>1
  <2>3. QED
    BY <2>1, <2>2 DEF PasswordInv
<1>3. QED
  BY <1>1, <1>2 DEF PasswordInv

\* The password that was compared is the one of today.
LEMMA ReadIdentityPassword ==
  ASSUME TablesInv, PasswordInv, NEW c \in Clients, ReadIdentity(c)
  PROVE  PasswordInv'
<1>1. UNCHANGED <<account, latest, raced>> /\ req[c] \in RequestState
  BY Tables DEF ReadIdentity, db, rest
<1>2. CASE Goto(c, "count mail")
  <2>1. req'[c].at = "count mail" /\ \A d \in Clients : d # c => req'[d] = req[d]
    BY <1>2, GoingTo
  <2>2. \A d \in Clients : req'[d].at \in {"reset", "rehash"} => req'[d] = req[d]
    BY <2>1
  <2>3. QED
    BY <1>1, <2>2, PasswordStays
<1>3. ASSUME NEW a \in DOMAIN account, account[a].password = req[c].guess,
             Step(c, [req[c] EXCEPT !.at = "reset", !.acct = a, !.dated = account[a].dated])
      PROVE  PasswordInv'
  <2>1. PICK r : r = [req[c] EXCEPT !.at = "reset", !.acct = a, !.dated = account[a].dated]
    OBVIOUS
  <2>2. r.acct = a /\ r.guess = req[c].guess
    BY <1>1, <2>1 DEF RequestState
  <2>3. req'[c] = r /\ \A d \in Clients : d # c => req'[d] = req[d]
    BY <1>3, <2>1, Going
  <2>4. PasswordUnlessRaced'
    BY <1>1 DEF PasswordInv, PasswordUnlessRaced
  <2>5. ASSUME NEW d \in Clients, req'[d].at \in {"reset", "rehash"}, req'[d].dated, req'[d].acct \notin raced'
        PROVE  req'[d].guess = latest'[req'[d].acct]
    <3>1. CASE d = c
      <4>1. a \in raced \/ account[a].password = latest[a]
        BY DEF PasswordInv, PasswordUnlessRaced
      <4>2. QED
        BY <1>1, <1>3, <2>2, <2>3, <2>5, <3>1, <4>1
    <3>2. CASE d # c
      <4>1. req'[d] = req[d] /\ req[d].at \in {"reset", "rehash"} /\ req[d].dated /\ req[d].acct \notin raced
        BY <1>1, <2>3, <2>5, <3>2
      <4>2. QED
        BY <1>1, <4>1 DEF PasswordInv
    <3>3. QED
      BY <3>1, <3>2
  <2>6. QED
    BY <2>4, <2>5 DEF PasswordInv
<1>4. QED
  BY <1>2, <1>3, ReadIdentityStep

LEMMA ResetAttemptsPassword ==
  ASSUME TablesInv, PasswordInv, NEW c \in Clients, ResetAttempts(c)
  PROVE  PasswordInv'
<1>1. UNCHANGED <<account, latest, raced>> /\ req[c].at = "reset"
  BY DEF ResetAttempts, db, rest
<1>2. PICK label : Goto(c, label)
  BY DEF ResetAttempts
<1>3. /\ req'[c].acct = req[c].acct /\ req'[c].guess = req[c].guess /\ req'[c].dated = req[c].dated
      /\ \A d \in Clients : d # c => req'[d] = req[d]
  BY <1>2, GoingTo
<1>4. PasswordUnlessRaced'
  BY <1>1 DEF PasswordInv, PasswordUnlessRaced
<1>5. ASSUME NEW d \in Clients, req'[d].at \in {"reset", "rehash"}, req'[d].dated, req'[d].acct \notin raced'
      PROVE  req'[d].guess = latest'[req'[d].acct]
  <2>1. /\ req[d].at \in {"reset", "rehash"} /\ req[d].dated /\ req[d].acct \notin raced
        /\ req'[d].acct = req[d].acct /\ req'[d].guess = req[d].guess
    BY <1>1, <1>3, <1>5
  <2>2. QED
    BY <1>1, <2>1 DEF PasswordInv
<1>6. QED
  BY <1>4, <1>5 DEF PasswordInv

\* The hash is renewed with the password that was compared.
LEMMA RehashPassword ==
  ASSUME TablesInv, PasswordInv, NEW c \in Clients, Rehash(c)
  PROVE  PasswordInv'
<1>1. UNCHANGED <<latest, raced>> /\ req[c].at = "rehash" /\ Placed(req[c])
  BY Tables DEF Rehash, rest
<1>2. PICK a : a = req[c].acct
  OBVIOUS
<1>3. /\ DOMAIN account' = DOMAIN account /\ account'[a].password = req[c].guess
      /\ \A k \in DOMAIN account : k # a => account'[k] = account[k]
  BY <1>2, RehashStep
<1>4. a \in raced \/ req[c].guess = latest[a]
  BY <1>1, <1>2 DEF PasswordInv, Placed
<1>5. ASSUME NEW k \in DOMAIN account' PROVE k \in raced' \/ account'[k].password = latest'[k]
  BY <1>1, <1>3, <1>4 DEF PasswordInv, PasswordUnlessRaced
<1>6. \A d \in Clients : req'[d].at \in {"reset", "rehash"} => req'[d] = req[d]
  BY PasswordPaths DEF Went
<1>7. ASSUME NEW d \in Clients, req'[d].at \in {"reset", "rehash"}, req'[d].dated, req'[d].acct \notin raced'
      PROVE  req'[d].guess = latest'[req'[d].acct]
  <2>1. req'[d] = req[d] /\ req[d].at \in {"reset", "rehash"} /\ req[d].dated /\ req[d].acct \notin raced
    BY <1>1, <1>6, <1>7
  <2>2. QED
    BY <1>1, <2>1 DEF PasswordInv
<1>8. QED
  BY <1>5, <1>7 DEF PasswordInv, PasswordUnlessRaced

\* An account that joins has the password it was given.
LEMMA JoiningPassword ==
  ASSUME TablesInv, PasswordInv, raced' = raced, NEW n, NEW pw, n \notin DOMAIN account,
         DOMAIN account' = DOMAIN account \cup {n}, account'[n].password = pw, latest'[n] = pw,
         \A k \in DOMAIN account : account'[k] = account[k] /\ latest'[k] = latest[k],
         \A d \in Clients : req'[d].at \in {"reset", "rehash"} => req'[d] = req[d]
  PROVE  PasswordInv'
<1>1. PasswordUnlessRaced'
  BY DEF PasswordInv, PasswordUnlessRaced
<1>2. ASSUME NEW d \in Clients, req'[d].at \in {"reset", "rehash"}, req'[d].dated, req'[d].acct \notin raced'
      PROVE  req'[d].guess = latest'[req'[d].acct]
  <2>1. req'[d] = req[d] /\ req[d].at \in {"reset", "rehash"} /\ req[d].dated /\ req[d].acct \notin raced
    BY <1>2
  <2>2. Placed(req[d])
    BY Tables
  <2>3. req[d].acct \in DOMAIN account
    BY <2>1, <2>2 DEF Placed, ForAccount
  <2>4. QED
    BY <2>1, <2>3 DEF PasswordInv
<1>3. QED
  BY <1>1, <1>2 DEF PasswordInv

LEMMA ProvisionOidcPassword ==
  ASSUME TablesInv, PasswordInv, NEW c \in Clients, ProvisionOidc(c)
  PROVE  PasswordInv'
<1>1. raced' = raced
  BY DEF ProvisionOidc, rest
<1>2. \A d \in Clients : req'[d].at \in {"reset", "rehash"} => req'[d] = req[d]
  BY SocialPaths DEF Went
<1>3. PICK n : n = Len(account) + 1
  OBVIOUS
<1>4. CASE UNCHANGED <<account, latest, otp, identity>>
  BY <1>1, <1>2, <1>4, PasswordStays
<1>5. CASE /\ n \notin DOMAIN account /\ DOMAIN account' = DOMAIN account \cup {n}
           /\ account'[n].password = 0 /\ latest'[n] = 0
           /\ \A k \in DOMAIN account : account'[k] = account[k] /\ latest'[k] = latest[k]
  BY <1>1, <1>2, <1>5, JoiningPassword
<1>6. QED
  BY <1>3, <1>4, <1>5, ProvisionOidcStep

LEMMA RegisterPassword ==
  ASSUME TablesInv, PasswordInv, NEW m \in Mails, Register(m)
  PROVE  PasswordInv'
<1>1. raced' = raced /\ req' = req
  BY DEF Register, rest
<1>2. \A d \in Clients : req'[d].at \in {"reset", "rehash"} => req'[d] = req[d]
  BY <1>1
<1>3. PICK n : n = Len(account) + 1
  OBVIOUS
<1>4. /\ n \notin DOMAIN account /\ DOMAIN account' = DOMAIN account \cup {n}
      /\ account'[n].password = 1 /\ latest'[n] = 1
      /\ \A k \in DOMAIN account : account'[k] = account[k] /\ latest'[k] = latest[k]
  BY <1>3, RegisterStep
<1>5. QED
  BY <1>1, <1>2, <1>4, JoiningPassword

\* A reset that meets a login with the old password in hand is a race.
LEMMA ResetPasswordPassword ==
  ASSUME TablesInv, PasswordInv, NEW a \in DOMAIN account, ResetPassword(a)
  PROVE  PasswordInv'
<1>1. req' = req /\ raced' = IF \E c \in Clients : HoldsOldPassword(c, a) THEN raced \cup {a} ELSE raced
  BY DEF ResetPassword
<1>2. /\ DOMAIN account' = DOMAIN account /\ account'[a].password = latest'[a]
      /\ \A k \in DOMAIN account : k # a => account'[k] = account[k] /\ latest'[k] = latest[k]
  BY ResetPasswordStep
<1>3. PasswordUnlessRaced'
  BY <1>1, <1>2 DEF PasswordInv, PasswordUnlessRaced
<1>4. ASSUME NEW d \in Clients, req'[d].at \in {"reset", "rehash"}, req'[d].dated, req'[d].acct \notin raced'
      PROVE  req'[d].guess = latest'[req'[d].acct]
  <2>1. req'[d] = req[d] /\ req[d].at \in {"reset", "rehash"} /\ req[d].dated /\ req[d].acct \notin raced
    BY <1>1, <1>4
  <2>2. req[d].acct # a
    <3>1. SUFFICES ASSUME req[d].acct = a PROVE FALSE
      OBVIOUS
    <3>2. HoldsOldPassword(d, a)
      BY <2>1, <3>1 DEF HoldsOldPassword
    <3>3. a \in raced'
      BY <1>1, <3>2
    <3>4. QED
      BY <1>4, <2>1, <3>1, <3>3
  <2>3. Placed(req[d])
    BY Tables
  <2>4. req[d].acct \in DOMAIN account
    BY <2>1, <2>3 DEF Placed, ForAccount
  <2>5. latest'[req[d].acct] = latest[req[d].acct]
    BY <1>2, <2>2, <2>4
  <2>6. QED
    BY <2>1, <2>5 DEF PasswordInv
<1>5. QED
  BY <1>3, <1>4 DEF PasswordInv

LEMMA SuspendPassword ==
  ASSUME TablesInv, PasswordInv, NEW a \in DOMAIN account, Suspend(a)
  PROVE  PasswordInv'
<1>1. UNCHANGED <<latest, raced, req>>
  BY DEF Suspend, rest
<1>2. DOMAIN account' = DOMAIN account /\ \A k \in DOMAIN account : account'[k].password = account[k].password
  BY SuspendStep
<1>3. QED
  BY <1>1, <1>2 DEF PasswordInv, PasswordUnlessRaced

LEMMA LoginNextPassword ==
  ASSUME TablesInv, PasswordInv, [LoginNext]_lvars
  PROVE  PasswordInv'
<1>1. CASE StartOidc
  <2>1. UNCHANGED <<account, latest, raced, req>>
    BY <1>1 DEF StartOidc, db, password, phone, social, rest
  <2>2. QED
    BY <2>1, PasswordStays
<1>2. ASSUME NEW c \in Clients, NEW dev \in Devices, NEW ip \in load.from, NEW m \in Mails, NEW guess \in 0..MaxPassword,
             LoginPassword(c, m, guess, dev, ip)
      PROVE  PasswordInv'
  <2>1. UNCHANGED <<account, latest, raced>>
    BY <1>2 DEF LoginPassword, db, password, phone, social, rest
  <2>2. \A d \in Clients : req'[d].at \in {"reset", "rehash"} => req'[d] = req[d]
    BY <1>2, PasswordPaths DEF Went
  <2>3. QED
    BY <2>1, <2>2, PasswordStays
<1>3. ASSUME NEW c \in Clients, NEW dev \in Devices, NEW ip \in load.from, NEW a \in DOMAIN account,
             NEW code \in {0, otp[a].gen}, LoginPhone(c, a, code, dev, ip)
      PROVE  PasswordInv'
  <2>1. UNCHANGED <<account, latest, raced>>
    BY <1>3 DEF LoginPhone, db, password, phone, social, rest
  <2>2. \A d \in Clients : req'[d].at \in {"reset", "rehash"} => req'[d] = req[d]
    BY <1>3, PhonePaths DEF Went
  <2>3. QED
    BY <2>1, <2>2, PasswordStays
<1>4. ASSUME NEW c \in Clients, NEW dev \in Devices, NEW ip \in load.from, NEW st \in DOMAIN state, NEW s \in Subjects,
             NEW ok \in BOOLEAN, LoginOidc(c, st, s, dev, ip, ok)
      PROVE  PasswordInv'
  <2>1. UNCHANGED <<account, latest, raced>>
    BY <1>4 DEF LoginOidc, db, password, phone, social, rest
  <2>2. \A d \in Clients : req'[d].at \in {"reset", "rehash"} => req'[d] = req[d]
    BY <1>4, OidcPath DEF Went
  <2>3. QED
    BY <2>1, <2>2, PasswordStays
<1>5. ASSUME NEW c \in Clients, NEW a \in DOMAIN account, RequestPhoneOtp(c, a)
      PROVE  PasswordInv'
  <2>1. UNCHANGED <<account, latest, raced>>
    BY <1>5 DEF RequestPhoneOtp, db, password, phone, social, rest
  <2>2. \A d \in Clients : req'[d].at \in {"reset", "rehash"} => req'[d] = req[d]
    BY <1>5, PhonePaths DEF Went
  <2>3. QED
    BY <2>1, <2>2, PasswordStays
<1>6. ASSUME NEW c \in Clients, NEW sent \in BOOLEAN, SendCode(c, sent)
      PROVE  PasswordInv'
  <2>1. UNCHANGED <<account, latest, raced>>
    BY <1>6 DEF SendCode, db, password, phone, social, rest
  <2>2. \A d \in Clients : req'[d].at \in {"reset", "rehash"} => req'[d] = req[d]
    BY <1>6, PhonePaths DEF Went
  <2>3. QED
    BY <2>1, <2>2, PasswordStays
<1>7. ASSUME NEW c \in Clients, CountMail(c) \/ CountAddress(c) \/ LockLogin(c)
      PROVE  PasswordInv'
  <2>1. UNCHANGED <<account, latest, raced>>
    BY <1>7 DEF CountMail, CountAddress, LockLogin, db, password, phone, social, rest
  <2>2. \A d \in Clients : req'[d].at \in {"reset", "rehash"} => req'[d] = req[d]
    BY <1>7, PasswordPaths DEF Went
  <2>3. QED
    BY <2>1, <2>2, PasswordStays
<1>8. ASSUME NEW c \in Clients, StoreOtpHash(c) \/ ExpireOtpHash(c) \/ CheckCode(c)
      PROVE  PasswordInv'
  <2>1. UNCHANGED <<account, latest, raced>>
    BY <1>8 DEF StoreOtpHash, ExpireOtpHash, CheckCode, db, password, phone, social, rest
  <2>2. \A d \in Clients : req'[d].at \in {"reset", "rehash"} => req'[d] = req[d]
    BY <1>8, PhonePaths DEF Went
  <2>3. QED
    BY <2>1, <2>2, PasswordStays
<1>9. ASSUME NEW c \in Clients, FindIdentity(c) \/ FindMail(c)
      PROVE  PasswordInv'
  <2>1. UNCHANGED <<account, latest, raced>>
    BY <1>9 DEF FindIdentity, FindMail, db, password, phone, social, rest
  <2>2. \A d \in Clients : req'[d].at \in {"reset", "rehash"} => req'[d] = req[d]
    BY <1>9, SocialPaths DEF Went
  <2>3. QED
    BY <2>1, <2>2, PasswordStays
<1>10. ASSUME NEW c \in Clients, SelectDevice(c) \/ InsertDevice(c) \/ PrimaryDecision(c) \/ Stop(c)
      PROVE  PasswordInv'
  <2>1. UNCHANGED <<account, latest, raced>>
    BY <1>10 DEF SelectDevice, InsertDevice, PrimaryDecision, Stop, db, password, phone, social, rest
  <2>2. \A d \in Clients : req'[d].at \in {"reset", "rehash"} => req'[d] = req[d]
    BY <1>10, DevicePaths DEF Went
  <2>3. QED
    BY <2>1, <2>2, PasswordStays
<1>11. ASSUME NEW s \in Counted, ExpireAttempts(s) \/ ExpireLock(s)
      PROVE  PasswordInv'
  <2>1. UNCHANGED <<account, latest, raced, req>>
    BY <1>11 DEF ExpireAttempts, ExpireLock, db, password, phone, social, rest
  <2>2. QED
    BY <2>1, PasswordStays
<1>12. ASSUME NEW a \in DOMAIN account, ExpireOtp(a) \/ ExpireSends(a)
      PROVE  PasswordInv'
  <2>1. UNCHANGED <<account, latest, raced, req>>
    BY <1>12 DEF ExpireOtp, ExpireSends, db, password, phone, social, rest
  <2>2. QED
    BY <2>1, PasswordStays
<1>13. ASSUME NEW st \in DOMAIN state, ExpireState(st)
      PROVE  PasswordInv'
  <2>1. UNCHANGED <<account, latest, raced, req>>
    BY <1>13 DEF ExpireState, db, password, phone, social, rest
  <2>2. QED
    BY <2>1, PasswordStays
<1>14. CASE UNCHANGED lvars
  <2>1. UNCHANGED <<account, latest, raced, req>>
    BY <1>14 DEF lvars
  <2>2. QED
    BY <2>1, PasswordStays
<1>15. ASSUME NEW c \in Clients, ReadIdentity(c) \/ ResetAttempts(c) \/ Rehash(c) \/ ProvisionOidc(c)
      PROVE  PasswordInv'
  BY <1>15, ReadIdentityPassword, ResetAttemptsPassword, RehashPassword, ProvisionOidcPassword
<1>16. ASSUME NEW a \in DOMAIN account, ResetPassword(a) \/ Suspend(a)
      PROVE  PasswordInv'
  BY <1>16, ResetPasswordPassword, SuspendPassword
<1>17. ASSUME NEW m \in Mails, Register(m)
      PROVE  PasswordInv'
  BY <1>17, RegisterPassword
<1>18. QED
  BY <1>1, <1>2, <1>3, <1>4, <1>5, <1>6, <1>7, <1>8, <1>9, <1>10, <1>11, <1>12, <1>13, <1>14, <1>15, <1>16, <1>17
  DEF LoginNext

\* The password that works is the one its owner chose last: a login that renews an outdated hash
\* writes what it compared, and only a reset that falls between its read and its write can be
\* undone by it (update_password_hash writes the row whatever it holds by then).
THEOREM PasswordsAreTheLatest == LoginSpec => []PasswordUnlessRaced
<1>1. LoginInit => PasswordInv
  <2>1. SUFFICES ASSUME LoginInit PROVE PasswordInv
    OBVIOUS
  <2>2. \A c \in Clients : req[c].at = "idle"
    BY <2>1 DEF LoginInit, Idle
  <2>3. \A a \in DOMAIN account : account[a].password = 1 /\ latest[a] = 1
    <3>1. PICK s : s = load.accounts
      OBVIOUS
    <3>2. account = [a \in DOMAIN s |-> [mail |-> s[a], active |-> TRUE, password |-> 1, dated |-> TRUE]]
      BY <2>1, <3>1 DEF LoginInit
    <3>3. latest = [a \in DOMAIN account |-> 1]
      BY <2>1 DEF LoginInit
    <3>4. QED
      BY <3>2, <3>3
  <2>4. QED
    BY <2>2, <2>3 DEF PasswordInv, PasswordUnlessRaced
<1>2. TablesInv /\ PasswordInv /\ [LoginNext]_lvars => PasswordInv'
  BY LoginNextPassword
<1>3. PasswordInv => PasswordUnlessRaced
  BY DEF PasswordInv
<1>4. QED
  BY <1>1, <1>2, <1>3, TablesStayTrue, PTL DEF LoginSpec
-----------------------------------------------------------------------------
(***************************************************************************)
(* The first sight of a device.                                            *)
(***************************************************************************)
\* Devices stay in the table, no decision is made and no request sees one for the first time.
LEMMA DeviceStays ==
  ASSUME TablesInv, DeviceInv, decided' = decided,
         \A e \in device : \E f \in device' : f.acct = e.acct /\ f.dev = e.dev,
         \A d \in Clients : req'[d].at = "decide" /\ ~req'[d].known => req'[d] = req[d]
  PROVE  DeviceInv'
<1>1. \A a, v : Seen(a, v) # {} => Seen(a, v)' # {}
  BY DEF Seen
<1>2. \A d \in Clients : New(req[d])' => New(req[d]) /\ req'[d].acct = req[d].acct /\ req'[d].dev = req[d].dev
  BY DEF New
<1>3. ASSUME NEW c \in Clients, New(req[c])' PROVE Seen(req[c].acct, req[c].dev)' # {}
  <2>1. PICK a, v : a = req[c].acct /\ v = req[c].dev
    OBVIOUS
  <2>2. Seen(a, v) # {} /\ a = req'[c].acct /\ v = req'[c].dev
    BY <1>2, <1>3, <2>1 DEF DeviceInv
  <2>3. QED
    BY <1>1, <2>2 DEF Seen
<1>4. ASSUME NEW i \in DOMAIN decided', NewIn(decided[i])' PROVE Seen(decided[i].acct, decided[i].dev)' # {}
  <2>1. PICK a, v : a = decided[i].acct /\ v = decided[i].dev
    OBVIOUS
  <2>2. Seen(a, v) # {} /\ a = decided'[i].acct /\ v = decided'[i].dev
    BY <1>4, <2>1 DEF DeviceInv, NewIn
  <2>3. QED
    BY <1>1, <2>2 DEF Seen
<1>5. ASSUME NEW c \in Clients, NEW d \in Clients, New(req[c])', New(req[d])',
             req'[c].acct = req'[d].acct, req'[c].dev = req'[d].dev
      PROVE  c = d
  BY <1>2, <1>5 DEF DeviceInv
<1>6. ASSUME NEW c \in Clients, NEW i \in DOMAIN decided', New(req[c])', NewIn(decided[i])',
             req'[c].acct = decided'[i].acct, req'[c].dev = decided'[i].dev
      PROVE  FALSE
  BY <1>2, <1>6 DEF DeviceInv, NewIn
<1>7. FirstSightOnce'
  BY DEF DeviceInv, FirstSightOnce
<1>8. QED
  BY <1>3, <1>4, <1>5, <1>6, <1>7 DEF DeviceInv

LEMMA NobodyNew ==
  ASSUME TablesInv, DeviceInv, UNCHANGED <<device, decided>>,
         \A d \in Clients : req'[d].at = "decide" /\ ~req'[d].known => req'[d] = req[d]
  PROVE  DeviceInv'
<1>1. \A e \in device : \E f \in device' : f.acct = e.acct /\ f.dev = e.dev
  OBVIOUS
<1>2. QED
  BY <1>1, DeviceStays

LEMMA SelectDeviceDevice ==
  ASSUME TablesInv, DeviceInv, NEW c \in Clients, SelectDevice(c)
  PROVE  DeviceInv'
<1>1. decided' = decided
  BY DEF SelectDevice, rest
<1>2. \A d \in Clients : req'[d].at = "decide" /\ ~req'[d].known => req'[d] = req[d]
  BY DevicePaths DEF Went
<1>3. \A e \in device : \E f \in device' : f.acct = e.acct /\ f.dev = e.dev
  <2>1. CASE device' = device
    BY <2>1
  <2>2. ASSUME NEW d \in device, NEW e, e.acct = d.acct, e.dev = d.dev, device' = (device \ {d}) \cup {e}
        PROVE  \A x \in device : \E f \in device' : f.acct = x.acct /\ f.dev = x.dev
    BY <2>2
  <2>3. QED
    BY <2>1, <2>2, SelectDeviceStep
<1>4. QED
  BY <1>1, <1>2, <1>3, DeviceStays

\* Whoever inserts the device is the only one to see it first.
LEMMA InsertDeviceDevice ==
  ASSUME TablesInv, DeviceInv, NEW c \in Clients, InsertDevice(c)
  PROVE  DeviceInv'
<1>1. decided' = decided
  BY DEF InsertDevice, rest
<1>2. /\ Went(c, {"insert device"}, {"decide", "idle"})
      /\ req'[c].at = "decide" => req'[c].acct = req[c].acct /\ req'[c].dev = req[c].dev
  BY DevicePaths
<1>3. CASE Refuse(c) /\ UNCHANGED device
  <2>1. \A d \in Clients : req'[d].at = "decide" /\ ~req'[d].known => req'[d] = req[d]
    BY <1>3, GoingHome
  <2>2. QED
    BY <1>1, <1>3, <2>1, NobodyNew
<1>4. ASSUME Seen(req[c].acct, req[c].dev) = {}, NEW e \in DeviceRow, e.acct = req[c].acct, e.dev = req[c].dev,
             device' = device \cup {e}, req'[c].at = "decide"
      PROVE  DeviceInv'
  <2>1. PICK a, v : a = req[c].acct /\ v = req[c].dev
    OBVIOUS
  <2>2. req'[c].acct = a /\ req'[c].dev = v /\ e.acct = a /\ e.dev = v /\ Seen(a, v) = {} /\ e \in device'
    BY <1>2, <1>4, <2>1
  <2>3. \A d \in Clients : d # c => req'[d] = req[d]
    BY <1>2 DEF Went
  <2>4. \A x, y : Seen(x, y) # {} => Seen(x, y)' # {}
    BY <1>4 DEF Seen
  <2>5. ASSUME NEW d \in Clients, d # c, New(req[d])'
        PROVE  /\ New(req[d]) /\ req'[d].acct = req[d].acct /\ req'[d].dev = req[d].dev
               /\ Seen(req[d].acct, req[d].dev) # {}
               /\ ~(req'[d].acct = a /\ req'[d].dev = v)
    <3>1. req'[d] = req[d] /\ New(req[d])
      BY <2>3, <2>5 DEF New
    <3>2. Seen(req[d].acct, req[d].dev) # {}
      BY <3>1 DEF DeviceInv
    <3>3. QED
      BY <2>2, <3>1, <3>2
  <2>6. ASSUME NEW i \in DOMAIN decided', NewIn(decided[i])'
        PROVE  /\ NewIn(decided[i]) /\ i \in DOMAIN decided
               /\ Seen(decided[i].acct, decided[i].dev) # {}
               /\ ~(decided'[i].acct = a /\ decided'[i].dev = v)
    <3>1. NewIn(decided[i]) /\ i \in DOMAIN decided
      BY <1>1, <2>6 DEF NewIn
    <3>2. Seen(decided[i].acct, decided[i].dev) # {}
      BY <3>1 DEF DeviceInv
    <3>3. QED
      BY <1>1, <2>2, <3>1, <3>2
  <2>7. ASSUME NEW d \in Clients, New(req[d])' PROVE Seen(req[d].acct, req[d].dev)' # {}
    <3>1. CASE d = c
      <4>1. e \in device' /\ e.acct = req'[d].acct /\ e.dev = req'[d].dev
        BY <2>2, <3>1
      <4>2. QED
        BY <4>1 DEF Seen
    <3>2. CASE d # c
      <4>1. PICK x, y : x = req[d].acct /\ y = req[d].dev
        OBVIOUS
      <4>2. Seen(x, y) # {} /\ x = req'[d].acct /\ y = req'[d].dev
        BY <2>5, <2>7, <3>2, <4>1
      <4>3. QED
        BY <2>4, <4>2 DEF Seen
    <3>3. QED
      BY <3>1, <3>2
  <2>8. ASSUME NEW i \in DOMAIN decided', NewIn(decided[i])' PROVE Seen(decided[i].acct, decided[i].dev)' # {}
    <3>1. PICK x, y : x = decided[i].acct /\ y = decided[i].dev
      OBVIOUS
    <3>2. Seen(x, y) # {} /\ x = decided'[i].acct /\ y = decided'[i].dev
      BY <1>1, <2>6, <2>8, <3>1
    <3>3. QED
      BY <2>4, <3>2 DEF Seen
  <2>9. ASSUME NEW p \in Clients, NEW q \in Clients, New(req[p])', New(req[q])',
               req'[p].acct = req'[q].acct, req'[p].dev = req'[q].dev
        PROVE  p = q
    <3>1. CASE p = c \/ q = c
      BY <2>2, <2>5, <2>9, <3>1
    <3>2. CASE p # c /\ q # c
      <4>1. New(req[p]) /\ New(req[q]) /\ req[p].acct = req[q].acct /\ req[p].dev = req[q].dev
        BY <2>5, <2>9, <3>2
      <4>2. QED
        BY <4>1 DEF DeviceInv
    <3>3. QED
      BY <3>1, <3>2
  <2>10. ASSUME NEW p \in Clients, NEW i \in DOMAIN decided', New(req[p])', NewIn(decided[i])',
                req'[p].acct = decided'[i].acct, req'[p].dev = decided'[i].dev
         PROVE  FALSE
    <3>1. CASE p = c
      BY <2>2, <2>6, <2>10, <3>1
    <3>2. CASE p # c
      <4>1. New(req[p]) /\ NewIn(decided[i]) /\ i \in DOMAIN decided
            /\ req[p].acct = decided[i].acct /\ req[p].dev = decided[i].dev
        BY <1>1, <2>5, <2>6, <2>10, <3>2
      <4>2. QED
        BY <4>1 DEF DeviceInv
    <3>3. QED
      BY <3>1, <3>2
  <2>11. FirstSightOnce'
    BY <1>1 DEF DeviceInv, FirstSightOnce
  <2>12. QED
    BY <2>7, <2>8, <2>9, <2>10, <2>11 DEF DeviceInv
<1>5. CASE Step(c, [req[c] EXCEPT !.at = "decide", !.known = FALSE])
  <2>1. PICK r : r = [req[c] EXCEPT !.at = "decide", !.known = FALSE]
    OBVIOUS
  <2>2. req'[c] = r /\ req[c] \in RequestState
    BY <1>5, <2>1, Going, Tables
  <2>3. req'[c].at = "decide"
    BY <2>1, <2>2 DEF RequestState
  <2>4. QED
    BY <1>3, <1>4, <2>3, InsertDeviceStep
<1>6. QED
  BY <1>3, <1>5, InsertDeviceStep

\* The first sight passes from the request to its decision.
LEMMA DecidedDevice ==
  ASSUME TablesInv, DeviceInv, NEW c \in Clients, device' = device, Refuse(c), NEW x,
         DOMAIN decided' = DOMAIN decided \cup {Len(decided) + 1}, decided'[Len(decided) + 1] = x,
         \A k \in DOMAIN decided : decided'[k] = decided[k],
         NewIn(x) => New(req[c]) /\ x.acct = req[c].acct /\ x.dev = req[c].dev
  PROVE  DeviceInv'
<1>1. req'[c].at = "idle" /\ \A d \in Clients : d # c => req'[d] = req[d]
  BY GoingHome
<1>2. ASSUME NEW d \in Clients, New(req[d])' PROVE d # c /\ req'[d] = req[d] /\ New(req[d])
  <2>1. d # c
    BY <1>1, <1>2 DEF New
  <2>2. QED
    BY <1>1, <1>2, <2>1 DEF New
<1>3. PICK n : n = Len(decided) + 1
  OBVIOUS
<1>4. /\ DOMAIN decided' = DOMAIN decided \cup {n} /\ decided'[n] = x
      /\ \A k \in DOMAIN decided : decided'[k] = decided[k]
  BY <1>3
<1>5. \A a, v : Seen(a, v)' = Seen(a, v)
  BY DEF Seen
<1>6. ASSUME NEW d \in Clients, New(req[d])' PROVE Seen(req[d].acct, req[d].dev)' # {}
  <2>1. PICK a, v : a = req[d].acct /\ v = req[d].dev
    OBVIOUS
  <2>2. Seen(a, v) # {} /\ a = req'[d].acct /\ v = req'[d].dev
    BY <1>2, <1>6, <2>1 DEF DeviceInv
  <2>3. QED
    BY <2>2 DEF Seen
<1>7. NewIn(x) => Seen(x.acct, x.dev) # {}
  BY DEF DeviceInv
<1>8. ASSUME NEW i \in DOMAIN decided', NewIn(decided[i])' PROVE Seen(decided[i].acct, decided[i].dev)' # {}
  <2>1. PICK y : y = decided'[i]
    OBVIOUS
  <2>2. NewIn(y)
    BY <1>8, <2>1 DEF NewIn
  <2>3. Seen(y.acct, y.dev) # {}
    BY <1>4, <1>7, <2>1, <2>2 DEF DeviceInv
  <2>4. QED
    BY <2>1, <2>3 DEF Seen
<1>9. ASSUME NEW p \in Clients, NEW q \in Clients, New(req[p])', New(req[q])',
             req'[p].acct = req'[q].acct, req'[p].dev = req'[q].dev
      PROVE  p = q
  BY <1>2, <1>9 DEF DeviceInv
<1>10. ASSUME NEW p \in Clients, NEW i \in DOMAIN decided', New(req[p])', NewIn(decided[i])',
              req'[p].acct = decided'[i].acct, req'[p].dev = decided'[i].dev
       PROVE  FALSE
  <2>1. PICK y : y = decided'[i]
    OBVIOUS
  <2>2. NewIn(y) /\ p # c /\ New(req[p]) /\ req[p].acct = y.acct /\ req[p].dev = y.dev
    BY <1>2, <1>10, <2>1 DEF NewIn
  <2>3. CASE i \in DOMAIN decided
    BY <1>4, <2>1, <2>2, <2>3 DEF DeviceInv
  <2>4. CASE i = n
    <3>1. New(req[c]) /\ y.acct = req[c].acct /\ y.dev = req[c].dev
      BY <1>4, <2>1, <2>2, <2>4
    <3>2. QED
      BY <2>2, <3>1 DEF DeviceInv
  <2>5. QED
    BY <1>4, <2>3, <2>4
<1>11. ASSUME NEW i \in DOMAIN decided', NEW j \in DOMAIN decided', NewIn(decided'[i]), NewIn(decided'[j]),
              decided'[i].acct = decided'[j].acct, decided'[i].dev = decided'[j].dev
       PROVE  i = j
  <2>1. CASE i \in DOMAIN decided /\ j \in DOMAIN decided
    BY <1>4, <1>11, <2>1 DEF DeviceInv, FirstSightOnce, NewIn
  <2>2. CASE i = n /\ j \in DOMAIN decided
    <3>1. New(req[c]) /\ NewIn(decided[j]) /\ req[c].acct = decided[j].acct /\ req[c].dev = decided[j].dev
      BY <1>4, <1>11, <2>2
    <3>2. QED
      BY <2>2, <3>1 DEF DeviceInv
  <2>3. CASE j = n /\ i \in DOMAIN decided
    <3>1. New(req[c]) /\ NewIn(decided[i]) /\ req[c].acct = decided[i].acct /\ req[c].dev = decided[i].dev
      BY <1>4, <1>11, <2>3
    <3>2. QED
      BY <2>3, <3>1 DEF DeviceInv
  <2>4. QED
    BY <1>4, <2>1, <2>2, <2>3
<1>12. FirstSightOnce'
  BY <1>11 DEF FirstSightOnce, NewIn
<1>13. QED
  BY <1>6, <1>8, <1>9, <1>10, <1>12 DEF DeviceInv

LEMMA FindMailDevice ==
  ASSUME TablesInv, DeviceInv, NEW c \in Clients, FindMail(c)
  PROVE  DeviceInv'
<1>1. device' = device /\ UNCHANGED <<account, state>> /\ req[c].at = "find mail"
  BY DEF FindMail, db, social
<1>2. CASE decided' = decided
  <2>1. \A d \in Clients : req'[d].at = "decide" /\ ~req'[d].known => req'[d] = req[d]
    BY SocialPaths DEF Went
  <2>2. QED
    BY <1>1, <1>2, <2>1, NobodyNew
<1>3. ASSUME Refuse(c), NEW a \in DOMAIN account, decided' = Append(decided, Collision(req[c], a))
      PROVE  DeviceInv'
  <2>1. PICK x : x = Collision(req[c], a)
    OBVIOUS
  <2>2. x \in Decision /\ x.acct = a /\ x.decision = "collision"
    BY <1>1, <2>1, CollisionIs
  <2>3. /\ DOMAIN decided' = DOMAIN decided \cup {Len(decided) + 1} /\ decided'[Len(decided) + 1] = x
        /\ \A k \in DOMAIN decided : decided'[k] = decided[k]
    BY <1>1, <1>3, <2>1, <2>2, Decided
  <2>4. ~NewIn(x)
    BY <2>2 DEF NewIn
  <2>5. QED
    BY <1>1, <1>3, <2>3, <2>4, DecidedDevice
<1>4. QED
  BY <1>2, <1>3, FindMailStep

LEMMA PrimaryDecisionDevice ==
  ASSUME TablesInv, DeviceInv, NEW c \in Clients, PrimaryDecision(c)
  PROVE  DeviceInv'
<1>1. device' = device /\ UNCHANGED <<account, state>> /\ Refuse(c) /\ Placed(req[c]) /\ req[c].at = "decide"
  BY Tables DEF PrimaryDecision, db, social
<1>2. PICK x \in Decision : /\ decided' = Append(decided, x) /\ x.acct = req[c].acct
                            /\ x.dev = req[c].dev /\ x.known = req[c].known
  BY PrimaryDecisionStep
<1>3. x.acct \in DOMAIN account
  BY <1>1, <1>2 DEF Placed, ForAccount, OfDevice
<1>4. /\ DOMAIN decided' = DOMAIN decided \cup {Len(decided) + 1} /\ decided'[Len(decided) + 1] = x
      /\ \A k \in DOMAIN decided : decided'[k] = decided[k]
  BY <1>1, <1>2, <1>3, Decided
<1>5. NewIn(x) => New(req[c]) /\ x.acct = req[c].acct /\ x.dev = req[c].dev
  BY <1>1, <1>2 DEF New, NewIn
<1>6. QED
  BY <1>1, <1>4, <1>5, DecidedDevice

LEMMA LoginNextDevice ==
  ASSUME TablesInv, DeviceInv, [LoginNext]_lvars
  PROVE  DeviceInv'
<1>1. CASE StartOidc
  <2>1. UNCHANGED <<device, decided, req>>
    BY <1>1 DEF StartOidc, db, password, phone, social, rest
  <2>2. QED
    BY <2>1, NobodyNew
<1>2. ASSUME NEW c \in Clients, NEW dev \in Devices, NEW ip \in load.from, NEW m \in Mails, NEW guess \in 0..MaxPassword,
             LoginPassword(c, m, guess, dev, ip)
      PROVE  DeviceInv'
  <2>1. UNCHANGED <<device, decided>>
    BY <1>2 DEF LoginPassword, db, password, phone, social, rest
  <2>2. \A d \in Clients : req'[d].at = "decide" /\ ~req'[d].known => req'[d] = req[d]
    BY <1>2, PasswordPaths DEF Went
  <2>3. QED
    BY <2>1, <2>2, NobodyNew
<1>3. ASSUME NEW c \in Clients, NEW dev \in Devices, NEW ip \in load.from, NEW a \in DOMAIN account,
             NEW code \in {0, otp[a].gen}, LoginPhone(c, a, code, dev, ip)
      PROVE  DeviceInv'
  <2>1. UNCHANGED <<device, decided>>
    BY <1>3 DEF LoginPhone, db, password, phone, social, rest
  <2>2. \A d \in Clients : req'[d].at = "decide" /\ ~req'[d].known => req'[d] = req[d]
    BY <1>3, PhonePaths DEF Went
  <2>3. QED
    BY <2>1, <2>2, NobodyNew
<1>4. ASSUME NEW c \in Clients, NEW dev \in Devices, NEW ip \in load.from, NEW st \in DOMAIN state, NEW s \in Subjects,
             NEW ok \in BOOLEAN, LoginOidc(c, st, s, dev, ip, ok)
      PROVE  DeviceInv'
  <2>1. UNCHANGED <<device, decided>>
    BY <1>4 DEF LoginOidc, db, password, phone, social, rest
  <2>2. \A d \in Clients : req'[d].at = "decide" /\ ~req'[d].known => req'[d] = req[d]
    BY <1>4, OidcPath DEF Went
  <2>3. QED
    BY <2>1, <2>2, NobodyNew
<1>5. ASSUME NEW c \in Clients, NEW a \in DOMAIN account, RequestPhoneOtp(c, a)
      PROVE  DeviceInv'
  <2>1. UNCHANGED <<device, decided>>
    BY <1>5 DEF RequestPhoneOtp, db, password, phone, social, rest
  <2>2. \A d \in Clients : req'[d].at = "decide" /\ ~req'[d].known => req'[d] = req[d]
    BY <1>5, PhonePaths DEF Went
  <2>3. QED
    BY <2>1, <2>2, NobodyNew
<1>6. ASSUME NEW c \in Clients, NEW sent \in BOOLEAN, SendCode(c, sent)
      PROVE  DeviceInv'
  <2>1. UNCHANGED <<device, decided>>
    BY <1>6 DEF SendCode, db, password, phone, social, rest
  <2>2. \A d \in Clients : req'[d].at = "decide" /\ ~req'[d].known => req'[d] = req[d]
    BY <1>6, PhonePaths DEF Went
  <2>3. QED
    BY <2>1, <2>2, NobodyNew
<1>7. ASSUME NEW c \in Clients, ReadIdentity(c) \/ CountMail(c) \/ CountAddress(c) \/ LockLogin(c) \/ ResetAttempts(c) \/ Rehash(c)
      PROVE  DeviceInv'
  <2>1. UNCHANGED <<device, decided>>
    BY <1>7 DEF ReadIdentity, CountMail, CountAddress, LockLogin, ResetAttempts, Rehash, db, password, phone, social, rest
  <2>2. \A d \in Clients : req'[d].at = "decide" /\ ~req'[d].known => req'[d] = req[d]
    BY <1>7, PasswordPaths DEF Went
  <2>3. QED
    BY <2>1, <2>2, NobodyNew
<1>8. ASSUME NEW c \in Clients, StoreOtpHash(c) \/ ExpireOtpHash(c) \/ CheckCode(c)
      PROVE  DeviceInv'
  <2>1. UNCHANGED <<device, decided>>
    BY <1>8 DEF StoreOtpHash, ExpireOtpHash, CheckCode, db, password, phone, social, rest
  <2>2. \A d \in Clients : req'[d].at = "decide" /\ ~req'[d].known => req'[d] = req[d]
    BY <1>8, PhonePaths DEF Went
  <2>3. QED
    BY <2>1, <2>2, NobodyNew
<1>9. ASSUME NEW c \in Clients, FindIdentity(c) \/ ProvisionOidc(c)
      PROVE  DeviceInv'
  <2>1. UNCHANGED <<device, decided>>
    BY <1>9 DEF FindIdentity, ProvisionOidc, db, password, phone, social, rest
  <2>2. \A d \in Clients : req'[d].at = "decide" /\ ~req'[d].known => req'[d] = req[d]
    BY <1>9, SocialPaths DEF Went
  <2>3. QED
    BY <2>1, <2>2, NobodyNew
<1>10. ASSUME NEW c \in Clients, Stop(c)
      PROVE  DeviceInv'
  <2>1. UNCHANGED <<device, decided>>
    BY <1>10 DEF Stop, db, password, phone, social, rest
  <2>2. \A d \in Clients : req'[d].at = "decide" /\ ~req'[d].known => req'[d] = req[d]
    BY <1>10, DevicePaths DEF Went
  <2>3. QED
    BY <2>1, <2>2, NobodyNew
<1>11. ASSUME NEW s \in Counted, ExpireAttempts(s) \/ ExpireLock(s)
      PROVE  DeviceInv'
  <2>1. UNCHANGED <<device, decided, req>>
    BY <1>11 DEF ExpireAttempts, ExpireLock, db, password, phone, social, rest
  <2>2. QED
    BY <2>1, NobodyNew
<1>12. ASSUME NEW a \in DOMAIN account, ExpireOtp(a) \/ ExpireSends(a) \/ ResetPassword(a) \/ Suspend(a)
      PROVE  DeviceInv'
  <2>1. UNCHANGED <<device, decided, req>>
    BY <1>12 DEF ExpireOtp, ExpireSends, ResetPassword, Suspend, db, password, phone, social, rest
  <2>2. QED
    BY <2>1, NobodyNew
<1>13. ASSUME NEW st \in DOMAIN state, ExpireState(st)
      PROVE  DeviceInv'
  <2>1. UNCHANGED <<device, decided, req>>
    BY <1>13 DEF ExpireState, db, password, phone, social, rest
  <2>2. QED
    BY <2>1, NobodyNew
<1>14. ASSUME NEW m \in Mails, Register(m)
      PROVE  DeviceInv'
  <2>1. UNCHANGED <<device, decided, req>>
    BY <1>14 DEF Register, db, password, phone, social, rest
  <2>2. QED
    BY <2>1, NobodyNew
<1>15. CASE UNCHANGED lvars
  <2>1. UNCHANGED <<device, decided, req>>
    BY <1>15 DEF lvars
  <2>2. QED
    BY <2>1, NobodyNew
<1>16. ASSUME NEW c \in Clients, FindMail(c) \/ SelectDevice(c) \/ InsertDevice(c) \/ PrimaryDecision(c)
      PROVE  DeviceInv'
  BY <1>16, FindMailDevice, SelectDeviceDevice, InsertDeviceDevice, PrimaryDecisionDevice
<1>17. QED
  BY <1>1, <1>2, <1>3, <1>4, <1>5, <1>6, <1>7, <1>8, <1>9, <1>10, <1>11, <1>12, <1>13, <1>14, <1>15, <1>16
  DEF LoginNext

\* A device is new to an account once: of two logins that look it up before either has inserted it
\* the unique constraint lets only one through (device_signals).
THEOREM DevicesAreNewOnce == LoginSpec => []FirstSightOnce
<1>1. LoginInit => DeviceInv
  <2>1. SUFFICES ASSUME LoginInit PROVE DeviceInv
    OBVIOUS
  <2>2. \A c \in Clients : ~New(req[c])
    BY <2>1 DEF LoginInit, Idle, New
  <2>3. decided = <<>>
    BY <2>1 DEF LoginInit
  <2>4. QED
    BY <2>2, <2>3 DEF DeviceInv, FirstSightOnce
<1>2. TablesInv /\ DeviceInv /\ [LoginNext]_lvars => DeviceInv'
  BY LoginNextDevice
<1>3. DeviceInv => FirstSightOnce
  BY DEF DeviceInv
<1>4. QED
  BY <1>1, <1>2, <1>3, TablesStayTrue, PTL DEF LoginSpec
-----------------------------------------------------------------------------
(***************************************************************************)
(* Social logins.                                                          *)
(***************************************************************************)
\* States that are gone stay gone, and every social login keeps the one it took.
LEMMA SocialStays ==
  ASSUME TablesInv, SocialInv, decided' = decided, identity \subseteq identity',
         \A k \in DOMAIN state : k \in DOMAIN state' /\ (state[k] = "gone" => state'[k] = "gone"),
         \A d \in Clients : Social(req[d])' => Social(req[d]) /\ req'[d].guess = req[d].guess
  PROVE  SocialInv'
<1>1. ASSUME NEW c \in Clients, Social(req[c])' PROVE req'[c].guess \in DOMAIN state' /\ state'[req'[c].guess] = "gone"
  BY <1>1 DEF SocialInv
<1>2. ASSUME NEW i \in DOMAIN decided', decided'[i].via = "social"
      PROVE  /\ decided'[i].state \in DOMAIN state' /\ state'[decided'[i].state] = "gone"
             /\ decided'[i].decision # "collision" =>
                  <<decided'[i].sub, decided'[i].acct>> \in identity' /\ decided'[i].sub \in Subjects
             /\ \A c \in Clients : Social(req[c])' => req'[c].guess # decided'[i].state
             /\ \A j \in DOMAIN decided' : decided'[j].via = "social" /\ decided'[i].state = decided'[j].state => i = j
  <2>1. i \in DOMAIN decided /\ decided[i].via = "social"
    BY <1>2
  <2>2. /\ decided[i].state \in DOMAIN state /\ state[decided[i].state] = "gone"
        /\ decided[i].decision # "collision" =>
             <<decided[i].sub, decided[i].acct>> \in identity /\ decided[i].sub \in Subjects
        /\ \A c \in Clients : Social(req[c]) => req[c].guess # decided[i].state
        /\ \A j \in DOMAIN decided : decided[j].via = "social" /\ decided[i].state = decided[j].state => i = j
    BY <2>1 DEF SocialInv
  <2>3. QED
    BY <2>2
<1>3. ASSUME NEW c \in Clients, NEW d \in Clients, Social(req[c])', Social(req[d])', req'[c].guess = req'[d].guess
      PROVE  c = d
  BY <1>3 DEF SocialInv
<1>4. QED
  BY <1>1, <1>2, <1>3 DEF SocialInv

LEMMA OnlySocialMoves ==
  ASSUME TablesInv, SocialInv, UNCHANGED <<state, decided, identity>>,
         \A d \in Clients : Social(req[d])' => Social(req[d]) /\ req'[d].guess = req[d].guess
  PROVE  SocialInv'
<1>1. \A k \in DOMAIN state : k \in DOMAIN state' /\ (state[k] = "gone" => state'[k] = "gone")
  OBVIOUS
<1>2. identity \subseteq identity'
  OBVIOUS
<1>3. QED
  BY <1>1, <1>2, SocialStays

LEMMA NobodySocial ==
  ASSUME TablesInv, SocialInv, UNCHANGED <<state, decided, identity, req>>
  PROVE  SocialInv'
<1>1. \A d \in Clients : Social(req[d])' => Social(req[d]) /\ req'[d].guess = req[d].guess
  BY DEF Social
<1>2. QED
  BY <1>1, OnlySocialMoves

\* A request that goes where no social login is, or that another door led in.
LEMMA MovesApart ==
  ASSUME TablesInv, NEW c \in Clients, \A d \in Clients : d # c => req'[d] = req[d],
         req'[c].at \notin OfSocial \cup OfDevice \/ req'[c].via # "social"
  PROVE  \A d \in Clients : Social(req[d])' => Social(req[d]) /\ req'[d].guess = req[d].guess
BY DEF Social

LEMMA WentApart ==
  ASSUME TablesInv, NEW c \in Clients, NEW from, NEW to, Went(c, from, to),
         to \cap (OfSocial \cup OfDevice) = {}
  PROVE  \A d \in Clients : Social(req[d])' => Social(req[d]) /\ req'[d].guess = req[d].guess
<1>1. (\A d \in Clients : d # c => req'[d] = req[d]) /\ req'[c].at \notin OfSocial \cup OfDevice
  BY DEF Went
<1>2. QED
  BY <1>1, MovesApart

LEMMA OtherLabels ==
  /\ {"identity"} \cap (OfSocial \cup OfDevice) = {}
  /\ {"count mail", "reset"} \cap (OfSocial \cup OfDevice) = {}
  /\ {"count ip", "lock", "idle"} \cap (OfSocial \cup OfDevice) = {}
  /\ {"lock", "idle"} \cap (OfSocial \cup OfDevice) = {}
  /\ {"hset"} \cap (OfSocial \cup OfDevice) = {}
  /\ {"expire", "idle"} \cap (OfSocial \cup OfDevice) = {}
  /\ {"send"} \cap (OfSocial \cup OfDevice) = {}
  /\ {"idle"} \cap (OfSocial \cup OfDevice) = {}
  /\ {"check"} \cap (OfSocial \cup OfDevice) = {}
BY DEF OfSocial, OfDevice

\* Passwords and phone codes.
LEMMA NotSocial ==
  ASSUME TablesInv, NEW c \in Clients,
         \/ \E m, guess, dev, ip : LoginPassword(c, m, guess, dev, ip)
         \/ \E a, code, dev, ip : LoginPhone(c, a, code, dev, ip)
         \/ \E a : RequestPhoneOtp(c, a)
         \/ \E sent : SendCode(c, sent)
         \/ ReadIdentity(c) \/ CountMail(c) \/ CountAddress(c) \/ LockLogin(c) \/ ResetAttempts(c) \/ Rehash(c)
         \/ StoreOtpHash(c) \/ ExpireOtpHash(c) \/ CheckCode(c)
  PROVE  \A d \in Clients : Social(req[d])' => Social(req[d]) /\ req'[d].guess = req[d].guess
<1>1. CASE \E m, guess, dev, ip : LoginPassword(c, m, guess, dev, ip)
  BY <1>1, PasswordPaths, WentApart, OtherLabels
<1>2. CASE \E a, code, dev, ip : LoginPhone(c, a, code, dev, ip)
  BY <1>2, PhonePaths, WentApart, OtherLabels
<1>3. CASE \E a : RequestPhoneOtp(c, a)
  <2>1. CASE req' = req
    BY <2>1 DEF Social
  <2>2. QED
    BY <1>3, <2>1, PhonePaths, WentApart, OtherLabels
<1>4. CASE \E sent : SendCode(c, sent)
  BY <1>4, PhonePaths, WentApart, OtherLabels
<1>5. CASE ReadIdentity(c)
  BY <1>5, PasswordPaths, WentApart, OtherLabels
<1>6. CASE CountMail(c)
  BY <1>6, PasswordPaths, WentApart, OtherLabels
<1>7. CASE CountAddress(c) \/ LockLogin(c)
  BY <1>7, PasswordPaths, WentApart, OtherLabels
<1>8. CASE StoreOtpHash(c) \/ ExpireOtpHash(c)
  BY <1>8, PhonePaths, WentApart, OtherLabels
<1>9. CASE ResetAttempts(c) \/ Rehash(c)
  <2>1. Placed(req[c]) /\ req[c].at \in {"reset", "rehash"}
    BY <1>9, Tables DEF ResetAttempts, Rehash
  <2>2. req[c].via = "password"
    BY <2>1 DEF Placed, OfPassword
  <2>3. PICK label : Goto(c, label)
    BY <1>9 DEF ResetAttempts, Rehash
  <2>4. req'[c].via # "social" /\ \A d \in Clients : d # c => req'[d] = req[d]
    BY <2>2, <2>3, GoingTo
  <2>5. QED
    BY <2>4, MovesApart
<1>10. CASE CheckCode(c)
  <2>1. Placed(req[c]) /\ req[c].at = "check"
    BY <1>10, Tables DEF CheckCode
  <2>2. req[c].via = "phone"
    BY <2>1 DEF Placed
  <2>3. Refuse(c) \/ Goto(c, "device")
    BY <1>10, CheckedCode
  <2>4. CASE Goto(c, "device")
    <3>1. req'[c].via # "social" /\ \A d \in Clients : d # c => req'[d] = req[d]
      BY <2>2, <2>4, GoingTo
    <3>2. QED
      BY <3>1, MovesApart
  <2>5. CASE Refuse(c)
    <3>1. req'[c].at \notin OfSocial \cup OfDevice /\ \A d \in Clients : d # c => req'[d] = req[d]
      BY <2>5, GoingHome DEF OfSocial, OfDevice
    <3>2. QED
      BY <3>1, MovesApart
  <2>6. QED
    BY <2>3, <2>4, <2>5
<1>11. QED
  BY <1>1, <1>2, <1>3, <1>4, <1>5, <1>6, <1>7, <1>8, <1>9, <1>10

\* A social login on its way.
LEMMA StaySocial ==
  ASSUME TablesInv, NEW c \in Clients,
         \/ FindIdentity(c) \/ SelectDevice(c) \/ InsertDevice(c) \/ Stop(c) \/ ProvisionOidc(c)
         \/ FindMail(c) \/ PrimaryDecision(c)
  PROVE  \A d \in Clients : Social(req[d])' => Social(req[d]) /\ req'[d].guess = req[d].guess
<1>1. req[c] \in RequestState /\ Placed(req[c])
  BY Tables
<1>2. \A d \in Clients : d # c => req'[d] = req[d]
  BY SocialPaths, DevicePaths DEF Went
<1>3. ASSUME Social(req[c])' PROVE Social(req[c]) /\ req'[c].guess = req[c].guess
  <2>1. req'[c].at # "idle" /\ req'[c].via = "social"
    BY <1>3 DEF Social, OfSocial, OfDevice
  <2>2. CASE FindIdentity(c) \/ FindMail(c) \/ ProvisionOidc(c)
    <3>1. req[c].at \in OfSocial /\ req'[c].guess = req[c].guess
      BY <2>1, <2>2, SocialPaths DEF Went, OfSocial
    <3>2. req[c].via = "social"
      BY <1>1, <3>1 DEF Placed
    <3>3. QED
      BY <3>1, <3>2 DEF Social
  <2>3. CASE SelectDevice(c)
    BY <2>1, <2>3, DevicePaths DEF Went, Social, OfDevice
  <2>4. CASE InsertDevice(c)
    BY <2>1, <2>4, DevicePaths DEF Went, Social, OfDevice
  <2>5. CASE Stop(c) \/ PrimaryDecision(c)
    BY <2>1, <2>5, DevicePaths DEF Went
  <2>6. QED
    BY <2>2, <2>3, <2>4, <2>5
<1>4. QED
  BY <1>2, <1>3 DEF Social

\* The state a callback takes is nobody else's.
LEMMA LoginOidcSocial ==
  ASSUME TablesInv, SocialInv, NEW c \in Clients, NEW st \in DOMAIN state, NEW s \in Subjects, NEW dev \in Devices,
         NEW ip \in load.from, NEW ok \in BOOLEAN, LoginOidc(c, st, s, dev, ip, ok)
  PROVE  SocialInv'
<1>1. UNCHANGED <<decided, identity>> /\ TakeState(st) /\ state[st] = "live"
  BY DEF LoginOidc, db, rest
<1>2. DOMAIN state' = DOMAIN state /\ state'[st] = "gone" /\ \A k \in DOMAIN state : k # st => state'[k] = state[k]
  BY <1>1, StateTaken
<1>3. \A k \in DOMAIN state : k \in DOMAIN state' /\ (state[k] = "gone" => state'[k] = "gone")
  BY <1>2
<1>4. CASE req' = req
  <2>1. \A d \in Clients : Social(req[d])' => Social(req[d]) /\ req'[d].guess = req[d].guess
    BY <1>4 DEF Social
  <2>2. identity \subseteq identity'
    BY <1>1
  <2>3. QED
    BY <1>1, <1>3, <2>1, <2>2, SocialStays
<1>5. CASE /\ Went(c, {"idle"}, {"find"})
           /\ req'[c].via = "social" /\ req'[c].guess = st
  <2>1. \A d \in Clients : d # c => req'[d] = req[d]
    BY <1>5 DEF Went
  <2>2. ASSUME NEW d \in Clients, d # c, Social(req[d])'
        PROVE  /\ Social(req[d]) /\ req'[d].guess = req[d].guess /\ req[d].guess \in DOMAIN state
               /\ state[req[d].guess] = "gone" /\ req[d].guess # st
    <3>1. Social(req[d]) /\ req'[d] = req[d]
      BY <2>1, <2>2 DEF Social
    <3>2. req[d].guess \in DOMAIN state /\ state[req[d].guess] = "gone"
      BY <3>1 DEF SocialInv
    <3>3. QED
      BY <1>1, <3>1, <3>2
  <2>3. ASSUME NEW i \in DOMAIN decided, decided[i].via = "social"
        PROVE  decided[i].state \in DOMAIN state /\ state[decided[i].state] = "gone" /\ decided[i].state # st
    <3>1. decided[i].state \in DOMAIN state /\ state[decided[i].state] = "gone"
      BY <2>3 DEF SocialInv
    <3>2. QED
      BY <1>1, <3>1
  <2>4. ASSUME NEW d \in Clients, Social(req[d])'
        PROVE  req'[d].guess \in DOMAIN state' /\ state'[req'[d].guess] = "gone"
    BY <1>2, <1>5, <2>2, <2>4
  <2>5. ASSUME NEW i \in DOMAIN decided', decided'[i].via = "social"
        PROVE  /\ decided'[i].state \in DOMAIN state' /\ state'[decided'[i].state] = "gone"
               /\ decided'[i].decision # "collision" =>
                    <<decided'[i].sub, decided'[i].acct>> \in identity' /\ decided'[i].sub \in Subjects
               /\ \A d \in Clients : Social(req[d])' => req'[d].guess # decided'[i].state
               /\ \A j \in DOMAIN decided' : decided'[j].via = "social" /\ decided'[i].state = decided'[j].state => i = j
    <3>1. i \in DOMAIN decided /\ decided[i].via = "social"
      BY <1>1, <2>5
    <3>2. /\ decided[i].decision # "collision" =>
               <<decided[i].sub, decided[i].acct>> \in identity /\ decided[i].sub \in Subjects
          /\ \A d \in Clients : Social(req[d]) => req[d].guess # decided[i].state
          /\ \A j \in DOMAIN decided : decided[j].via = "social" /\ decided[i].state = decided[j].state => i = j
      BY <3>1 DEF SocialInv
    <3>3. decided[i].state \in DOMAIN state /\ state[decided[i].state] = "gone" /\ decided[i].state # st
      BY <2>3, <3>1
    <3>4. \A d \in Clients : Social(req[d])' => req'[d].guess # decided[i].state
      BY <1>5, <2>2, <3>2, <3>3
    <3>5. QED
      BY <1>1, <1>3, <3>2, <3>3, <3>4
  <2>6. ASSUME NEW p \in Clients, NEW q \in Clients, Social(req[p])', Social(req[q])', req'[p].guess = req'[q].guess
        PROVE  p = q
    <3>1. CASE p = c \/ q = c
      BY <1>5, <2>2, <2>6, <3>1
    <3>2. CASE p # c /\ q # c
      <4>1. Social(req[p]) /\ Social(req[q]) /\ req[p].guess = req[q].guess
        BY <2>2, <2>6, <3>2
      <4>2. QED
        BY <4>1 DEF SocialInv
    <3>3. QED
      BY <3>1, <3>2
  <2>7. QED
    BY <2>4, <2>5, <2>6 DEF SocialInv
<1>6. QED
  BY <1>4, <1>5, OidcPath

\* The state passes from the request to its decision.
LEMMA DecidedSocial ==
  ASSUME TablesInv, SocialInv, NEW c \in Clients, UNCHANGED <<state, identity>>, Refuse(c), NEW x,
         DOMAIN decided' = DOMAIN decided \cup {Len(decided) + 1}, decided'[Len(decided) + 1] = x,
         \A k \in DOMAIN decided : decided'[k] = decided[k],
         x.via = "social" => /\ Social(req[c]) /\ x.state = req[c].guess
                             /\ x.decision # "collision" => <<x.sub, x.acct>> \in identity /\ x.sub \in Subjects
  PROVE  SocialInv'
<1>1. req'[c].at = "idle" /\ \A d \in Clients : d # c => req'[d] = req[d]
  BY GoingHome
<1>2. ASSUME NEW d \in Clients, Social(req[d])' PROVE d # c /\ req'[d] = req[d] /\ Social(req[d])
  <2>1. d # c
    BY <1>1, <1>2 DEF Social, OfSocial, OfDevice
  <2>2. QED
    BY <1>1, <1>2, <2>1 DEF Social
<1>3. PICK n : n = Len(decided) + 1
  OBVIOUS
<1>4. /\ DOMAIN decided' = DOMAIN decided \cup {n} /\ decided'[n] = x
      /\ \A k \in DOMAIN decided : decided'[k] = decided[k]
  BY <1>3
<1>5. ASSUME NEW d \in Clients, Social(req[d])' PROVE req'[d].guess \in DOMAIN state' /\ state'[req'[d].guess] = "gone"
  BY <1>2, <1>5 DEF SocialInv
<1>6. ASSUME NEW d \in Clients, NEW e \in Clients, Social(req[d])', Social(req[e])', req'[d].guess = req'[e].guess
      PROVE  d = e
  BY <1>2, <1>6 DEF SocialInv
<1>7. ASSUME NEW i \in DOMAIN decided, decided[i].via = "social"
      PROVE  /\ decided[i].state \in DOMAIN state /\ state[decided[i].state] = "gone"
             /\ decided[i].decision # "collision" =>
                  <<decided[i].sub, decided[i].acct>> \in identity /\ decided[i].sub \in Subjects
             /\ \A d \in Clients : Social(req[d]) => req[d].guess # decided[i].state
             /\ \A j \in DOMAIN decided : decided[j].via = "social" /\ decided[i].state = decided[j].state => i = j
  BY <1>7 DEF SocialInv
<1>8. ASSUME x.via = "social"
      PROVE  /\ x.state \in DOMAIN state /\ state[x.state] = "gone"
             /\ \A d \in Clients : Social(req[d])' => req'[d].guess # x.state
             /\ \A i \in DOMAIN decided : decided[i].via = "social" => decided[i].state # x.state
  <2>1. Social(req[c]) /\ x.state = req[c].guess
    BY <1>8
  <2>2. \A d \in Clients : Social(req[d])' => req'[d].guess # x.state
    BY <1>2, <2>1 DEF SocialInv
  <2>3. x.state \in DOMAIN state /\ state[x.state] = "gone"
    BY <2>1 DEF SocialInv
  <2>4. \A i \in DOMAIN decided : decided[i].via = "social" => decided[i].state # x.state
    <3>1. SUFFICES ASSUME NEW i \in DOMAIN decided, decided[i].via = "social" PROVE decided[i].state # x.state
      OBVIOUS
    <3>2. \A d \in Clients : Social(req[d]) => req[d].guess # decided[i].state
      BY <1>7, <3>1
    <3>3. QED
      BY <2>1, <3>2
  <2>5. QED
    BY <2>2, <2>3, <2>4
<1>9. ASSUME NEW i \in DOMAIN decided', decided'[i].via = "social"
      PROVE  /\ decided'[i].state \in DOMAIN state' /\ state'[decided'[i].state] = "gone"
             /\ decided'[i].decision # "collision" =>
                  <<decided'[i].sub, decided'[i].acct>> \in identity' /\ decided'[i].sub \in Subjects
             /\ \A d \in Clients : Social(req[d])' => req'[d].guess # decided'[i].state
             /\ \A j \in DOMAIN decided' : decided'[j].via = "social" /\ decided'[i].state = decided'[j].state => i = j
  <2>1. CASE i \in DOMAIN decided
    <3>1. decided'[i] = decided[i] /\ decided[i].via = "social"
      BY <1>4, <1>9, <2>1
    <3>2. \A d \in Clients : Social(req[d])' => req'[d].guess # decided[i].state
      BY <1>2, <1>7, <2>1, <3>1
    <3>3. \A j \in DOMAIN decided' : decided'[j].via = "social" /\ decided'[i].state = decided'[j].state => i = j
      BY <1>4, <1>7, <1>8, <2>1, <3>1
    <3>4. QED
      BY <1>7, <2>1, <3>1, <3>2, <3>3
  <2>2. CASE i = n
    <3>1. decided'[i] = x /\ x.via = "social"
      BY <1>4, <1>9, <2>2
    <3>2. \A j \in DOMAIN decided' : decided'[j].via = "social" /\ decided'[i].state = decided'[j].state => i = j
      BY <1>4, <1>8, <2>2, <3>1
    <3>3. QED
      BY <1>8, <3>1, <3>2
  <2>3. QED
    BY <1>4, <2>1, <2>2
<1>10. QED
  BY <1>5, <1>6, <1>9 DEF SocialInv

LEMMA FindMailSocial ==
  ASSUME TablesInv, SocialInv, NEW c \in Clients, FindMail(c)
  PROVE  SocialInv'
<1>1. UNCHANGED <<account, state, identity, device>> /\ req[c].at = "find mail" /\ Placed(req[c])
  BY Tables DEF FindMail, db, social
<1>2. CASE decided' = decided
  <2>1. \A d \in Clients : Social(req[d])' => Social(req[d]) /\ req'[d].guess = req[d].guess
    BY StaySocial
  <2>2. QED
    BY <1>1, <1>2, <2>1, OnlySocialMoves
<1>3. ASSUME Refuse(c), NEW a \in DOMAIN account, decided' = Append(decided, Collision(req[c], a))
      PROVE  SocialInv'
  <2>1. PICK x : x = Collision(req[c], a)
    OBVIOUS
  <2>2. x \in Decision /\ x.acct = a /\ x.decision = "collision" /\ x.via = "social" /\ x.state = req[c].guess
    BY <1>1, <2>1, CollisionIs
  <2>3. /\ DOMAIN decided' = DOMAIN decided \cup {Len(decided) + 1} /\ decided'[Len(decided) + 1] = x
        /\ \A k \in DOMAIN decided : decided'[k] = decided[k]
    BY <1>1, <1>3, <2>1, <2>2, Decided
  <2>4. Social(req[c])
    BY <1>1 DEF Social, Placed, OfSocial
  <2>5. x.via = "social" => /\ Social(req[c]) /\ x.state = req[c].guess
                            /\ x.decision # "collision" => <<x.sub, x.acct>> \in identity /\ x.sub \in Subjects
    BY <2>2, <2>4
  <2>6. QED
    BY <1>1, <1>3, <2>3, <2>5, DecidedSocial
<1>4. QED
  BY <1>2, <1>3, FindMailStep

LEMMA ProvisionOidcSocial ==
  ASSUME TablesInv, SocialInv, NEW c \in Clients, ProvisionOidc(c)
  PROVE  SocialInv'
<1>1. UNCHANGED <<state, decided>>
  BY DEF ProvisionOidc, social, rest
<1>2. \A k \in DOMAIN state : k \in DOMAIN state' /\ (state[k] = "gone" => state'[k] = "gone")
  BY <1>1
<1>3. identity \subseteq identity'
  BY ProvisionOidcStep
<1>4. \A d \in Clients : Social(req[d])' => Social(req[d]) /\ req'[d].guess = req[d].guess
  BY StaySocial
<1>5. QED
  BY <1>1, <1>2, <1>3, <1>4, SocialStays

LEMMA PrimaryDecisionSocial ==
  ASSUME TablesInv, SocialInv, NEW c \in Clients, PrimaryDecision(c)
  PROVE  SocialInv'
<1>1. UNCHANGED <<account, state, identity, device>> /\ Refuse(c) /\ Placed(req[c]) /\ req[c].at = "decide"
  BY Tables DEF PrimaryDecision, db, social
<1>2. PICK x \in Decision : /\ decided' = Append(decided, x) /\ x.via = req[c].via /\ x.acct = req[c].acct
                            /\ x.sub = req[c].sub
                            /\ x.via = "social" => x.state = req[c].guess
  BY PrimaryDecisionStep
<1>3. x.acct \in DOMAIN account
  BY <1>1, <1>2 DEF Placed, ForAccount, OfDevice
<1>4. /\ DOMAIN decided' = DOMAIN decided \cup {Len(decided) + 1} /\ decided'[Len(decided) + 1] = x
      /\ \A k \in DOMAIN decided : decided'[k] = decided[k]
  BY <1>1, <1>2, <1>3, Decided
<1>5. ASSUME x.via = "social"
      PROVE  /\ Social(req[c]) /\ x.state = req[c].guess
             /\ x.decision # "collision" => <<x.sub, x.acct>> \in identity /\ x.sub \in Subjects
  <2>1. <<req[c].sub, req[c].acct>> \in identity /\ req[c].sub \in Subjects
    BY <1>1, <1>2, <1>5 DEF Placed, OfDevice
  <2>2. QED
    BY <1>1, <1>2, <1>5, <2>1 DEF Social, OfDevice
<1>6. QED
  BY <1>1, <1>4, <1>5, DecidedSocial

LEMMA LoginNextSocial ==
  ASSUME TablesInv, SocialInv, [LoginNext]_lvars
  PROVE  SocialInv'
<1>1. CASE StartOidc
  <2>1. UNCHANGED <<decided, identity, req>>
    BY <1>1 DEF StartOidc, db, password, phone, social, rest
  <2>2. \A k \in DOMAIN state : k \in DOMAIN state' /\ (state[k] = "gone" => state'[k] = "gone")
    BY <1>1, StartOidcStep
  <2>3. \A d \in Clients : Social(req[d])' => Social(req[d]) /\ req'[d].guess = req[d].guess
    BY <2>1 DEF Social
  <2>4. QED
    BY <2>1, <2>2, <2>3, SocialStays
<1>2. ASSUME NEW c \in Clients, NEW dev \in Devices, NEW ip \in load.from, NEW m \in Mails, NEW guess \in 0..MaxPassword,
             LoginPassword(c, m, guess, dev, ip)
      PROVE  SocialInv'
  <2>1. UNCHANGED <<state, decided, identity>>
    BY <1>2 DEF LoginPassword, db, password, phone, social, rest
  <2>2. \A d \in Clients : Social(req[d])' => Social(req[d]) /\ req'[d].guess = req[d].guess
    BY <1>2, NotSocial
  <2>3. QED
    BY <2>1, <2>2, OnlySocialMoves
<1>3. ASSUME NEW c \in Clients, NEW dev \in Devices, NEW ip \in load.from, NEW a \in DOMAIN account,
             NEW code \in {0, otp[a].gen}, LoginPhone(c, a, code, dev, ip)
      PROVE  SocialInv'
  <2>1. UNCHANGED <<state, decided, identity>>
    BY <1>3 DEF LoginPhone, db, password, phone, social, rest
  <2>2. \A d \in Clients : Social(req[d])' => Social(req[d]) /\ req'[d].guess = req[d].guess
    BY <1>3, NotSocial
  <2>3. QED
    BY <2>1, <2>2, OnlySocialMoves
<1>4. ASSUME NEW c \in Clients, NEW a \in DOMAIN account, RequestPhoneOtp(c, a)
      PROVE  SocialInv'
  <2>1. UNCHANGED <<state, decided, identity>>
    BY <1>4 DEF RequestPhoneOtp, db, password, phone, social, rest
  <2>2. \A d \in Clients : Social(req[d])' => Social(req[d]) /\ req'[d].guess = req[d].guess
    BY <1>4, NotSocial
  <2>3. QED
    BY <2>1, <2>2, OnlySocialMoves
<1>5. ASSUME NEW c \in Clients, NEW sent \in BOOLEAN, SendCode(c, sent)
      PROVE  SocialInv'
  <2>1. UNCHANGED <<state, decided, identity>>
    BY <1>5 DEF SendCode, db, password, phone, social, rest
  <2>2. \A d \in Clients : Social(req[d])' => Social(req[d]) /\ req'[d].guess = req[d].guess
    BY <1>5, NotSocial
  <2>3. QED
    BY <2>1, <2>2, OnlySocialMoves
<1>6. ASSUME NEW c \in Clients, ReadIdentity(c) \/ CountMail(c) \/ CountAddress(c) \/ LockLogin(c) \/ ResetAttempts(c) \/ Rehash(c)
      PROVE  SocialInv'
  <2>1. UNCHANGED <<state, decided, identity>>
    BY <1>6 DEF ReadIdentity, CountMail, CountAddress, LockLogin, ResetAttempts, Rehash, db, password, phone, social, rest
  <2>2. \A d \in Clients : Social(req[d])' => Social(req[d]) /\ req'[d].guess = req[d].guess
    BY <1>6, NotSocial
  <2>3. QED
    BY <2>1, <2>2, OnlySocialMoves
<1>7. ASSUME NEW c \in Clients, StoreOtpHash(c) \/ ExpireOtpHash(c) \/ CheckCode(c)
      PROVE  SocialInv'
  <2>1. UNCHANGED <<state, decided, identity>>
    BY <1>7 DEF StoreOtpHash, ExpireOtpHash, CheckCode, db, password, phone, social, rest
  <2>2. \A d \in Clients : Social(req[d])' => Social(req[d]) /\ req'[d].guess = req[d].guess
    BY <1>7, NotSocial
  <2>3. QED
    BY <2>1, <2>2, OnlySocialMoves
<1>8. ASSUME NEW c \in Clients, FindIdentity(c) \/ SelectDevice(c) \/ InsertDevice(c) \/ Stop(c)
      PROVE  SocialInv'
  <2>1. UNCHANGED <<state, decided, identity>>
    BY <1>8 DEF FindIdentity, SelectDevice, InsertDevice, Stop, db, password, phone, social, rest
  <2>2. \A d \in Clients : Social(req[d])' => Social(req[d]) /\ req'[d].guess = req[d].guess
    BY <1>8, StaySocial
  <2>3. QED
    BY <2>1, <2>2, OnlySocialMoves
<1>9. ASSUME NEW c \in Clients, NEW dev \in Devices, NEW ip \in load.from, NEW st \in DOMAIN state, NEW s \in Subjects,
             NEW ok \in BOOLEAN, LoginOidc(c, st, s, dev, ip, ok)
      PROVE  SocialInv'
  BY <1>9, LoginOidcSocial
<1>10. ASSUME NEW c \in Clients, FindMail(c) \/ ProvisionOidc(c) \/ PrimaryDecision(c)
      PROVE  SocialInv'
  BY <1>10, FindMailSocial, ProvisionOidcSocial, PrimaryDecisionSocial
<1>11. ASSUME NEW s \in Counted, ExpireAttempts(s) \/ ExpireLock(s)
      PROVE  SocialInv'
  <2>1. UNCHANGED <<state, decided, identity, req>>
    BY <1>11 DEF ExpireAttempts, ExpireLock, db, password, phone, social, rest
  <2>2. QED
    BY <2>1, NobodySocial
<1>12. ASSUME NEW a \in DOMAIN account, ExpireOtp(a) \/ ExpireSends(a) \/ ResetPassword(a) \/ Suspend(a)
      PROVE  SocialInv'
  <2>1. UNCHANGED <<state, decided, identity, req>>
    BY <1>12 DEF ExpireOtp, ExpireSends, ResetPassword, Suspend, db, password, phone, social, rest
  <2>2. QED
    BY <2>1, NobodySocial
<1>13. ASSUME NEW st \in DOMAIN state, ExpireState(st)
      PROVE  SocialInv'
  <2>1. UNCHANGED <<decided, identity, req>> /\ TakeState(st)
    BY <1>13 DEF ExpireState, TakeState, db, password, phone, social, rest
  <2>2. \A k \in DOMAIN state : k \in DOMAIN state' /\ (state[k] = "gone" => state'[k] = "gone")
    BY <2>1, StateTaken
  <2>3. \A d \in Clients : Social(req[d])' => Social(req[d]) /\ req'[d].guess = req[d].guess
    BY <2>1 DEF Social
  <2>4. QED
    BY <2>1, <2>2, <2>3, SocialStays
<1>14. ASSUME NEW m \in Mails, Register(m)
      PROVE  SocialInv'
  <2>1. UNCHANGED <<state, decided, identity, req>>
    BY <1>14 DEF Register, db, password, phone, social, rest
  <2>2. QED
    BY <2>1, NobodySocial
<1>15. CASE UNCHANGED lvars
  <2>1. UNCHANGED <<state, decided, identity, req>>
    BY <1>15 DEF lvars
  <2>2. QED
    BY <2>1, NobodySocial
<1>16. QED
  BY <1>1, <1>2, <1>3, <1>4, <1>5, <1>6, <1>7, <1>8, <1>9, <1>10, <1>11, <1>12, <1>13, <1>14, <1>15
  DEF LoginNext

LEMMA AtMostOne ==
  ASSUME NEW S, \A x, y \in S : x = y
  PROVE  Cardinality(S) <= 1
<1>1. CASE S = {}
  <2>1. Cardinality({}) = 0
    BY FS_EmptySet
  <2>2. QED
    BY <1>1, <2>1
<1>2. CASE S # {}
  <2>1. PICK x : x \in S
    BY <1>2
  <2>2. S = {x}
    BY <2>1
  <2>3. Cardinality({x}) = 1
    BY FS_Singleton
  <2>4. QED
    BY <2>2, <2>3
<1>3. QED
  BY <1>1, <1>2

LEMMA SocialFollows ==
  ASSUME TablesInv, SocialInv
  PROVE  SocialLogins
<1>1. \A i, j \in DOMAIN decided : decided[i].via = "social" /\ decided[j].via = "social"
                                   /\ decided[i].state = decided[j].state => i = j
  BY DEF SocialInv
<1>2. ASSUME NEW i \in DOMAIN decided, decided[i].via = "social", decided[i].decision # "collision"
      PROVE  Linked(decided[i].sub) = {decided[i].acct}
  <2>1. PICK s, a : s = decided[i].sub /\ a = decided[i].acct
    OBVIOUS
  <2>2. <<s, a>> \in identity /\ s \in Subjects
    BY <1>2, <2>1 DEF SocialInv
  <2>3. a \in DOMAIN account
    BY <2>1 DEF TablesInv, Decisions
  <2>4. \A b \in DOMAIN account : <<s, b>> \in identity => b = a
    BY <2>2, <2>3 DEF TablesInv, Users, UniqueSubjects
  <2>5. Linked(s) = {a}
    BY <2>2, <2>3, <2>4 DEF Linked
  <2>6. QED
    BY <2>1, <2>5
<1>3. ASSUME NEW m \in Mails PROVE Cardinality(Accounts(m)) <= 1
  <2>1. \A a, b \in Accounts(m) : a = b
    BY DEF Accounts, TablesInv, Users, UniqueMails
  <2>2. QED
    BY <2>1, AtMostOne
<1>4. QED
  BY <1>1, <1>2, <1>3 DEF SocialLogins

\* However callbacks and registrations overlap, a social login's state leads to one decision, for
\* the account its subject is linked to, and no address gets two accounts: GETDEL and the unique
\* indexes decide every race (login_oidc, provision_oidc).
THEOREM SocialLoginsAreSingle == LoginSpec => []SocialLogins
<1>1. LoginInit => SocialInv
  <2>1. SUFFICES ASSUME LoginInit PROVE SocialInv
    OBVIOUS
  <2>2. \A c \in Clients : ~Social(req[c])
    BY <2>1 DEF LoginInit, Idle, Social, OfSocial, OfDevice
  <2>3. decided = <<>>
    BY <2>1 DEF LoginInit
  <2>4. QED
    BY <2>2, <2>3 DEF SocialInv
<1>2. TablesInv /\ SocialInv /\ [LoginNext]_lvars => SocialInv'
  BY LoginNextSocial
<1>3. TablesInv /\ SocialInv => SocialLogins
  BY SocialFollows
<1>4. QED
  BY <1>1, <1>2, <1>3, TablesStayTrue, PTL DEF LoginSpec
-----------------------------------------------------------------------------
(***************************************************************************)
(* The comparisons with a code.                                            *)
(***************************************************************************)
\* No code is drawn or compared, and those that stay keep their counter.
LEMMA TriesStay ==
  ASSUME TablesInv, TriesInv, UNCHANGED <<tries, drawn>>,
         \A a \in DOMAIN otp' : otp'[a].gen # 0 =>
           a \in DOMAIN otp /\ otp'[a].gen = otp[a].gen /\ otp'[a].attempts = otp[a].attempts
  PROVE  TriesInv'
<1>1. \A a, b \in DOMAIN otp' : otp'[a].gen = otp'[b].gen /\ otp'[a].gen # 0 => a = b
  BY DEF TriesInv
<1>2. \A a \in DOMAIN otp' : otp'[a].gen # 0 => /\ tries'[otp'[a].gen].right = 0
                                              /\ tries'[otp'[a].gen].wrong = otp'[a].attempts
  BY DEF TriesInv
<1>3. QED
  BY <1>1, <1>2 DEF TriesInv

LEMMA NothingTried ==
  ASSUME TablesInv, TriesInv, UNCHANGED <<tries, drawn, otp>>
  PROVE  TriesInv'
BY TriesStay

LEMMA CodeGone ==
  ASSUME TablesInv, TriesInv, UNCHANGED <<tries, drawn>>, NEW a, DOMAIN otp' = DOMAIN otp,
         otp'[a] = NoCode \/ otp'[a] = otp[a], \A k \in DOMAIN otp : k # a => otp'[k] = otp[k]
  PROVE  TriesInv'
<1>1. \A k \in DOMAIN otp' : otp'[k].gen # 0 =>
           k \in DOMAIN otp /\ otp'[k].gen = otp[k].gen /\ otp'[k].attempts = otp[k].attempts
  BY NoCodeIs
<1>2. QED
  BY <1>1, TriesStay

LEMMA SendCodeTries ==
  ASSUME TablesInv, TriesInv, NEW c \in Clients, NEW sent \in BOOLEAN, SendCode(c, sent)
  PROVE  TriesInv'
<1>1. UNCHANGED <<tries, drawn>>
  BY DEF SendCode
<1>2. PICK a : a = req[c].acct
  OBVIOUS
<1>3. /\ DOMAIN otp' = DOMAIN otp /\ (otp'[a] = NoCode \/ otp'[a] = otp[a])
      /\ \A k \in DOMAIN otp : k # a => otp'[k] = otp[k]
  BY <1>2, SentCode
<1>4. QED
  BY <1>1, <1>3, CodeGone

LEMMA ExpireOtpTries ==
  ASSUME TablesInv, TriesInv, NEW a \in DOMAIN account, ExpireOtp(a)
  PROVE  TriesInv'
<1>1. UNCHANGED <<tries, drawn, account>> /\ otp' = [otp EXCEPT ![a] = NoCode]
  BY DEF ExpireOtp, db
<1>2. /\ DOMAIN otp' = DOMAIN otp /\ otp'[a] = NoCode
      /\ \A k \in DOMAIN otp : k # a => otp'[k] = otp[k]
  BY <1>1, CodeGoes
<1>3. QED
  BY <1>1, <1>2, CodeGone

LEMMA ExpireOtpHashTries ==
  ASSUME TablesInv, TriesInv, NEW c \in Clients, ExpireOtpHash(c)
  PROVE  TriesInv'
<1>1. UNCHANGED <<tries, drawn>>
  BY DEF ExpireOtpHash
<1>2. PICK a : a = req[c].acct
  OBVIOUS
<1>3. /\ DOMAIN otp' = DOMAIN otp /\ otp'[a].gen = otp[a].gen /\ otp'[a].attempts = otp[a].attempts
      /\ \A k \in DOMAIN otp : k # a => otp'[k] = otp[k]
  BY <1>2, ExpiringCode
<1>4. \A k \in DOMAIN otp' : otp'[k].gen # 0 =>
           k \in DOMAIN otp /\ otp'[k].gen = otp[k].gen /\ otp'[k].attempts = otp[k].attempts
  BY <1>3
<1>5. QED
  BY <1>1, <1>4, TriesStay

LEMMA JoiningTries ==
  ASSUME TablesInv, TriesInv, UNCHANGED <<tries, drawn>>, NEW n, DOMAIN otp' = DOMAIN otp \cup {n}, otp'[n] = NoCode,
         \A k \in DOMAIN account : otp'[k] = otp[k]
  PROVE  TriesInv'
<1>1. DOMAIN otp = DOMAIN account
  BY Tables
<1>2. \A k \in DOMAIN otp' : otp'[k].gen # 0 =>
           k \in DOMAIN otp /\ otp'[k].gen = otp[k].gen /\ otp'[k].attempts = otp[k].attempts
  BY <1>1, NoCodeIs
<1>3. QED
  BY <1>2, TriesStay

LEMMA ProvisionOidcTries ==
  ASSUME TablesInv, TriesInv, NEW c \in Clients, ProvisionOidc(c)
  PROVE  TriesInv'
<1>1. UNCHANGED <<tries, drawn>>
  BY DEF ProvisionOidc
<1>2. PICK n : n = Len(account) + 1
  OBVIOUS
<1>3. CASE otp' = otp
  BY <1>1, <1>3, NothingTried
<1>4. CASE /\ DOMAIN otp' = DOMAIN otp \cup {n} /\ otp'[n] = NoCode
           /\ \A k \in DOMAIN account : otp'[k] = otp[k]
  BY <1>1, <1>4, JoiningTries
<1>5. QED
  BY <1>2, <1>3, <1>4, ProvisionOidcStep

LEMMA RegisterTries ==
  ASSUME TablesInv, TriesInv, NEW m \in Mails, Register(m)
  PROVE  TriesInv'
<1>1. UNCHANGED <<tries, drawn>>
  BY DEF Register
<1>2. PICK n : n = Len(account) + 1
  OBVIOUS
<1>3. /\ DOMAIN otp' = DOMAIN otp \cup {n} /\ otp'[n] = NoCode
      /\ \A k \in DOMAIN account : otp'[k] = otp[k]
  BY <1>2, RegisterStep
<1>4. QED
  BY <1>1, <1>3, JoiningTries

\* A code that is drawn is nobody else's and has not been compared.
LEMMA StoreOtpHashTries ==
  ASSUME TablesInv, TriesInv, NEW c \in Clients, StoreOtpHash(c)
  PROVE  TriesInv'
<1>1. tries' = tries
  BY DEF StoreOtpHash
<1>2. PICK a : a = req[c].acct
  OBVIOUS
<1>3. CASE ~account[a].active
  <2>1. UNCHANGED <<drawn, otp>>
    BY <1>2, <1>3 DEF StoreOtpHash
  <2>2. QED
    BY <1>1, <2>1, NothingTried
<1>4. CASE account[a].active
  <2>1. /\ drawn' = drawn + 1 /\ drawn < MaxCodes /\ drawn \in Nat
        /\ DOMAIN otp' = DOMAIN otp /\ otp'[a].gen = drawn + 1 /\ otp'[a].attempts = 0
        /\ \A k \in DOMAIN otp : k # a => otp'[k] = otp[k]
    BY <1>2, <1>4, StoredCode
  <2>2. drawn' <= MaxCodes /\ drawn + 1 \in 1..MaxCodes
    BY <2>1, LoginAssumption
  <2>3. \A k \in DOMAIN otp : otp[k].gen \in Nat /\ otp[k].gen # drawn + 1
    <3>1. SUFFICES ASSUME NEW k \in DOMAIN otp PROVE otp[k].gen \in Nat /\ otp[k].gen # drawn + 1
      OBVIOUS
    <3>2. otp[k] \in CodeRow /\ otp[k].gen <= drawn
      BY DEF TablesInv, Codes
    <3>3. otp[k].gen \in Nat
      BY <3>2 DEF CodeRow
    <3>4. QED
      BY <2>1, <3>2, <3>3
  <2>4. \A x, y \in DOMAIN otp' : otp'[x].gen = otp'[y].gen /\ otp'[x].gen # 0 => x = y
    <3>1. SUFFICES ASSUME NEW x \in DOMAIN otp, NEW y \in DOMAIN otp, otp'[x].gen = otp'[y].gen, otp'[x].gen # 0
                   PROVE  x = y
      BY <2>1
    <3>2. CASE x = a \/ y = a
      BY <2>1, <2>3, <3>1, <3>2
    <3>3. CASE x # a /\ y # a
      BY <2>1, <3>1, <3>3 DEF TriesInv
    <3>4. QED
      BY <3>2, <3>3
  <2>5. tries[drawn + 1].right = 0 /\ tries[drawn + 1].wrong = 0
    <3>1. drawn + 1 > drawn
      BY <2>1
    <3>2. QED
      BY <2>2, <3>1 DEF TriesInv
  <2>6. \A x \in DOMAIN otp' : otp'[x].gen # 0 => /\ tries'[otp'[x].gen].right = 0
                                                /\ tries'[otp'[x].gen].wrong = otp'[x].attempts
    <3>1. SUFFICES ASSUME NEW x \in DOMAIN otp, otp'[x].gen # 0
                   PROVE  tries[otp'[x].gen].right = 0 /\ tries[otp'[x].gen].wrong = otp'[x].attempts
      BY <1>1, <2>1
    <3>2. CASE x = a
      BY <2>1, <2>5, <3>2
    <3>3. CASE x # a
      BY <2>1, <3>1, <3>3 DEF TriesInv
    <3>4. QED
      BY <3>2, <3>3
  <2>7. \A g \in 1..MaxCodes : g > drawn' => tries'[g].right = 0 /\ tries'[g].wrong = 0
    <3>1. SUFFICES ASSUME NEW g \in 1..MaxCodes, g > drawn' PROVE tries[g].right = 0 /\ tries[g].wrong = 0
      BY <1>1
    <3>2. g > drawn
      BY <2>1, <3>1, LoginAssumption
    <3>3. QED
      BY <3>2 DEF TriesInv
  <2>8. QED
    BY <1>1, <2>2, <2>4, <2>6, <2>7 DEF TriesInv
<1>5. QED
  BY <1>3, <1>4

\* One comparison: the counts of code g.
LEMMA OneTry ==
  ASSUME TriesInv, NEW g \in 1..MaxCodes, Accepts(g) \/ Rejects(g)
  PROVE  /\ tries' \in [1..MaxCodes -> [wrong : Nat, right : Nat]]
         /\ \A h \in 1..MaxCodes : h # g => tries'[h] = tries[h]
         /\ tries[g].wrong \in Nat /\ tries[g].right \in Nat
         /\ Accepts(g) => tries'[g].right = tries[g].right + 1 /\ tries'[g].wrong = tries[g].wrong
         /\ Rejects(g) => tries'[g].wrong = tries[g].wrong + 1 /\ tries'[g].right = tries[g].right
<1>1. tries \in [1..MaxCodes -> [wrong : Nat, right : Nat]]
  BY DEF TriesInv
<1>2. PICK t : t = tries[g]
  OBVIOUS
<1>3. t \in [wrong : Nat, right : Nat] /\ t.wrong \in Nat /\ t.right \in Nat /\ t.wrong + 1 \in Nat /\ t.right + 1 \in Nat
  BY <1>1, <1>2
<1>4. ASSUME Accepts(g)
      PROVE  /\ tries' \in [1..MaxCodes -> [wrong : Nat, right : Nat]]
             /\ \A h \in 1..MaxCodes : h # g => tries'[h] = tries[h]
             /\ tries'[g].right = t.right + 1 /\ tries'[g].wrong = t.wrong
  <2>1. PICK x : x = [t EXCEPT !.right = t.right + 1]
    OBVIOUS
  <2>2. x \in [wrong : Nat, right : Nat] /\ x.right = t.right + 1 /\ x.wrong = t.wrong
    BY <1>3, <2>1
  <2>3. tries' = [tries EXCEPT ![g] = x]
    BY <1>1, <1>2, <1>4, <2>1 DEF Accepts
  <2>4. QED
    BY <1>1, <2>2, <2>3
<1>5. ASSUME Rejects(g)
      PROVE  /\ tries' \in [1..MaxCodes -> [wrong : Nat, right : Nat]]
             /\ \A h \in 1..MaxCodes : h # g => tries'[h] = tries[h]
             /\ tries'[g].wrong = t.wrong + 1 /\ tries'[g].right = t.right
  <2>1. PICK x : x = [t EXCEPT !.wrong = t.wrong + 1]
    OBVIOUS
  <2>2. x \in [wrong : Nat, right : Nat] /\ x.wrong = t.wrong + 1 /\ x.right = t.right
    BY <1>3, <2>1
  <2>3. tries' = [tries EXCEPT ![g] = x]
    BY <1>1, <1>2, <1>5, <2>1 DEF Rejects
  <2>4. QED
    BY <1>1, <2>2, <2>3
<1>6. QED
  BY <1>2, <1>3, <1>4, <1>5

\* The script counts a comparison before it answers, and takes the key away with the last one.
LEMMA CheckCodeTries ==
  ASSUME TablesInv, TriesInv, NEW c \in Clients, CheckCode(c)
  PROVE  TriesInv'
<1>1. drawn' = drawn
  BY DEF CheckCode
<1>2. PICK a, g : a = req[c].acct /\ g = otp[a].gen
  OBVIOUS
<1>3. /\ a \in DOMAIN account /\ DOMAIN otp' = DOMAIN otp
      /\ \A k \in DOMAIN otp : k # a => otp'[k] = otp[k]
  BY <1>2, CheckedCode
<1>4. a \in DOMAIN otp /\ otp[a] \in CodeRow /\ g <= drawn /\ drawn \in Nat
  BY <1>2, <1>3, Tables DEF TablesInv, Codes
<1>5. g \in Nat /\ otp[a].attempts \in 0..(OtpAttempts - 1)
  BY <1>2, <1>4 DEF CodeRow
<1>6. CASE otp' = otp /\ tries' = tries
  BY <1>1, <1>6, NothingTried
<1>7. ASSUME g # 0,
             \/ otp'[a] = NoCode
             \/ /\ otp'[a].gen = g /\ otp'[a].attempts = otp[a].attempts + 1 /\ Rejects(g),
             Accepts(g) \/ Rejects(g)
      PROVE  TriesInv'
  <2>1. g \in 1..MaxCodes
    <3>1. drawn <= MaxCodes
      BY DEF TriesInv
    <3>2. QED
      BY <1>4, <1>5, <1>7, <3>1, LoginAssumption
  <2>2. /\ tries' \in [1..MaxCodes -> [wrong : Nat, right : Nat]]
        /\ \A h \in 1..MaxCodes : h # g => tries'[h] = tries[h]
        /\ Accepts(g) => tries'[g].right = tries[g].right + 1 /\ tries'[g].wrong = tries[g].wrong
        /\ Rejects(g) => tries'[g].wrong = tries[g].wrong + 1 /\ tries'[g].right = tries[g].right
    BY <1>7, <2>1, OneTry
  <2>3. tries[g].right = 0 /\ tries[g].wrong = otp[a].attempts
    BY <1>2, <1>4, <1>7 DEF TriesInv
  <2>4. tries'[g].right <= 1 /\ tries'[g].wrong + tries'[g].right <= OtpAttempts
    <3>1. CASE Accepts(g)
      BY <1>5, <2>2, <2>3, <3>1, LoginAssumption
    <3>2. CASE Rejects(g)
      BY <1>5, <2>2, <2>3, <3>2, LoginAssumption
    <3>3. QED
      BY <1>7, <3>1, <3>2
  <2>5. \A k \in DOMAIN otp : k # a => otp'[k] = otp[k] /\ otp[k].gen # g
    BY <1>2, <1>3, <1>4, <1>7 DEF TriesInv
  <2>6. \A x, y \in DOMAIN otp' : otp'[x].gen = otp'[y].gen /\ otp'[x].gen # 0 => x = y
    <3>1. SUFFICES ASSUME NEW x \in DOMAIN otp, NEW y \in DOMAIN otp, otp'[x].gen = otp'[y].gen, otp'[x].gen # 0
                   PROVE  x = y
      BY <1>3
    <3>2. CASE x = a \/ y = a
      BY <1>7, <2>5, <3>1, <3>2, NoCodeIs
    <3>3. CASE x # a /\ y # a
      BY <2>5, <3>1, <3>3 DEF TriesInv
    <3>4. QED
      BY <3>2, <3>3
  <2>7. ASSUME NEW x \in DOMAIN otp, otp'[x].gen # 0
        PROVE  tries'[otp'[x].gen].right = 0 /\ tries'[otp'[x].gen].wrong = otp'[x].attempts
    <3>1. CASE x = a
      <4>1. otp'[a].gen = g /\ otp'[a].attempts = otp[a].attempts + 1 /\ Rejects(g)
        BY <1>7, <2>7, <3>1, NoCodeIs
      <4>2. QED
        BY <2>2, <2>3, <3>1, <4>1
    <3>2. CASE x # a
      <4>1. otp'[x] = otp[x] /\ otp[x].gen # g /\ otp[x].gen # 0
        BY <2>5, <2>7, <3>2
      <4>2. tries[otp[x].gen].right = 0 /\ tries[otp[x].gen].wrong = otp[x].attempts
        BY <4>1 DEF TriesInv
      <4>3. otp[x].gen \in 1..MaxCodes
        <5>1. otp[x] \in CodeRow /\ otp[x].gen <= drawn /\ drawn <= MaxCodes
          BY DEF TablesInv, Codes, TriesInv
        <5>2. otp[x].gen \in Nat
          BY <5>1 DEF CodeRow
        <5>3. QED
          BY <1>4, <4>1, <5>1, <5>2, LoginAssumption
      <4>4. QED
        BY <2>2, <4>1, <4>2, <4>3
    <3>3. QED
      BY <3>1, <3>2
  <2>8. ASSUME NEW h \in 1..MaxCodes
        PROVE  /\ h > drawn' => tries'[h].right = 0 /\ tries'[h].wrong = 0
               /\ tries'[h].right <= 1 /\ tries'[h].wrong + tries'[h].right <= OtpAttempts
    <3>1. CASE h = g
      <4>1. ~(h > drawn')
        BY <1>1, <1>4, <1>5, <3>1
      <4>2. QED
        BY <2>4, <3>1, <4>1
    <3>2. CASE h # g
      BY <1>1, <2>2, <3>2 DEF TriesInv
    <3>3. QED
      BY <3>1, <3>2
  <2>9. drawn' <= MaxCodes
    BY <1>1 DEF TriesInv
  <2>10. QED
    BY <1>3, <2>2, <2>6, <2>7, <2>8, <2>9 DEF TriesInv
<1>8. \/ otp' = otp /\ tries' = tries
      \/ /\ g # 0
         /\ \/ otp'[a] = NoCode
            \/ /\ otp'[a].gen = g /\ otp'[a].attempts = otp[a].attempts + 1 /\ Rejects(g)
         /\ Accepts(g) \/ Rejects(g)
  <2>1. \/ otp' = otp /\ tries' = tries
        \/ /\ g # 0
           /\ \/ otp'[a] = NoCode
              \/ otp'[a].gen = g /\ otp'[a].attempts = otp[a].attempts + 1
           /\ \/ Accepts(g) /\ otp'[a] = NoCode
              \/ Rejects(g)
    BY <1>2, CheckedCode
  <2>2. QED
    BY <2>1
<1>9. QED
  BY <1>6, <1>7, <1>8

LEMMA LoginNextTries ==
  ASSUME TablesInv, TriesInv, [LoginNext]_lvars
  PROVE  TriesInv'
<1>1. CASE StartOidc
  BY <1>1, NothingTried DEF StartOidc, db, password, phone, social, rest
<1>2. ASSUME NEW c \in Clients, NEW dev \in Devices, NEW ip \in load.from, NEW m \in Mails, NEW guess \in 0..MaxPassword,
             LoginPassword(c, m, guess, dev, ip)
      PROVE  TriesInv'
  BY <1>2, NothingTried DEF LoginPassword, db, password, phone, social, rest
<1>3. ASSUME NEW c \in Clients, NEW dev \in Devices, NEW ip \in load.from, NEW a \in DOMAIN account,
             NEW code \in {0, otp[a].gen}, LoginPhone(c, a, code, dev, ip)
      PROVE  TriesInv'
  BY <1>3, NothingTried DEF LoginPhone, db, password, phone, social, rest
<1>4. ASSUME NEW c \in Clients, NEW dev \in Devices, NEW ip \in load.from, NEW st \in DOMAIN state, NEW s \in Subjects,
             NEW ok \in BOOLEAN, LoginOidc(c, st, s, dev, ip, ok)
      PROVE  TriesInv'
  BY <1>4, NothingTried DEF LoginOidc, db, password, phone, social, rest
<1>5. ASSUME NEW c \in Clients, NEW a \in DOMAIN account, RequestPhoneOtp(c, a)
      PROVE  TriesInv'
  BY <1>5, NothingTried DEF RequestPhoneOtp, db, password, phone, social, rest
<1>6. ASSUME NEW c \in Clients, NEW sent \in BOOLEAN, SendCode(c, sent)
      PROVE  TriesInv'
  BY <1>6, SendCodeTries
<1>7. ASSUME NEW c \in Clients, ReadIdentity(c) \/ CountMail(c) \/ CountAddress(c) \/ LockLogin(c) \/ ResetAttempts(c) \/ Rehash(c)
      PROVE  TriesInv'
  BY <1>7, NothingTried DEF ReadIdentity, CountMail, CountAddress, LockLogin, ResetAttempts, Rehash, db, password, phone, social, rest
<1>8. ASSUME NEW c \in Clients, StoreOtpHash(c) \/ ExpireOtpHash(c) \/ CheckCode(c) \/ ProvisionOidc(c)
      PROVE  TriesInv'
  BY <1>8, StoreOtpHashTries, ExpireOtpHashTries, CheckCodeTries, ProvisionOidcTries
<1>9. ASSUME NEW c \in Clients, FindIdentity(c) \/ FindMail(c) \/ SelectDevice(c) \/ InsertDevice(c) \/ PrimaryDecision(c) \/ Stop(c)
      PROVE  TriesInv'
  BY <1>9, NothingTried DEF FindIdentity, FindMail, SelectDevice, InsertDevice, PrimaryDecision, Stop, db, password, phone, social, rest
<1>10. ASSUME NEW s \in Counted, ExpireAttempts(s) \/ ExpireLock(s)
      PROVE  TriesInv'
  BY <1>10, NothingTried DEF ExpireAttempts, ExpireLock, db, password, phone, social, rest
<1>11. ASSUME NEW a \in DOMAIN account, ExpireSends(a) \/ ResetPassword(a) \/ Suspend(a)
      PROVE  TriesInv'
  BY <1>11, NothingTried DEF ExpireSends, ResetPassword, Suspend, db, password, phone, social, rest
<1>12. ASSUME NEW a \in DOMAIN account, ExpireOtp(a)
      PROVE  TriesInv'
  BY <1>12, ExpireOtpTries
<1>13. ASSUME NEW st \in DOMAIN state, ExpireState(st)
      PROVE  TriesInv'
  BY <1>13, NothingTried DEF ExpireState, db, password, phone, social, rest
<1>14. ASSUME NEW m \in Mails, Register(m)
      PROVE  TriesInv'
  BY <1>14, RegisterTries
<1>15. CASE UNCHANGED lvars
  BY <1>15, NothingTried DEF lvars
<1>16. QED
  BY <1>1, <1>2, <1>3, <1>4, <1>5, <1>6, <1>7, <1>8, <1>9, <1>10, <1>11, <1>12, <1>13, <1>14, <1>15
  DEF LoginNext
-----------------------------------------------------------------------------
(***************************************************************************)
(* The counters of wrong passwords.                                        *)
(***************************************************************************)
Guarding == {"identity", "count mail", "count ip", "lock"}

LEMMA Sizes ==
  ASSUME IsFiniteSet(Clients), NEW S \in SUBSET Clients
  PROVE  /\ IsFiniteSet(S) /\ Cardinality(S) \in Nat /\ Cardinality(Clients) \in Nat
         /\ Cardinality(S) <= Cardinality(Clients)
<1>1. IsFiniteSet(S) /\ Cardinality(S) <= Cardinality(Clients)
  BY FS_Subset
<1>2. QED
  BY <1>1, FS_CardinalityType

LEMMA SubSizes ==
  ASSUME IsFiniteSet(Clients), NEW S \in SUBSET Clients, NEW T \in SUBSET S
  PROVE  Cardinality(T) <= Cardinality(S)
<1>1. IsFiniteSet(S)
  BY Sizes
<1>2. QED
  BY <1>1, FS_Subset

LEMMA LimitIs ==
  ASSUME TablesInv, NEW s \in Counted
  PROVE  attempts[s] \in Nat /\ AttemptLimit - 1 \in Nat /\ AttemptLimit \in Nat
BY LoginAssumption DEF TablesInv, Keys

\* Nobody more will count, and nobody less will lock.
LEMMA CounterStays ==
  ASSUME IsFiniteSet(Clients), TablesInv, NEW s \in Counted, CounterHolds(s),
         attempts'[s] = attempts[s], lock'[s] = "locked" <=> lock[s] = "locked",
         \A d \in Clients : Counts(req[d], s)' => Counts(req[d], s),
         \A d \in Clients : Locks(req[d], s) => Locks(req[d], s)'
  PROVE  CounterHolds(s)'
<1>1. PICK C, D, L, M : C = WillCount(s) /\ D = WillCount(s)' /\ L = WillLock(s) /\ M = WillLock(s)'
  OBVIOUS
<1>2. C \in SUBSET Clients /\ M \in SUBSET Clients /\ D \in SUBSET C /\ L \in SUBSET M
  BY <1>1 DEF WillCount, WillLock
<1>3. Cardinality(D) <= Cardinality(C) /\ Cardinality(L) <= Cardinality(M)
  BY <1>2, SubSizes
<1>4. /\ Cardinality(C) \in Nat /\ Cardinality(D) \in Nat /\ Cardinality(L) \in Nat /\ Cardinality(M) \in Nat
      /\ Cardinality(Clients) \in Nat
  BY <1>2, Sizes
<1>5. attempts[s] \in Nat /\ AttemptLimit - 1 \in Nat
  BY LimitIs
<1>6. CASE lock[s] # "locked"
  <2>1. attempts[s] <= AttemptLimit - 1 + Cardinality(L)
    BY <1>1, <1>6 DEF CounterHolds
  <2>2. attempts'[s] <= AttemptLimit - 1 + Cardinality(M)
    BY <1>3, <1>4, <1>5, <2>1
  <2>3. QED
    BY <1>1, <1>6, <2>2 DEF CounterHolds
<1>7. CASE lock[s] = "locked"
  <2>1. attempts[s] + Cardinality(C) <= AttemptLimit - 1 + Cardinality(Clients)
    BY <1>1, <1>7 DEF CounterHolds
  <2>2. attempts'[s] + Cardinality(D) <= AttemptLimit - 1 + Cardinality(Clients)
    BY <1>3, <1>4, <1>5, <2>1
  <2>3. QED
    BY <1>1, <1>7, <2>2 DEF CounterHolds
<1>8. QED
  BY <1>6, <1>7

LEMMA CountersQuiet ==
  ASSUME IsFiniteSet(Clients), TablesInv, CountersInv, UNCHANGED <<load, attempts, lock>>,
         \A d \in Clients : req'[d] = req[d] \/ (req[d].at \notin Guarding /\ req'[d].at \notin Guarding)
  PROVE  CountersInv'
<1>1. SUFFICES ASSUME Counters, NEW s \in Counted PROVE CounterHolds(s)'
  BY DEF CountersInv, Counters
<1>2. \A d \in Clients : Counts(req[d], s)' => Counts(req[d], s)
  BY DEF Counts, Guarding
<1>3. \A d \in Clients : Locks(req[d], s) => Locks(req[d], s)'
  BY DEF Locks, Guarding
<1>4. CounterHolds(s)
  BY <1>1 DEF Counters
<1>5. attempts'[s] = attempts[s] /\ (lock'[s] = "locked" <=> lock[s] = "locked")
  OBVIOUS
<1>6. QED
  BY <1>2, <1>3, <1>4, <1>5, CounterStays

\* A counter that starts again holds.
LEMMA CounterForgotten ==
  ASSUME IsFiniteSet(Clients), TablesInv, NEW s \in Counted, attempts'[s] = 0, lock'[s] # "locked"
  PROVE  CounterHolds(s)'
<1>1. PICK M : M = WillLock(s)'
  OBVIOUS
<1>2. M \in SUBSET Clients
  BY <1>1 DEF WillLock
<1>3. Cardinality(M) \in Nat /\ AttemptLimit - 1 \in Nat
  BY <1>2, Sizes, LimitIs
<1>4. attempts'[s] <= AttemptLimit - 1 + Cardinality(M)
  BY <1>3
<1>5. QED
  BY <1>1, <1>4 DEF CounterHolds

\* A new request joins those that will count only for addresses that are not locked.
LEMMA LoginPasswordCounters ==
  ASSUME IsFiniteSet(Clients), TablesInv, Counters, NEW c \in Clients, NEW m, NEW guess, NEW dev, NEW ip,
         LoginPassword(c, m, guess, dev, ip)
  PROVE  Counters'
<1>1. SUFFICES ASSUME NEW s \in Counted PROVE CounterHolds(s)'
  BY DEF Counters
<1>2. UNCHANGED <<attempts, lock>> /\ CounterHolds(s) /\ req[c] = Idle
  BY DEF LoginPassword, password, Counters
<1>3. PICK r : r = [Idle EXCEPT !.at = "identity", !.via = "password", !.mail = m, !.guess = guess,
                                !.dev = dev, !.ip = ip]
  OBVIOUS
<1>4. r.at = "identity" /\ r.mail = m /\ r.ip = ip
  BY <1>3 DEF Idle
<1>5. req'[c] = r /\ \A d \in Clients : d # c => req'[d] = req[d]
  BY <1>3, Going DEF LoginPassword
<1>6. \A d \in Clients : Locks(req[d], s) <=> Locks(req[d], s)'
  <2>1. req[c].at = "idle"
    BY <1>2 DEF Idle
  <2>2. req'[c].at = "identity"
    BY <1>4, <1>5
  <2>3. ~Locks(req[c], s) /\ ~Locks(req[c], s)'
    BY <2>1, <2>2 DEF Locks
  <2>4. ASSUME NEW d \in Clients, d # c
        PROVE  Locks(req[d], s) <=> Locks(req[d], s)'
    <3>1. req'[d] = req[d]
      BY <1>5, <2>4
    <3>2. QED
      BY <3>1 DEF Locks
  <2>5. QED
    BY <2>3, <2>4
<1>7. CASE s = m \/ s = ip
  <2>1. s # None
    BY LoginAssumption DEF Counted
  <2>2. lock[s] = "open"
    BY <1>7, <2>1 DEF LoginPassword, NotLocked
  <2>3. WillLock(s)' = WillLock(s)
    BY <1>6 DEF WillLock
  <2>4. attempts[s] <= AttemptLimit - 1 + Cardinality(WillLock(s)) /\ lock'[s] # "locked" /\ attempts'[s] = attempts[s]
    BY <1>2, <2>2 DEF CounterHolds
  <2>5. QED
    BY <2>3, <2>4 DEF CounterHolds
<1>8. CASE s # m /\ s # ip
  <2>1. \A d \in Clients : Counts(req[d], s)' => Counts(req[d], s)
    BY <1>4, <1>5, <1>8 DEF Counts
  <2>2. QED
    BY <1>2, <1>6, <2>1, CounterStays
<1>9. QED
  BY <1>7, <1>8

LEMMA ReadIdentityCounters ==
  ASSUME IsFiniteSet(Clients), TablesInv, Counters, NEW c \in Clients, ReadIdentity(c)
  PROVE  Counters'
<1>1. SUFFICES ASSUME NEW s \in Counted PROVE CounterHolds(s)'
  BY DEF Counters
<1>2. UNCHANGED <<attempts, lock>> /\ CounterHolds(s) /\ req[c].at = "identity"
  BY DEF ReadIdentity, password, Counters
<1>3. Went(c, {"identity"}, {"count mail", "reset"})
  BY PasswordPaths
<1>4. req'[c].at = "count mail" => req'[c].mail = req[c].mail /\ req'[c].ip = req[c].ip
  <2>1. CASE Goto(c, "count mail")
    BY <2>1, GoingTo
  <2>2. ASSUME NEW a, Step(c, [req[c] EXCEPT !.at = "reset", !.acct = a, !.dated = account[a].dated])
        PROVE  req'[c].at = "reset"
    <3>1. PICK r : r = [req[c] EXCEPT !.at = "reset", !.acct = a, !.dated = account[a].dated]
      OBVIOUS
    <3>2. req[c] \in RequestState /\ req'[c] = r
      BY <2>2, <3>1, Going, Tables
    <3>3. QED
      BY <3>1, <3>2 DEF RequestState
  <2>3. QED
    BY <2>1, <2>2, ReadIdentityStep
<1>5. \A d \in Clients : Counts(req[d], s)' => Counts(req[d], s)
  BY <1>2, <1>3, <1>4 DEF Counts, Went
<1>6. \A d \in Clients : Locks(req[d], s) => Locks(req[d], s)'
  BY <1>2, <1>3 DEF Locks, Went
<1>7. QED
  BY <1>2, <1>5, <1>6, CounterStays

\* The request c counts for s once, and will lock s if the limit is reached.
LEMMA CounterRises ==
  ASSUME IsFiniteSet(Clients), TablesInv, NEW s \in Counted, CounterHolds(s), NEW c \in Clients,
         attempts'[s] = attempts[s] + 1, lock'[s] = lock[s],
         Counts(req[c], s), ~Counts(req[c], s)', ~Locks(req[c], s),
         attempts[s] + 1 >= AttemptLimit => Locks(req[c], s)',
         \A d \in Clients : d # c => req'[d] = req[d]
  PROVE  CounterHolds(s)'
<1>1. PICK C, D, L, M : C = WillCount(s) /\ D = WillCount(s)' /\ L = WillLock(s) /\ M = WillLock(s)'
  OBVIOUS
<1>2. \A d \in Clients : d # c => (Counts(req[d], s)' <=> Counts(req[d], s)) /\ (Locks(req[d], s)' <=> Locks(req[d], s))
  BY DEF Counts, Locks
<1>3. C \in SUBSET Clients /\ M \in SUBSET Clients /\ L \in SUBSET Clients /\ c \in C /\ D = C \ {c}
  BY <1>1, <1>2 DEF WillCount, WillLock
<1>4. /\ IsFiniteSet(C) /\ IsFiniteSet(L) /\ Cardinality(C) \in Nat /\ Cardinality(L) \in Nat
      /\ Cardinality(M) \in Nat /\ Cardinality(Clients) \in Nat
  BY <1>3, Sizes
<1>5. Cardinality(D) = Cardinality(C) - 1
  BY <1>3, <1>4, FS_RemoveElement
<1>6. attempts[s] \in Nat /\ AttemptLimit - 1 \in Nat /\ AttemptLimit \in Nat
  BY LimitIs
<1>7. CASE lock[s] = "locked"
  <2>1. attempts[s] + Cardinality(C) <= AttemptLimit - 1 + Cardinality(Clients)
    BY <1>1, <1>7 DEF CounterHolds
  <2>2. attempts'[s] + Cardinality(D) <= AttemptLimit - 1 + Cardinality(Clients)
    BY <1>4, <1>5, <1>6, <2>1
  <2>3. QED
    BY <1>1, <1>7, <2>2 DEF CounterHolds
<1>8. CASE lock[s] # "locked"
  <2>1. attempts[s] <= AttemptLimit - 1 + Cardinality(L)
    BY <1>1, <1>8 DEF CounterHolds
  <2>2. attempts'[s] <= AttemptLimit - 1 + Cardinality(M)
    <3>1. CASE attempts[s] + 1 >= AttemptLimit
      <4>1. M = L \cup {c} /\ c \notin L
        BY <1>1, <1>2, <3>1 DEF WillLock
      <4>2. Cardinality(M) = Cardinality(L) + 1
        BY <1>4, <4>1, FS_AddElement
      <4>3. QED
        BY <1>4, <1>6, <2>1, <4>2
    <3>2. CASE ~(attempts[s] + 1 >= AttemptLimit)
      BY <1>4, <1>6, <3>2
    <3>3. QED
      BY <3>1, <3>2
  <2>3. QED
    BY <1>1, <1>8, <2>2 DEF CounterHolds
<1>9. QED
  BY <1>7, <1>8

\* The account's address is counted; the network address is still to come.
LEMMA CountMailCounters ==
  ASSUME IsFiniteSet(Clients), TablesInv, Counters, NEW c \in Clients, CountMail(c)
  PROVE  Counters'
<1>1. SUFFICES ASSUME NEW s \in Counted PROVE CounterHolds(s)'
  BY DEF Counters
<1>2. lock' = lock /\ CounterHolds(s) /\ req[c].at = "count mail" /\ req[c] \in RequestState /\ Placed(req[c])
  BY Tables DEF CountMail, Counters
<1>3. PICK m, hit : m = req[c].mail /\ hit = Reached(m)
  OBVIOUS
<1>4. m \in Mails
  BY <1>2, <1>3 DEF Placed, OfPassword
<1>5. m \in Counted /\ Count(m)
  BY <1>3, <1>4 DEF Counted, CountMail
<1>6. attempts'[m] = attempts[m] + 1 /\ \A q \in Counted : q # m => attempts'[q] = attempts[q]
  BY <1>2, <1>5, CountKeys
<1>7. req[c].ip \in Addresses \cup {None} /\ req[c].ip # m
  <2>1. req[c].ip \in Addresses \cup {None}
    BY <1>2 DEF RequestState
  <2>2. QED
    BY <1>4, <2>1, LoginAssumption
<1>8. \/ Refuse(c) /\ req[c].ip = None /\ hit = {}
      \/ Counting(c, "count ip", hit) /\ req[c].ip # None
      \/ Counting(c, "lock", hit) /\ req[c].ip = None
  BY <1>3 DEF CountMail, Counting
<1>9. Went(c, {"count mail"}, {"count ip", "lock", "idle"})
  BY PasswordPaths
<1>10. /\ req'[c].at = "idle" => hit = {} /\ req[c].ip = None
       /\ req'[c].at = "lock" => req[c].ip = None
       /\ req'[c].at # "idle" => req'[c].hit = hit /\ req'[c].ip = req[c].ip
  <2>1. CASE Refuse(c) /\ req[c].ip = None /\ hit = {}
    BY <2>1, GoingHome
  <2>2. ASSUME NEW label \in {"count ip", "lock"}, Counting(c, label, hit)
        PROVE  req'[c].at = label /\ req'[c].hit = hit /\ req'[c].ip = req[c].ip
    <3>1. PICK r : r = [req[c] EXCEPT !.at = label, !.hit = hit]
      OBVIOUS
    <3>2. r.at = label /\ r.hit = hit /\ r.ip = req[c].ip
      BY <1>2, <3>1 DEF RequestState
    <3>3. req'[c] = r
      BY <2>2, <3>1, Going DEF Counting
    <3>4. QED
      BY <3>2, <3>3
  <2>3. QED
    BY <1>8, <2>1, <2>2
<1>11. hit \subseteq {m} /\ (attempts[m] + 1 >= AttemptLimit => m \in hit)
  BY <1>3 DEF Reached
<1>12. CASE s = m
  <2>1. Counts(req[c], m) /\ ~Locks(req[c], m)
    BY <1>2, <1>3 DEF Counts, Locks
  <2>2. ~Counts(req[c], m)'
    BY <1>7, <1>9, <1>10 DEF Counts, Went
  <2>3. attempts[m] + 1 >= AttemptLimit => Locks(req[c], m)'
    <3>1. SUFFICES ASSUME attempts[m] + 1 >= AttemptLimit PROVE Locks(req[c], m)'
      OBVIOUS
    <3>2. m \in hit
      BY <1>11, <3>1
    <3>3. req'[c].at # "idle" /\ m \in req'[c].hit
      BY <1>10, <3>2
    <3>4. QED
      BY <1>9, <3>3 DEF Locks, Went
  <2>4. \A d \in Clients : d # c => req'[d] = req[d]
    BY <1>9 DEF Went
  <2>5. lock'[m] = lock[m] /\ CounterHolds(m) /\ m \in Counted
    BY <1>2, <1>12
  <2>6. CounterHolds(m)'
    BY <1>6, <2>1, <2>2, <2>3, <2>4, <2>5, CounterRises
  <2>7. QED
    BY <1>12, <2>6
<1>13. CASE s # m
  <2>1. \A d \in Clients : Counts(req[d], s)' => Counts(req[d], s)
    BY <1>2, <1>9, <1>10 DEF Counts, Went
  <2>2. \A d \in Clients : Locks(req[d], s) => Locks(req[d], s)'
    BY <1>2, <1>9 DEF Locks, Went
  <2>3. attempts'[s] = attempts[s] /\ (lock'[s] = "locked" <=> lock[s] = "locked")
    BY <1>2, <1>6, <1>13
  <2>4. QED
    BY <1>2, <2>1, <2>2, <2>3, CounterStays
<1>14. QED
  BY <1>12, <1>13

LEMMA CountAddressCounters ==
  ASSUME IsFiniteSet(Clients), TablesInv, Counters, NEW c \in Clients, CountAddress(c)
  PROVE  Counters'
<1>1. SUFFICES ASSUME NEW s \in Counted PROVE CounterHolds(s)'
  BY DEF Counters
<1>2. lock' = lock /\ CounterHolds(s) /\ req[c].at = "count ip" /\ req[c] \in RequestState /\ Placed(req[c])
  BY Tables DEF CountAddress, Counters
<1>3. PICK i, hit : i = req[c].ip /\ hit = req[c].hit \cup Reached(i)
  OBVIOUS
<1>4. i \in Addresses /\ req[c].hit \subseteq {req[c].mail} /\ req[c].mail \in Mails
  BY <1>2, <1>3 DEF Placed, OfPassword
<1>5. i \in Counted /\ Count(i) /\ i \notin req[c].hit
  BY <1>3, <1>4, LoginAssumption DEF Counted, CountAddress
<1>6. attempts'[i] = attempts[i] + 1 /\ \A q \in Counted : q # i => attempts'[q] = attempts[q]
  BY <1>2, <1>5, CountKeys
<1>7. \/ Refuse(c) /\ hit = {}
      \/ Counting(c, "lock", hit)
  BY <1>3 DEF CountAddress, Counting
<1>8. Went(c, {"count ip"}, {"lock", "idle"})
  BY PasswordPaths
<1>9. /\ req'[c].at = "idle" => hit = {}
      /\ req'[c].at = "lock" => req'[c].hit = hit
  <2>1. CASE Refuse(c) /\ hit = {}
    BY <2>1, GoingHome
  <2>2. ASSUME Counting(c, "lock", hit) PROVE req'[c].at = "lock" /\ req'[c].hit = hit
    <3>1. PICK r : r = [req[c] EXCEPT !.at = "lock", !.hit = hit]
      OBVIOUS
    <3>2. r.at = "lock" /\ r.hit = hit
      BY <1>2, <3>1 DEF RequestState
    <3>3. req'[c] = r
      BY <2>2, <3>1, Going DEF Counting
    <3>4. QED
      BY <3>2, <3>3
  <2>3. QED
    BY <1>7, <2>1, <2>2
<1>10. req[c].hit \subseteq hit /\ (attempts[i] + 1 >= AttemptLimit => i \in hit) /\ hit \subseteq req[c].hit \cup {i}
  BY <1>3 DEF Reached
<1>11. CASE s = i
  <2>1. Counts(req[c], i) /\ ~Locks(req[c], i)
    BY <1>2, <1>3, <1>5 DEF Counts, Locks
  <2>2. ~Counts(req[c], i)'
    BY <1>8 DEF Counts, Went
  <2>3. attempts[i] + 1 >= AttemptLimit => Locks(req[c], i)'
    BY <1>8, <1>9, <1>10 DEF Locks, Went
  <2>4. \A d \in Clients : d # c => req'[d] = req[d]
    BY <1>8 DEF Went
  <2>5. lock'[i] = lock[i] /\ CounterHolds(i) /\ i \in Counted
    BY <1>2, <1>11
  <2>6. CounterHolds(i)'
    BY <1>6, <2>1, <2>2, <2>3, <2>4, <2>5, CounterRises
  <2>7. QED
    BY <1>11, <2>6
<1>12. CASE s # i
  <2>1. \A d \in Clients : Counts(req[d], s)' => Counts(req[d], s)
    BY <1>2, <1>8 DEF Counts, Went
  <2>2. \A d \in Clients : Locks(req[d], s) => Locks(req[d], s)'
    BY <1>2, <1>8, <1>9, <1>10 DEF Locks, Went
  <2>3. attempts'[s] = attempts[s] /\ (lock'[s] = "locked" <=> lock[s] = "locked")
    BY <1>2, <1>6, <1>12
  <2>4. QED
    BY <1>2, <2>1, <2>2, <2>3, CounterStays
<1>13. QED
  BY <1>11, <1>12

\* Those who will count and those who will lock are different requests.
LEMMA CountOrLock ==
  ASSUME IsFiniteSet(Clients), TablesInv, NEW s \in Counted
  PROVE  Cardinality(WillCount(s)) + Cardinality(WillLock(s)) <= Cardinality(Clients)
<1>1. PICK C, L : C = WillCount(s) /\ L = WillLock(s)
  OBVIOUS
<1>2. C \in SUBSET Clients /\ L \in SUBSET Clients /\ C \cup L \in SUBSET Clients
  BY <1>1 DEF WillCount, WillLock
<1>3. C \cap L = {}
  <2>1. SUFFICES ASSUME NEW d \in Clients, Counts(req[d], s), Locks(req[d], s) PROVE FALSE
    BY <1>1 DEF WillCount, WillLock
  <2>2. req[d].at = "count ip" /\ s = req[d].ip /\ s \in req[d].hit
    BY <2>1 DEF Counts, Locks
  <2>3. Placed(req[d])
    BY Tables
  <2>4. s \in Addresses /\ s = req[d].mail /\ req[d].mail \in Mails
    BY <2>2, <2>3 DEF Placed, OfPassword
  <2>5. QED
    BY <2>4, LoginAssumption
<1>4. IsFiniteSet(C) /\ IsFiniteSet(L) /\ Cardinality(C) \in Nat /\ Cardinality(L) \in Nat
  BY <1>2, Sizes
<1>5. Cardinality(C \cup L) <= Cardinality(Clients) /\ Cardinality(Clients) \in Nat
  BY <1>2, Sizes
<1>6. Cardinality(C \cup L) = Cardinality(C) + Cardinality(L) - Cardinality(C \cap L)
  BY <1>4, FS_Union
<1>7. Cardinality(C \cap L) = 0
  BY <1>3, FS_EmptySet
<1>8. QED
  BY <1>1, <1>4, <1>5, <1>6, <1>7

LEMMA LockLoginCounters ==
  ASSUME IsFiniteSet(Clients), TablesInv, Counters, NEW c \in Clients, LockLogin(c)
  PROVE  Counters'
<1>1. SUFFICES ASSUME NEW s \in Counted PROVE CounterHolds(s)'
  BY DEF Counters
<1>2. attempts' = attempts /\ CounterHolds(s) /\ req[c] \in RequestState
  BY Tables DEF LockLogin, Counters
<1>3. PICK q : q = LockedNext(req[c])
  OBVIOUS
<1>4. /\ req[c].at = "lock" /\ q \in Counted /\ q \in req[c].hit
      /\ lock' = [lock EXCEPT ![q] = IF attempts[q] = 0 THEN "fading" ELSE "locked"]
      /\ \/ req[c].hit = {q} /\ Refuse(c)
         \/ req[c].hit # {q} /\ Counting(c, "lock", req[c].hit \ {q})
  BY <1>3, LockLoginStep
<1>5. Went(c, {"lock"}, {"lock", "idle"})
  BY PasswordPaths
<1>6. /\ req'[c].at = "idle" => req[c].hit = {q}
      /\ req'[c].at = "lock" => req'[c].hit = req[c].hit \ {q}
  <2>1. CASE req[c].hit = {q} /\ Refuse(c)
    BY <2>1, GoingHome
  <2>2. CASE Counting(c, "lock", req[c].hit \ {q})
    <3>1. PICK r, hit : hit = req[c].hit \ {q} /\ r = [req[c] EXCEPT !.at = "lock", !.hit = hit]
      OBVIOUS
    <3>2. r.at = "lock" /\ r.hit = hit
      BY <1>2, <3>1 DEF RequestState
    <3>3. req'[c] = r
      BY <2>2, <3>1, Going DEF Counting
    <3>4. QED
      BY <3>1, <3>2, <3>3
  <2>3. QED
    BY <1>4, <2>1, <2>2
<1>7. lock \in [Counted -> {"open", "locked", "fading"}]
  BY DEF TablesInv, Keys
<1>8. \A d \in Clients : Counts(req[d], s)' => Counts(req[d], s)
  BY <1>4, <1>5 DEF Counts, Went
<1>9. CASE s # q
  <2>1. \A d \in Clients : Locks(req[d], s) => Locks(req[d], s)'
    BY <1>4, <1>5, <1>6, <1>9 DEF Locks, Went
  <2>2. attempts'[s] = attempts[s] /\ lock'[s] = lock[s]
    BY <1>2, <1>4, <1>7, <1>9
  <2>3. QED
    BY <1>2, <1>8, <2>1, <2>2, CounterStays
<1>10. CASE s = q /\ attempts[q] = 0
  <2>1. attempts'[s] = 0 /\ lock'[s] # "locked"
    BY <1>2, <1>4, <1>7, <1>10
  <2>2. QED
    BY <2>1, CounterForgotten
<1>11. CASE s = q /\ attempts[q] # 0
  <2>1. lock'[s] = "locked" /\ attempts'[s] = attempts[s]
    BY <1>2, <1>4, <1>7, <1>11
  <2>2. PICK C, D, L : C = WillCount(s) /\ D = WillCount(s)' /\ L = WillLock(s)
    OBVIOUS
  <2>3. C \in SUBSET Clients /\ D \in SUBSET C /\ L \in SUBSET Clients /\ D \in SUBSET Clients
    BY <1>8, <2>2 DEF WillCount, WillLock
  <2>4. /\ Cardinality(D) <= Cardinality(C) /\ Cardinality(C) \in Nat /\ Cardinality(D) \in Nat
        /\ Cardinality(L) \in Nat /\ Cardinality(Clients) \in Nat
    BY <2>3, SubSizes, Sizes
  <2>5. Cardinality(C) + Cardinality(L) <= Cardinality(Clients)
    BY <2>2, CountOrLock
  <2>6. attempts[s] \in Nat /\ AttemptLimit - 1 \in Nat
    BY LimitIs
  <2>7. attempts[s] + Cardinality(C) <= AttemptLimit - 1 + Cardinality(Clients)
    <3>1. CASE lock[s] = "locked"
      BY <1>2, <2>2, <3>1 DEF CounterHolds
    <3>2. CASE lock[s] # "locked"
      <4>1. attempts[s] <= AttemptLimit - 1 + Cardinality(L)
        BY <1>2, <2>2, <3>2 DEF CounterHolds
      <4>2. QED
        BY <2>4, <2>5, <2>6, <4>1
    <3>3. QED
      BY <3>1, <3>2
  <2>8. attempts'[s] + Cardinality(D) <= AttemptLimit - 1 + Cardinality(Clients)
    BY <2>1, <2>4, <2>6, <2>7
  <2>9. QED
    BY <2>1, <2>2, <2>8 DEF CounterHolds
<1>12. QED
  BY <1>9, <1>10, <1>11

\* A counter that is forgotten.
LEMMA ForgetCounters ==
  ASSUME IsFiniteSet(Clients), TablesInv, Counters, NEW q \in Counted, Forget(q),
         \A d \in Clients : req'[d] = req[d] \/ (req[d].at \notin Guarding /\ req'[d].at \notin Guarding)
  PROVE  Counters'
<1>1. SUFFICES ASSUME NEW s \in Counted PROVE CounterHolds(s)'
  BY DEF Counters
<1>2. /\ attempts'[q] = 0 /\ lock'[q] # "locked"
      /\ \A k \in Counted : k # q => attempts'[k] = attempts[k] /\ lock'[k] = lock[k]
  BY ForgetKeys
<1>3. CASE s = q
  BY <1>2, <1>3, CounterForgotten
<1>4. CASE s # q
  <2>1. \A d \in Clients : Counts(req[d], s)' => Counts(req[d], s)
    BY DEF Counts, Guarding
  <2>2. \A d \in Clients : Locks(req[d], s) => Locks(req[d], s)'
    BY DEF Locks, Guarding
  <2>3. CounterHolds(s) /\ attempts'[s] = attempts[s] /\ (lock'[s] = "locked" <=> lock[s] = "locked")
    BY <1>2, <1>4 DEF Counters
  <2>4. QED
    BY <2>1, <2>2, <2>3, CounterStays
<1>5. QED
  BY <1>3, <1>4

LEMMA ResetAttemptsCounters ==
  ASSUME IsFiniteSet(Clients), TablesInv, Counters, NEW c \in Clients, ResetAttempts(c)
  PROVE  Counters'
<1>1. PICK m : m = req[c].mail
  OBVIOUS
<1>2. Placed(req[c]) /\ req[c].at = "reset" /\ Forget(m)
  BY <1>1, Tables DEF ResetAttempts
<1>3. m \in Counted
  BY <1>1, <1>2 DEF Placed, OfPassword, Counted
<1>4. \A d \in Clients : req'[d] = req[d] \/ (req[d].at \notin Guarding /\ req'[d].at \notin Guarding)
  BY PasswordPaths DEF Went, Guarding
<1>5. QED
  BY <1>2, <1>3, <1>4, ForgetCounters

LEMMA ExpireAttemptsCounters ==
  ASSUME IsFiniteSet(Clients), TablesInv, Counters, NEW s \in Counted, ExpireAttempts(s)
  PROVE  Counters'
<1>1. Forget(s) /\ req' = req
  BY DEF ExpireAttempts
<1>2. QED
  BY <1>1, ForgetCounters

LEMMA ExpireLockCounters ==
  ASSUME IsFiniteSet(Clients), TablesInv, Counters, NEW q \in Counted, ExpireLock(q)
  PROVE  Counters'
<1>1. SUFFICES ASSUME NEW s \in Counted PROVE CounterHolds(s)'
  BY DEF Counters
<1>2. UNCHANGED <<attempts, req>> /\ lock[q] = "fading" /\ lock' = [lock EXCEPT ![q] = "open"]
  BY DEF ExpireLock
<1>3. lock \in [Counted -> {"open", "locked", "fading"}]
  BY DEF TablesInv, Keys
<1>4. lock'[s] = "locked" <=> lock[s] = "locked"
  BY <1>2, <1>3
<1>5. \A d \in Clients : Counts(req[d], s)' => Counts(req[d], s)
  BY <1>2 DEF Counts
<1>6. \A d \in Clients : Locks(req[d], s) => Locks(req[d], s)'
  BY <1>2 DEF Locks
<1>7. CounterHolds(s) /\ attempts'[s] = attempts[s]
  BY <1>2 DEF Counters
<1>8. QED
  BY <1>4, <1>5, <1>6, <1>7, CounterStays

LEMMA LoginNextCounters ==
  ASSUME IsFiniteSet(Clients), TablesInv, CountersInv, [LoginNext]_lvars
  PROVE  CountersInv'
<1>1. CASE StartOidc
  <2>1. UNCHANGED <<load, attempts, lock, req>>
    BY <1>1 DEF StartOidc, db, password, phone, social, rest
  <2>2. QED
    BY <2>1, CountersQuiet
<1>2. ASSUME NEW c \in Clients, NEW dev \in Devices, NEW ip \in load.from, NEW m \in Mails, NEW guess \in 0..MaxPassword,
             LoginPassword(c, m, guess, dev, ip)
      PROVE  CountersInv'
  BY <1>2, LoginPasswordCounters DEF LoginPassword, rest, CountersInv
<1>3. ASSUME NEW c \in Clients, NEW dev \in Devices, NEW ip \in load.from, NEW a \in DOMAIN account,
             NEW code \in {0, otp[a].gen}, LoginPhone(c, a, code, dev, ip)
      PROVE  CountersInv'
  <2>1. UNCHANGED <<load, attempts, lock>>
    BY <1>3 DEF LoginPhone, db, password, phone, social, rest
  <2>2. \A d \in Clients : req'[d] = req[d] \/ (req[d].at \notin Guarding /\ req'[d].at \notin Guarding)
    BY <1>3, PhonePaths DEF Went, Guarding
  <2>3. QED
    BY <2>1, <2>2, CountersQuiet
<1>4. ASSUME NEW c \in Clients, NEW dev \in Devices, NEW ip \in load.from, NEW st \in DOMAIN state, NEW s \in Subjects,
             NEW ok \in BOOLEAN, LoginOidc(c, st, s, dev, ip, ok)
      PROVE  CountersInv'
  <2>1. UNCHANGED <<load, attempts, lock>>
    BY <1>4 DEF LoginOidc, db, password, phone, social, rest
  <2>2. \A d \in Clients : req'[d] = req[d] \/ (req[d].at \notin Guarding /\ req'[d].at \notin Guarding)
    BY <1>4, OidcPath DEF Went, Guarding
  <2>3. QED
    BY <2>1, <2>2, CountersQuiet
<1>5. ASSUME NEW c \in Clients, NEW a \in DOMAIN account, RequestPhoneOtp(c, a)
      PROVE  CountersInv'
  <2>1. UNCHANGED <<load, attempts, lock>>
    BY <1>5 DEF RequestPhoneOtp, db, password, phone, social, rest
  <2>2. \A d \in Clients : req'[d] = req[d] \/ (req[d].at \notin Guarding /\ req'[d].at \notin Guarding)
    BY <1>5, PhonePaths DEF Went, Guarding
  <2>3. QED
    BY <2>1, <2>2, CountersQuiet
<1>6. ASSUME NEW c \in Clients, NEW sent \in BOOLEAN, SendCode(c, sent)
      PROVE  CountersInv'
  <2>1. UNCHANGED <<load, attempts, lock>>
    BY <1>6 DEF SendCode, db, password, phone, social, rest
  <2>2. \A d \in Clients : req'[d] = req[d] \/ (req[d].at \notin Guarding /\ req'[d].at \notin Guarding)
    BY <1>6, PhonePaths DEF Went, Guarding
  <2>3. QED
    BY <2>1, <2>2, CountersQuiet
<1>7. ASSUME NEW c \in Clients, ReadIdentity(c)
      PROVE  CountersInv'
  BY <1>7, ReadIdentityCounters DEF ReadIdentity, rest, CountersInv
<1>8. ASSUME NEW c \in Clients, CountMail(c)
      PROVE  CountersInv'
  BY <1>8, CountMailCounters DEF CountMail, rest, CountersInv
<1>9. ASSUME NEW c \in Clients, CountAddress(c)
      PROVE  CountersInv'
  BY <1>9, CountAddressCounters DEF CountAddress, rest, CountersInv
<1>10. ASSUME NEW c \in Clients, LockLogin(c)
      PROVE  CountersInv'
  BY <1>10, LockLoginCounters DEF LockLogin, rest, CountersInv
<1>11. ASSUME NEW c \in Clients, ResetAttempts(c)
      PROVE  CountersInv'
  BY <1>11, ResetAttemptsCounters DEF ResetAttempts, rest, CountersInv
<1>12. ASSUME NEW c \in Clients, Rehash(c)
      PROVE  CountersInv'
  <2>1. UNCHANGED <<load, attempts, lock>>
    BY <1>12 DEF Rehash, db, password, phone, social, rest
  <2>2. \A d \in Clients : req'[d] = req[d] \/ (req[d].at \notin Guarding /\ req'[d].at \notin Guarding)
    BY <1>12, PasswordPaths DEF Went, Guarding
  <2>3. QED
    BY <2>1, <2>2, CountersQuiet
<1>13. ASSUME NEW c \in Clients, StoreOtpHash(c) \/ ExpireOtpHash(c) \/ CheckCode(c)
      PROVE  CountersInv'
  <2>1. UNCHANGED <<load, attempts, lock>>
    BY <1>13 DEF StoreOtpHash, ExpireOtpHash, CheckCode, db, password, phone, social, rest
  <2>2. \A d \in Clients : req'[d] = req[d] \/ (req[d].at \notin Guarding /\ req'[d].at \notin Guarding)
    BY <1>13, PhonePaths DEF Went, Guarding
  <2>3. QED
    BY <2>1, <2>2, CountersQuiet
<1>14. ASSUME NEW c \in Clients, FindIdentity(c) \/ FindMail(c) \/ ProvisionOidc(c)
      PROVE  CountersInv'
  <2>1. UNCHANGED <<load, attempts, lock>>
    BY <1>14 DEF FindIdentity, FindMail, ProvisionOidc, db, password, phone, social, rest
  <2>2. \A d \in Clients : req'[d] = req[d] \/ (req[d].at \notin Guarding /\ req'[d].at \notin Guarding)
    BY <1>14, SocialPaths DEF Went, Guarding
  <2>3. QED
    BY <2>1, <2>2, CountersQuiet
<1>15. ASSUME NEW c \in Clients, SelectDevice(c) \/ InsertDevice(c) \/ PrimaryDecision(c)
      PROVE  CountersInv'
  <2>1. UNCHANGED <<load, attempts, lock>>
    BY <1>15 DEF SelectDevice, InsertDevice, PrimaryDecision, db, password, phone, social, rest
  <2>2. \A d \in Clients : req'[d] = req[d] \/ (req[d].at \notin Guarding /\ req'[d].at \notin Guarding)
    BY <1>15, DevicePaths DEF Went, Guarding
  <2>3. QED
    BY <2>1, <2>2, CountersQuiet
<1>16. ASSUME NEW c \in Clients, Stop(c)
      PROVE  CountersInv'
  BY <1>16 DEF Stop, CountersInv
<1>17. ASSUME NEW s \in Counted, ExpireAttempts(s)
      PROVE  CountersInv'
  BY <1>17, ExpireAttemptsCounters DEF ExpireAttempts, rest, CountersInv
<1>18. ASSUME NEW s \in Counted, ExpireLock(s)
      PROVE  CountersInv'
  BY <1>18, ExpireLockCounters DEF ExpireLock, rest, CountersInv
<1>19. ASSUME NEW a \in DOMAIN account, ExpireOtp(a) \/ ExpireSends(a) \/ ResetPassword(a) \/ Suspend(a)
      PROVE  CountersInv'
  <2>1. UNCHANGED <<load, attempts, lock, req>>
    BY <1>19 DEF ExpireOtp, ExpireSends, ResetPassword, Suspend, db, password, phone, social, rest
  <2>2. QED
    BY <2>1, CountersQuiet
<1>20. ASSUME NEW st \in DOMAIN state, ExpireState(st)
      PROVE  CountersInv'
  <2>1. UNCHANGED <<load, attempts, lock, req>>
    BY <1>20 DEF ExpireState, db, password, phone, social, rest
  <2>2. QED
    BY <2>1, CountersQuiet
<1>21. ASSUME NEW m \in Mails, Register(m)
      PROVE  CountersInv'
  <2>1. UNCHANGED <<load, attempts, lock, req>>
    BY <1>21 DEF Register, db, password, phone, social, rest
  <2>2. QED
    BY <2>1, CountersQuiet
<1>22. CASE UNCHANGED lvars
  <2>1. UNCHANGED <<load, attempts, lock, req>>
    BY <1>22 DEF lvars
  <2>2. QED
    BY <2>1, CountersQuiet
<1>23. QED
  BY <1>1, <1>2, <1>3, <1>4, <1>5, <1>6, <1>7, <1>8, <1>9, <1>10, <1>11, <1>12, <1>13, <1>14, <1>15, <1>16, <1>17, <1>18, <1>19, <1>20, <1>21, <1>22
  DEF LoginNext

LEMMA CountersFollow ==
  ASSUME IsFiniteSet(Clients), TablesInv, TriesInv, CountersInv
  PROVE  AttemptsBounded
<1>1. ASSUME "stop" \notin load.requests, NEW s \in Counted
      PROVE  attempts[s] <= AttemptLimit - 1 + Cardinality(Clients)
  <2>1. CounterHolds(s)
    BY <1>1 DEF CountersInv, Counters
  <2>2. PICK C, L : C = WillCount(s) /\ L = WillLock(s)
    OBVIOUS
  <2>3. C \in SUBSET Clients /\ L \in SUBSET Clients
    BY <2>2 DEF WillCount, WillLock
  <2>4. /\ Cardinality(C) \in Nat /\ Cardinality(L) \in Nat /\ Cardinality(Clients) \in Nat
        /\ Cardinality(L) <= Cardinality(Clients)
    BY <2>3, Sizes
  <2>5. attempts[s] \in Nat /\ AttemptLimit - 1 \in Nat
    BY LimitIs
  <2>6. CASE lock[s] = "locked"
    <3>1. attempts[s] + Cardinality(C) <= AttemptLimit - 1 + Cardinality(Clients)
      BY <2>1, <2>2, <2>6 DEF CounterHolds
    <3>2. QED
      BY <2>4, <2>5, <3>1
  <2>7. CASE lock[s] # "locked"
    <3>1. attempts[s] <= AttemptLimit - 1 + Cardinality(L)
      BY <2>1, <2>2, <2>7 DEF CounterHolds
    <3>2. QED
      BY <2>4, <2>5, <3>1
  <2>8. QED
    BY <2>6, <2>7
<1>2. \A g \in DOMAIN tries : tries[g].right <= 1 /\ tries[g].wrong + tries[g].right <= OtpAttempts
  BY DEF TriesInv
<1>3. QED
  BY <1>1, <1>2 DEF AttemptsBounded

LEMMA LoginInitBounds ==
  ASSUME IsFiniteSet(Clients), LoginInit
  PROVE  TriesInv /\ CountersInv
<1>1. TablesInv
  BY LoginInitTables
<1>2. TriesInv
  <2>1. drawn = 0 /\ tries = [g \in 1..MaxCodes |-> [wrong |-> 0, right |-> 0]]
    BY DEF LoginInit
  <2>2. \A a \in DOMAIN otp : otp[a].gen = 0
    <3>1. otp = [a \in DOMAIN account |-> NoCode]
      BY DEF LoginInit
    <3>2. QED
      BY <3>1, NoCodeIs
  <2>3. \A g \in 1..MaxCodes : tries[g] = [wrong |-> 0, right |-> 0]
    BY <2>1
  <2>4. tries \in [1..MaxCodes -> [wrong : Nat, right : Nat]]
    BY <2>1
  <2>5. drawn <= MaxCodes
    BY <2>1, LoginAssumption
  <2>6. \A g \in 1..MaxCodes : /\ tries[g].right = 0 /\ tries[g].wrong = 0
                               /\ tries[g].right <= 1 /\ tries[g].wrong + tries[g].right <= OtpAttempts
    BY <2>3, LoginAssumption
  <2>7. QED
    BY <2>2, <2>4, <2>5, <2>6 DEF TriesInv
<1>3. CountersInv
  <2>1. SUFFICES ASSUME NEW s \in Counted PROVE CounterHolds(s)
    BY DEF CountersInv, Counters
  <2>2. attempts[s] = 0 /\ lock[s] = "open"
    BY DEF LoginInit
  <2>3. PICK L : L = WillLock(s)
    OBVIOUS
  <2>4. L \in SUBSET Clients
    BY <2>3 DEF WillLock
  <2>5. Cardinality(L) \in Nat /\ AttemptLimit - 1 \in Nat
    BY <1>1, <2>4, Sizes, LimitIs
  <2>6. attempts[s] <= AttemptLimit - 1 + Cardinality(L)
    BY <2>2, <2>5
  <2>7. QED
    BY <2>2, <2>3, <2>6 DEF CounterHolds
<1>4. QED
  BY <1>2, <1>3

\* With finitely many workers: the lock is read before the password is compared and written after
\* the failure is counted, so a counter passes the limit by the requests already past the lock and
\* by no more, as long as none of them dies on the way; and the script compares a phone code at
\* most OTP_MAX_ATTEMPTS times and accepts it once (_record_password_failure, VERIFY_OTP_SCRIPT).
THEOREM AttemptsAreBounded ==
  ASSUME IsFiniteSet(Clients)
  PROVE  LoginSpec => []AttemptsBounded
<1>1. LoginInit => TriesInv /\ CountersInv
  BY LoginInitBounds
<1>2. TablesInv /\ TriesInv /\ CountersInv /\ [LoginNext]_lvars => TriesInv' /\ CountersInv'
  BY LoginNextTries, LoginNextCounters
<1>3. TablesInv /\ TriesInv /\ CountersInv => AttemptsBounded
  BY CountersFollow
<1>4. QED
  BY <1>1, <1>2, <1>3, TablesStayTrue, PTL DEF LoginSpec
=============================================================================
