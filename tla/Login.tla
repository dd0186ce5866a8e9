-------------------------------- MODULE Login --------------------------------
(***************************************************************************)
(* The first step of a login: password, phone code or social identity, the *)
(* device that asks, and the decision whether a second factor is needed    *)
(* (LoginControl and its repository, with the counters, locks, codes and   *)
(* states it keeps in Redis).                                              *)
(*                                                                         *)
(* Every Redis command and every transaction of a request is a step.  The  *)
(* checks that only the caller sees (captcha, formats) either stop the     *)
(* request before its first step or do nothing, and are left out.          *)
(***************************************************************************)
EXTENDS Naturals, Sequences, FiniteSets

CONSTANTS
  Clients,
  Mails, Addresses, Devices, Subjects,   \* of accounts, of the network, of providers
  MailOf,        \* the address a provider reports for a subject
  Workloads,     \* what may happen in one behaviour: the requests, the network addresses they
                 \* come from (None: unknown), and the accounts there before it
  None,
  AttemptLimit,  \* PASSWORD_ATTEMPT_LIMIT
  SendLimit,     \* PHONE_OTP_LIMIT
  OtpAttempts,   \* OTP_MAX_ATTEMPTS
  MaxPassword,   \* bound: passwords an account ever has
  MaxCodes,      \* bound: phone codes ever drawn
  MaxStates,     \* bound: social logins ever started
  MaxLogins,     \* bound: decisions ever made
  MaxAccounts    \* bound: rows of users

ASSUME LoginAssumption ==
  /\ AttemptLimit \in Nat \ {0} /\ OtpAttempts \in Nat \ {0}
  /\ MaxCodes \in Nat /\ MaxAccounts \in Nat
  /\ MailOf \in [Subjects -> Mails]
  /\ \A w \in Workloads : /\ w.accounts \in Seq(Mails) /\ Len(w.accounts) <= MaxAccounts
                          /\ \A a, b \in DOMAIN w.accounts : w.accounts[a] = w.accounts[b] => a = b
                          /\ w.from \subseteq Addresses \cup {None}
  /\ None \notin Mails \cup Addresses \cup Subjects \cup Devices
  /\ Mails \cap Addresses = {}

VARIABLES
  load,      \* the workload of this behaviour; never changes
  account,   \* users, with the password of their identity (0: none)
  identity,  \* social identities: subject and account
  device,    \* trusted_devices
  attempts,  \* attempts[s]: wrong passwords counted for an address or a network address
  lock,      \* lock[s]: "fading" when the counter went before the lock
  otp,       \* otp[a]: the phone code's hash and whether the key has a time to live
  sends,     \* codes asked for in this window
  drawn,     \* codes drawn so far
  state,     \* social logins: "live" or "gone"
  decided,   \* workflows stored, in order
  req,       \* the clients' requests
  latest,    \* observer: latest[a], the last password the owner chose
  tries,     \* observer: tries[g], comparisons with code g that failed and that succeeded
  raced,     \* observer: accounts whose reset met a login that had read the password
  cut        \* observer: accounts for which a request stopped between HSET and EXPIRE

lvars == <<load, account, identity, device, attempts, lock, otp, sends, drawn, state, decided, req,
           latest, tries, raced, cut>>

Counted == Mails \cup Addresses

AccountRow == [mail : Mails, active : BOOLEAN, password : Nat, dated : BOOLEAN]
DeviceRow == [acct : Nat, dev : Devices, ip : Addresses \cup {None}]

NoCode == [gen |-> 0, attempts |-> 0, ttl |-> FALSE]

Idle == [at |-> "idle", via |-> None, acct |-> 0, sub |-> None, mail |-> None, dev |-> None,
         ip |-> None, guess |-> 0, dated |-> FALSE, hit |-> {}, known |-> FALSE, moved |-> FALSE]

\* Every field holds a value its column or key can hold.
LoginTypeOK ==
  /\ account \in Seq(AccountRow) /\ device \subseteq DeviceRow
  /\ identity \subseteq Subjects \X (1..MaxAccounts)
  /\ attempts \in [Counted -> Nat] /\ lock \in [Counted -> {"open", "locked", "fading"}]
  /\ DOMAIN otp = DOMAIN account /\ DOMAIN latest = DOMAIN account
  /\ \A a \in DOMAIN otp : otp[a].gen \in 0..drawn /\ otp[a].attempts < OtpAttempts
  /\ \A i \in DOMAIN decided : decided[i].acct \in DOMAIN account

-----------------------------------------------------------------------------
Step(c, r) == req' = [req EXCEPT ![c] = r]
Refuse(c) == Step(c, Idle)
Goto(c, label) == Step(c, [req[c] EXCEPT !.at = label])

Accounts(m) == {a \in DOMAIN account : account[a].mail = m}
Linked(s) == {a \in DOMAIN account : <<s, a>> \in identity}

db == <<account, identity, device, latest>>
password == <<attempts, lock>>
phone == <<otp, sends, drawn, tries>>
social == <<state>>
rest == <<load, decided, raced, cut>>

LoginInit ==
  /\ load \in Workloads
  /\ account = [a \in DOMAIN load.accounts |->
                 [mail |-> load.accounts[a], active |-> TRUE, password |-> 1, dated |-> TRUE]]
  /\ latest = [a \in DOMAIN account |-> 1]
  /\ identity = {} /\ device = {}
  /\ attempts = [s \in Counted |-> 0] /\ lock = [s \in Counted |-> "open"]
  /\ otp = [a \in DOMAIN account |-> NoCode] /\ sends = [a \in 1..MaxAccounts |-> 0] /\ drawn = 0
  /\ state = <<>> /\ decided = <<>>
  /\ req = [c \in Clients |-> Idle]
  /\ tries = [g \in 1..MaxCodes |-> [wrong |-> 0, right |-> 0]]
  /\ raced = {} /\ cut = {}

-----------------------------------------------------------------------------
(***************************************************************************)
(* login_password.                                                         *)
(***************************************************************************)
\* Mutant: only the address of the account is asked for a lock.
OpenMailOnly(m, ip) == lock[m] = "open"

\* _check_login_lock.
NotLocked(m, ip) == lock[m] = "open" /\ (ip # None => lock[ip] = "open")

LoginPassword(c, m, guess, dev, ip) ==
  /\ "password" \in load.requests /\ req[c] = Idle
  /\ NotLocked(m, ip)
  /\ Step(c, [Idle EXCEPT !.at = "identity", !.via = "password", !.mail = m, !.guess = guess,
                          !.dev = dev, !.ip = ip])
  /\ UNCHANGED <<db, password, phone, social, rest>>

\* The identity is read and the password compared with the hash that was read; an address
\* nobody has costs the same work and always fails.
ReadIdentity(c) ==
  LET good == {a \in Accounts(req[c].mail) : account[a].active /\ account[a].password \in {req[c].guess} \ {0}}
  IN /\ req[c].at = "identity"
     /\ IF good = {} THEN Goto(c, "count mail")
        ELSE \E a \in good : Step(c, [req[c] EXCEPT !.at = "reset", !.acct = a, !.dated = account[a].dated])
     /\ UNCHANGED <<db, password, phone, social, rest>>

Count(s) == attempts' = [attempts EXCEPT ![s] = @ + 1]
Reached(s) == IF attempts[s] + 1 >= AttemptLimit THEN {s} ELSE {}

\* _record_password_failure: two counters, then the locks they ask for.

CountMail(c) ==
  LET hit == Reached(req[c].mail)
  IN /\ req[c].at = "count mail"
     /\ Count(req[c].mail)
     /\ IF req[c].ip # None THEN Step(c, [req[c] EXCEPT !.at = "count ip", !.hit = hit])
        ELSE IF hit = {} THEN Refuse(c) ELSE Step(c, [req[c] EXCEPT !.at = "lock", !.hit = hit])
     /\ UNCHANGED <<db, lock, phone, social, rest>>

CountAddress(c) ==
  LET hit == req[c].hit \cup Reached(req[c].ip)
  IN /\ req[c].at = "count ip"
     /\ Count(req[c].ip)
     /\ IF hit = {} THEN Refuse(c) ELSE Step(c, [req[c] EXCEPT !.at = "lock", !.hit = hit])
     /\ UNCHANGED <<db, lock, phone, social, rest>>

\* The account's address first.
LockLogin(c) ==
  LET s == IF req[c].mail \in req[c].hit THEN req[c].mail ELSE req[c].ip
  IN /\ req[c].at = "lock"
     /\ lock' = [lock EXCEPT ![s] = IF attempts[s] = 0 THEN "fading" ELSE "locked"]
     /\ IF req[c].hit = {s} THEN Refuse(c) ELSE Step(c, [req[c] EXCEPT !.hit = @ \ {s}])
     /\ UNCHANGED <<db, attempts, phone, social, rest>>

\* A right password forgives the account's address, not the network's.
Forget(s) ==
  /\ attempts' = [attempts EXCEPT ![s] = 0]
  /\ lock' = [lock EXCEPT ![s] = IF @ = "locked" THEN "fading" ELSE @]

\* Mutant: every hash counts as outdated.
ResetAndRehash(c) ==
  /\ req[c].at = "reset"
  /\ Forget(req[c].mail)
  /\ Goto(c, "rehash")
  /\ UNCHANGED <<db, phone, social, rest>>

ResetAttempts(c) ==
  /\ req[c].at = "reset"
  /\ Forget(req[c].mail)
  /\ Goto(c, IF req[c].dated THEN "rehash" ELSE "device")
  /\ UNCHANGED <<db, phone, social, rest>>

\* update_password_hash: the row is locked, and written whatever it holds by now.
Rehash(c) ==
  /\ req[c].at = "rehash"
  /\ account' = [account EXCEPT ![req[c].acct].password = req[c].guess, ![req[c].acct].dated = FALSE]
  /\ Goto(c, "device")
  /\ UNCHANGED <<identity, device, latest, password, phone, social, rest>>

-----------------------------------------------------------------------------
(***************************************************************************)
(* request_phone_otp and login_phone.                                      *)
(***************************************************************************)
\* One request past the limit stands for all of them.
RequestPhoneOtp(c, a) ==
  /\ "phone" \in load.requests /\ req[c] = Idle
  /\ sends[a] <= SendLimit /\ drawn < MaxCodes
  /\ sends' = [sends EXCEPT ![a] = @ + 1]
  /\ IF sends[a] + 1 > SendLimit THEN UNCHANGED req
     ELSE Step(c, [Idle EXCEPT !.at = "hset", !.acct = a])
  /\ UNCHANGED <<db, password, otp, drawn, tries, social, rest>>

\* store_otp_hash is HSET, which keeps the time to live of a key that is there, and EXPIRE.
StoreOtpHash(c) ==
  LET a == req[c].acct
  IN /\ req[c].at = "hset" /\ drawn < MaxCodes
     /\ IF account[a].active
        THEN /\ drawn' = drawn + 1
             /\ otp' = [otp EXCEPT ![a] = [@ EXCEPT !.gen = drawn + 1, !.attempts = 0]]
             /\ Goto(c, "expire")
        ELSE Refuse(c) /\ UNCHANGED <<drawn, otp>>
     /\ UNCHANGED <<db, password, sends, tries, social, rest>>

\* Mutant: the second command is left out.
ForgetExpiry(c) ==
  /\ req[c].at = "expire"
  /\ Goto(c, "send")
  /\ UNCHANGED <<db, password, otp, sends, drawn, tries, social, rest>>

ExpireOtpHash(c) ==
  LET a == req[c].acct
  IN /\ req[c].at = "expire"
     /\ otp' = [otp EXCEPT ![a].ttl = @ \/ otp[a].gen # 0]
     /\ Goto(c, "send")
     /\ UNCHANGED <<db, password, sends, drawn, tries, social, rest>>

\* A message that cannot be sent takes the hash with it, whosever it is.
SendCode(c, sent) ==
  /\ req[c].at = "send"
  /\ otp' = IF sent THEN otp ELSE [otp EXCEPT ![req[c].acct] = NoCode]
  /\ Refuse(c)
  /\ UNCHANGED <<db, password, sends, drawn, tries, social, rest>>

LoginPhone(c, a, code, dev, ip) ==
  /\ "phone" \in load.requests /\ req[c] = Idle
  /\ account[a].active
  /\ Step(c, [Idle EXCEPT !.at = "check", !.via = "phone", !.acct = a, !.guess = code,
                          !.dev = dev, !.ip = ip])
  /\ UNCHANGED <<db, password, phone, social, rest>>

\* VERIFY_OTP_SCRIPT.
CheckCode(c) ==
  LET a == req[c].acct
      g == otp[a].gen
      right == req[c].guess = g
      spent == right \/ otp[a].attempts + 1 >= OtpAttempts
  IN /\ req[c].at = "check"
     /\ IF g = 0 THEN Refuse(c) /\ UNCHANGED <<otp, tries>>
        ELSE /\ otp' = [otp EXCEPT ![a] = IF spent THEN NoCode ELSE [otp[a] EXCEPT !.attempts = @ + 1]]
             /\ tries' = IF right THEN [tries EXCEPT ![g].right = @ + 1]
                                  ELSE [tries EXCEPT ![g].wrong = @ + 1]
             /\ IF right THEN Goto(c, "device") ELSE Refuse(c)
     /\ UNCHANGED <<db, password, sends, drawn, social, rest>>

-----------------------------------------------------------------------------
(***************************************************************************)
(* start_oidc and login_oidc.                                              *)
(***************************************************************************)
StartOidc ==
  /\ "social" \in load.requests /\ Len(state) < MaxStates
  /\ state' = Append(state, "live")
  /\ UNCHANGED <<db, password, phone, rest, req>>

\* consume_oidc_workflow, one GETDEL.
TakeState(st) == state' = [state EXCEPT ![st] = "gone"]

\* The callback of another provider, a code the provider refuses and an address it has not
\* verified end here (accepted is FALSE); the state is gone all the same.
LoginOidc(c, st, s, dev, ip, accepted) ==
  /\ req[c] = Idle /\ state[st] = "live"
  /\ TakeState(st)
  /\ IF accepted
     THEN Step(c, [Idle EXCEPT !.at = "find", !.via = "social", !.guess = st, !.sub = s, !.dev = dev, !.ip = ip])
     ELSE UNCHANGED req
  /\ UNCHANGED <<db, password, phone, rest>>

FindIdentity(c) ==
  /\ req[c].at = "find"
  /\ IF Linked(req[c].sub) = {} THEN Goto(c, "find mail")
     ELSE \E a \in Linked(req[c].sub) :
            IF account[a].active THEN Step(c, [req[c] EXCEPT !.at = "device", !.acct = a])
                                 ELSE Refuse(c)
  /\ UNCHANGED <<db, password, phone, social, rest>>

Decide(c, d) == decided' = Append(decided, [via |-> req[c].via, acct |-> req[c].acct, sub |-> req[c].sub,
                                            state |-> IF req[c].via = "social" THEN req[c].guess ELSE 0,
                                            dev |-> req[c].dev, known |-> req[c].known, decision |-> d])

\* active_user_by_email: the address belongs to an account, in whatever state it is.
FindMail(c) ==
  /\ req[c].at = "find mail" /\ Len(decided) < MaxLogins
  /\ IF Accounts(MailOf[req[c].sub]) = {} THEN Goto(c, "provision") /\ UNCHANGED decided
     ELSE /\ \E a \in Accounts(MailOf[req[c].sub]) :
               decided' = Append(decided, [via |-> "social", acct |-> a, sub |-> req[c].sub, dev |-> req[c].dev,
                                           state |-> req[c].guess, known |-> FALSE, decision |-> "collision"])
          /\ Refuse(c)
  /\ UNCHANGED <<db, password, phone, social, load, raced, cut>>

NewAccount(m, pw) ==
  /\ Len(account) < MaxAccounts
  /\ account' = Append(account, [mail |-> m, active |-> TRUE, password |-> pw, dated |-> FALSE])
  /\ latest' = Append(latest, pw)
  /\ otp' = Append(otp, NoCode)

\* Mutant: the tables have no unique constraints.
NothingUnique(s) == TRUE

\* The address of a user and the subject of an identity are unique.
Unique(s) == Accounts(MailOf[s]) = {} /\ Linked(s) = {}

\* provision_oidc: the user and its identity in one transaction, or neither.
ProvisionOidc(c) ==
  LET s == req[c].sub
  IN /\ req[c].at = "provision"
     /\ IF Unique(s)
        THEN /\ NewAccount(MailOf[s], 0)
             /\ identity' = identity \cup {<<s, Len(account) + 1>>}
             /\ Step(c, [req[c] EXCEPT !.at = "device", !.acct = Len(account) + 1])
        ELSE Refuse(c) /\ UNCHANGED <<account, latest, otp, identity>>
     /\ UNCHANGED <<device, password, sends, drawn, tries, social, rest>>

-----------------------------------------------------------------------------
(***************************************************************************)
(* _primary_decision.                                                      *)
(***************************************************************************)
Seen(a, dev) == {d \in device : d.acct = a /\ d.dev = dev}

\* device_signals: a device that is there is locked and updated ...
SelectDevice(c) ==
  LET r == req[c]
      rows == Seen(r.acct, r.dev)
  IN /\ r.at = "device"
     /\ IF rows = {} THEN Goto(c, "insert device") /\ UNCHANGED device
        ELSE \E d \in rows :
               /\ device' = (device \ {d}) \cup {[d EXCEPT !.ip = r.ip]}
               /\ Step(c, [r EXCEPT !.at = "decide", !.known = TRUE,
                                    !.moved = r.ip # None /\ d.ip # None /\ d.ip # r.ip])
     /\ UNCHANGED <<account, identity, latest, password, phone, social, rest>>

\* Mutant: a device that came in meanwhile is not noticed.
InsertDeviceAgain(c) ==
  LET r == req[c]
  IN /\ r.at = "insert device"
     /\ device' = device \cup {[acct |-> r.acct, dev |-> r.dev, ip |-> r.ip]}
     /\ Step(c, [r EXCEPT !.at = "decide", !.known = FALSE])
     /\ UNCHANGED <<account, identity, latest, password, phone, social, rest>>

\* ... and one that was not there is inserted; if another login was faster the unique
\* constraint fails this one.
InsertDevice(c) ==
  LET r == req[c]
  IN /\ r.at = "insert device"
     /\ IF Seen(r.acct, r.dev) = {}
        THEN /\ device' = device \cup {[acct |-> r.acct, dev |-> r.dev, ip |-> r.ip]}
             /\ Step(c, [r EXCEPT !.at = "decide", !.known = FALSE])
        ELSE Refuse(c) /\ UNCHANGED device
     /\ UNCHANGED <<account, identity, latest, password, phone, social, rest>>

\* No code of the repository writes trust_state: 20 points are always there.
Score(r) == (IF r.known THEN 0 ELSE 50) + 20 + (IF r.moved THEN 30 ELSE 0)

PrimaryDecision(c) ==
  /\ req[c].at = "decide" /\ Len(decided) < MaxLogins
  /\ Decide(c, IF Score(req[c]) >= 25 THEN "mfa" ELSE "ready")
  /\ Refuse(c)
  /\ UNCHANGED <<db, password, phone, social, load, raced, cut>>

-----------------------------------------------------------------------------
(***************************************************************************)
(* Time, failures, and the rest of the system.                             *)
(***************************************************************************)
\* LOGIN_LOCK_TTL_SECONDS is longer than PASSWORD_ATTEMPT_WINDOW: the counter goes first.
ExpireAttempts(s) ==
  /\ attempts[s] > 0
  /\ Forget(s)
  /\ UNCHANGED <<db, phone, social, rest, req>>

ExpireLock(s) ==
  /\ lock[s] = "fading"
  /\ lock' = [lock EXCEPT ![s] = "open"]
  /\ UNCHANGED <<db, attempts, phone, social, rest, req>>

ExpireOtp(a) ==
  /\ otp[a].ttl
  /\ otp' = [otp EXCEPT ![a] = NoCode]
  /\ UNCHANGED <<db, password, sends, drawn, tries, social, rest, req>>

ExpireSends(a) ==
  /\ sends[a] > 0
  /\ sends' = [sends EXCEPT ![a] = 0]
  /\ UNCHANGED <<db, password, otp, drawn, tries, social, rest, req>>

ExpireState(st) ==
  /\ state[st] = "live"
  /\ state' = [state EXCEPT ![st] = "gone"]
  /\ UNCHANGED <<db, password, phone, rest, req>>

\* A request that raises, is cancelled, or whose process dies.
Stop(c) ==
  /\ "stop" \in load.requests /\ req[c] # Idle
  /\ cut' = IF req[c].at = "expire" THEN cut \cup {req[c].acct} ELSE cut
  /\ Refuse(c)
  /\ UNCHANGED <<db, password, phone, social, load, decided, raced>>

\* RecoveryRepository sets a new password, hashed with the parameters of today.
HoldsOldPassword(c, a) == req[c].acct = a /\ req[c].dated /\ req[c].at \in {"reset", "rehash"}

ResetPassword(a) ==
  /\ "reset" \in load.requests /\ latest[a] < MaxPassword
  /\ latest' = [latest EXCEPT ![a] = @ + 1]
  /\ account' = [account EXCEPT ![a].password = latest[a] + 1, ![a].dated = FALSE]
  /\ raced' = IF \E c \in Clients : HoldsOldPassword(c, a) THEN raced \cup {a} ELSE raced
  /\ UNCHANGED <<identity, device, password, phone, social, load, decided, cut, req>>

Suspend(a) ==
  /\ "suspend" \in load.requests /\ account[a].active
  /\ account' = [account EXCEPT ![a].active = FALSE]
  /\ UNCHANGED <<identity, device, latest, password, phone, social, rest, req>>

\* Registration of an address nobody has.
Register(m) ==
  /\ "register" \in load.requests /\ Accounts(m) = {}
  /\ NewAccount(m, 1)
  /\ UNCHANGED <<identity, device, password, sends, drawn, tries, social, rest, req>>

LoginNext ==
  \/ StartOidc
  \/ \E c \in Clients :
       \/ \E dev \in Devices, ip \in load.from :
            \/ \E m \in Mails, guess \in 0..MaxPassword : LoginPassword(c, m, guess, dev, ip)
            \/ \E a \in DOMAIN account : \E code \in {0, otp[a].gen} : LoginPhone(c, a, code, dev, ip)
            \/ \E st \in DOMAIN state, s \in Subjects, ok \in BOOLEAN : LoginOidc(c, st, s, dev, ip, ok)
       \/ \E a \in DOMAIN account : RequestPhoneOtp(c, a)
       \/ ReadIdentity(c) \/ CountMail(c) \/ CountAddress(c) \/ LockLogin(c)
       \/ ResetAttempts(c) \/ Rehash(c)
       \/ StoreOtpHash(c) \/ ExpireOtpHash(c) \/ CheckCode(c)
       \/ \E sent \in BOOLEAN : SendCode(c, sent)
       \/ FindIdentity(c) \/ FindMail(c) \/ ProvisionOidc(c)
       \/ SelectDevice(c) \/ InsertDevice(c) \/ PrimaryDecision(c)
       \/ Stop(c)
  \/ \E s \in Counted : ExpireAttempts(s) \/ ExpireLock(s)
  \/ \E a \in DOMAIN account : ExpireOtp(a) \/ ExpireSends(a) \/ ResetPassword(a) \/ Suspend(a)
  \/ \E st \in DOMAIN state : ExpireState(st)
  \/ \E m \in Mails : Register(m)

LoginSpec == LoginInit /\ [][LoginNext]_lvars

-----------------------------------------------------------------------------
(***************************************************************************)
(* Properties.                                                             *)
(***************************************************************************)
\* The lock is read before the password is compared and the failure is counted after it:
\* the attempts already past the lock add to the limit, and nothing else does, whichever
\* address they share and whoever logs in meanwhile.  A phone code is compared at most
\* OTP_MAX_ATTEMPTS times, by a script, so nothing adds to that; and it is accepted once.
AttemptsBounded ==
  /\ "stop" \notin load.requests =>
       \A s \in Counted : attempts[s] <= AttemptLimit - 1 + Cardinality(Clients)
  /\ \A g \in DOMAIN tries : tries[g].right <= 1 /\ tries[g].wrong + tries[g].right <= OtpAttempts

\* The password that works is the one the owner chose last, unless the reset fell between
\* the read and the write of a login that renewed an outdated hash.
PasswordUnlessRaced ==
  \A a \in DOMAIN account : a \in raced \/ account[a].password = latest[a]

\* A device is new to an account once: of two first logins from it only one gets through.
FirstSightOnce ==
  \A i, j \in DOMAIN decided :
    /\ decided[i].decision # "collision" /\ decided[j].decision # "collision"
    /\ decided[i].acct = decided[j].acct /\ decided[i].dev = decided[j].dev
    /\ ~decided[i].known /\ ~decided[j].known
    => i = j

\* Of a social login: its state led to one decision; anything but a collision is for the
\* account the subject is linked to; and an address never has two accounts, however the
\* callbacks and registrations overlapped.
SocialLogins ==
  /\ \A i, j \in DOMAIN decided : decided[i].via = "social" /\ decided[j].via = "social"
                                  /\ decided[i].state = decided[j].state => i = j
  /\ \A i \in DOMAIN decided : decided[i].via = "social" /\ decided[i].decision # "collision"
                               => Linked(decided[i].sub) = {decided[i].acct}
  /\ \A m \in Mails : Cardinality(Accounts(m)) <= 1

\* The hash of a phone code always has a time to live, or a request under way that is about to
\* give it one, unless a request stopped between the two commands: no order of sending,
\* checking and failing deliveries leaves a code that never expires.
KeysExpireUnlessCut ==
  \A a \in DOMAIN otp : otp[a].gen # 0 /\ ~otp[a].ttl =>
    a \in cut \/ \E c \in Clients : req[c].at = "expire" /\ req[c].acct = a

=============================================================================
