------------------------------ MODULE MfaProofs ------------------------------
(***************************************************************************)
(* The second step of a login, for any number of clients, users and        *)
(* factors.  StoresInv says what the stores hold and what a request has in *)
(* hand; Exclusive that a login is in one place.  On them rest the         *)
(* invariants for factors, for the counters of wrong codes and for the     *)
(* refinement of LoginTicket.                                              *)
(***************************************************************************)
EXTENDS Mfa, FiniteSetTheorems, TLAPS

\* The steps of a request: those at which it has only read a token, those at which it has
\* taken one, and those of _send_otp, which are reached in both ways.
Reads == Taking \cup {"totp", "advance", "count", "lock", "otp", "backup_codes", "void", "delete",
                      "consume", "activate"}
Carries == {"revoke row", "pending row", "insert totp", "store", "complete", "codes", "new codes",
            "insert codes", "attestation", "assertion", "counter"}
Sends == {"send", "deliver"}
OnFactor == {"revoke", "revoke row", "totp", "advance", "count", "lock", "activate", "assertion", "counter"}
Labels == {"idle"} \cup Reads \cup Carries \cup Sends

VerifyMethods == {"totp", "otp", "backup_codes"}
TokenKinds == {"workflow", "verify", "enroll", "register", "authenticate"}

RequestState ==
  [at : Labels, tok : Nat, new : Nat, fac : Nat, kind : TokenKinds, method : VerifyMethods \cup {None},
   code : Nat, seen : Nat, read : Payload \cup {None}, pay : Payload \cup {None}]

OtpRow == [gen : Nat, attempts : 0..(OtpAttempts - 1)]

\* The token a request has read: what it saw is there or gone.
Saw(r) ==
  /\ r.tok \in DOMAIN token /\ r.read.login \in DOMAIN began
  /\ token[r.tok].state # "drawn"
  /\ token[r.tok].state = "live" => token[r.tok].pay = r.read

\* What a request has in hand.
Placed(r) ==
  /\ r.at \in Carries => r.pay # None
  /\ r.at \notin Carries \cup Sends => r.pay = None
  /\ r.pay # None => r.pay.login \in DOMAIN began /\ (r.at # "assertion" => r.pay.user \in Users)
  /\ r.at \in Reads \cup Sends => r.read # None /\ r.read.user \in Users
  /\ r.at \in Reads => Saw(r)
  /\ r.at \in OnFactor => r.fac \in DOMAIN factor
  /\ r.at \in {"challenge", "store"} /\ r.kind = "verify" =>
       r.method \in VerifyMethods /\ (r.method = "totp" => r.fac \in DOMAIN factor)
  /\ r.at = "store" /\ r.kind = "enroll" => r.fac \in DOMAIN factor
  /\ r.at = "challenge" => r.kind = "verify"
  /\ r.at \in {"setup", "pending row", "insert totp"} => r.kind = "enroll"
  /\ r.at = "register" => r.kind = "register"
  /\ r.at = "authenticate" => r.kind = "authenticate"
  /\ r.at = "store" => r.kind # "workflow"
  /\ r.at \in Sends /\ r.pay # None => r.kind = "verify" /\ r.method = "otp"
  /\ r.at \in Taking \cup {"pending row", "insert totp"} => r.new = 0
  /\ r.at = "send" => (r.pay = None <=> r.new # 0) /\ (r.new # 0 => r.new \in DOMAIN token)
  /\ r.at = "deliver" => r.new \in DOMAIN token
  /\ r.at \in {"deliver", "store"} /\ r.pay # None /\ r.new # 0 =>
       r.new \in DOMAIN token /\ token[r.new].state = "drawn" /\ token[r.new].pay = r.pay
  /\ r.at = "advance" => r.code > r.seen
  /\ r.at = "counter" => r.code >= r.seen
  /\ r.at = "activate" => r.code > 0

GoodFactor(x) ==
  /\ x.status = "pending" => x.step = 0 /\ x.type = "totp"
  /\ x.type = "backup_codes" /\ x.status = "active" => x.codes # {}
  /\ \A k \in x.codes : k <= fresh

GoodToken(x) ==
  x.state # "gone" =>
    /\ x.pay # None /\ x.pay.login \in DOMAIN began /\ x.kind \in TokenKinds
    /\ x.kind # "authenticate" => x.pay.user \in Users
    /\ x.kind = "verify" => x.method \in VerifyMethods /\ (x.method = "totp" => x.fac \in DOMAIN factor)
    /\ x.kind = "enroll" => x.fac \in DOMAIN factor

FactorTables ==
  /\ load \in Workloads
  /\ factor \in Seq(FactorRow) /\ Len(load.enrolled) <= Len(factor)
  /\ \A f \in DOMAIN factor : GoodFactor(factor[f])
  /\ fails \in Seq(Nat) /\ Len(fails) = Len(factor)
  /\ lock \in Seq({"open", "locked", "fading"}) /\ Len(lock) = Len(factor)

TokenTables ==
  /\ token \in Seq(TokenRow) /\ \A t \in DOMAIN token : GoodToken(token[t])
  /\ otp \in Seq(OtpRow) /\ Len(otp) = Len(token)
  /\ \A t \in DOMAIN otp : otp[t].gen <= fresh

WorldTables ==
  /\ voided \in [Users -> Nat] /\ sends \in [Users -> Nat]
  /\ active \subseteq Users /\ linked \subseteq Subjects \X Users \X Nat
  /\ now \in Nat /\ fresh \in Nat
  /\ began \in Seq({"low", "guarded"}) /\ Len(began) <= MaxLogins
  /\ raced \subseteq {"factors", "codes"}

Requests == req \in [Clients -> RequestState] /\ \A c \in Clients : Placed(req[c])

\* A login is in one place: a stored token or a request that took it.
Exclusive ==
  /\ \A s, t \in DOMAIN token : token[s].state = "live" /\ token[t].state = "live"
                                  /\ token[s].pay.login = token[t].pay.login => s = t
  /\ \A c, d \in Clients : req[c].pay # None /\ req[d].pay # None
                             /\ req[c].pay.login = req[d].pay.login => c = d
  /\ \A t \in DOMAIN token, c \in Clients : token[t].state = "live" /\ req[c].pay # None
                                              => token[t].pay.login # req[c].pay.login

StoresInv == FactorTables /\ TokenTables /\ WorldTables /\ Requests /\ Exclusive

-----------------------------------------------------------------------------
CodeRows(u) == OfType(ActiveFactors(u), {"backup_codes"})

\* A removal that was decided leaves another strong factor.
RemovalsLeaveOne ==
  "factors" \notin raced =>
    \A c \in Clients : req[c].at \in {"revoke", "revoke row"} /\ factor[req[c].fac].type \in Strong
                         => StrongFactors(factor[req[c].fac].user) \ {req[c].fac} # {}

\* Nobody has two sets of backup codes, or is about to get a second one.
OneCodeSet ==
  "codes" \notin raced =>
    /\ \A u \in Users : \A f, g \in CodeRows(u) : f = g
    /\ \A c \in Clients : req[c].at = "insert codes" => CodeRows(req[c].pay.user) = {}

FactorInv == RemovalsLeaveOne /\ OneCodeSet

\* The requests that may still count for an authenticator, and those that will lock it.
Counts(r, f) == r.at \in {"totp", "advance", "count"} /\ r.fac = f
Locks(r, f) == r.at = "lock" /\ r.fac = f
WillCount(f) == {c \in Clients : Counts(req[c], f)}
WillLock(f) == {c \in Clients : Locks(req[c], f)}
CounterHolds(f) ==
  /\ factor[f].status # "pending"
  /\ lock[f] # "locked" => fails[f] <= FailureLimit - 1 + Cardinality(WillLock(f))
  /\ lock[f] = "locked" => fails[f] + Cardinality(WillCount(f)) <= FailureLimit - 1 + Cardinality(Clients)
CountersInv == "stop" \notin load.requests => \A f \in DOMAIN load.enrolled : CounterHolds(f)

\* The payloads that stored tokens and requests hold.
Held == {token[t].pay : t \in {s \in DOMAIN token : token[s].state = "live"}} \cup ({req[c].pay : c \in Clients} \ {None})

\* A proof has been spent for the login.
ProvedFor(l) == \E e \in pledge : e.login = l

\* What a payload says is true of its login.
TruePay(p) ==
  /\ p.assured => ProvedFor(p.login)
  /\ p.decision = "session_ready" => p.assured \/ began[p.login] = "low"

\* What a request has proved.
OfPasskey == {"attestation", "assertion", "counter"}
Proved(r) ==
  /\ r.at = "consume" => ProvedFor(r.read.login)
  /\ r.at \in {"complete", "codes", "new codes", "insert codes"} => ProvedFor(r.pay.login)
  /\ r.at = "revoke" => r.read.assured
  /\ r.at = "revoke row" => r.pay.assured
  /\ r.at \in OfPasskey => r.tok \in DOMAIN token /\ token[r.tok].state = "gone"

\* A proof that was spent cannot be spent again.
CannotRepeat(k, i, j) ==
  /\ j \in Nat
  /\ k \in {"password", "passkey"} => i \in DOMAIN token /\ token[i].state = "gone"
  /\ k = "totp" => i \in DOMAIN factor /\ j <= factor[i].step
  /\ k = "otp" => i \in DOMAIN otp /\ otp[i].gen # j /\ j # 0 /\ j <= fresh
  /\ k = "backup" => i \in DOMAIN factor /\ j \notin factor[i].codes /\ j <= fresh
  /\ k = "enroll" /\ j > 0 => i \in DOMAIN factor /\ factor[i].status # "pending"
  /\ k = "enroll" /\ j = 0 => i \in DOMAIN token /\ token[i].state = "gone"
Used(e) == CannotRepeat(e.proof[1], e.proof[2], e.proof[3])

\* The challenge of a passkey was taken by one request, which has not spent it yet.
Unspent(c) ==
  req[c].at \in OfPasskey =>
    /\ \A e \in pledge : /\ req[c].at = "attestation" => e.proof # <<"enroll", req[c].tok, 0>>
                         /\ req[c].at \in {"assertion", "counter"} => e.proof # <<"passkey", req[c].tok, 0>>
    /\ \A d \in Clients : req[d].at \in OfPasskey /\ req[d].tok = req[c].tok => c = d

PaysTrue == \A p \in Held : TruePay(p)
RequestsProved == \A c \in Clients : Proved(req[c]) /\ Unspent(c)
ProofsUsed == \A e \in pledge : Used(e)
TicketInv == PaysTrue /\ RequestsProved /\ ProofsUsed

-----------------------------------------------------------------------------
(***************************************************************************)
(* Sequences.                                                              *)
(***************************************************************************)
\* A sequence whose elements are replaced one by one.
LEMMA SameLength ==
  ASSUME NEW S, NEW T, NEW s \in Seq(S), NEW f, f = [k \in DOMAIN s |-> f[k]],
         \A k \in DOMAIN s : f[k] \in T
  PROVE  f \in Seq(T) /\ Len(f) = Len(s) /\ DOMAIN f = DOMAIN s
<1>1. DOMAIN s = 1..Len(s) /\ Len(s) \in Nat
  OBVIOUS
<1>2. f = [k \in 1..Len(s) |-> f[k]] /\ \A k \in 1..Len(s) : f[k] \in T
  BY <1>1
<1>3. f \in Seq(T) /\ Len(f) = Len(s)
  BY <1>1, <1>2
<1>4. QED
  BY <1>1, <1>3

\* A sequence of which one element is replaced.
LEMMA OneEntry ==
  ASSUME NEW S, NEW s \in Seq(S), NEW id \in DOMAIN s, NEW x \in S, NEW f, f = [s EXCEPT ![id] = x]
  PROVE  /\ f \in Seq(S) /\ Len(f) = Len(s) /\ DOMAIN f = DOMAIN s
         /\ f[id] = x /\ \A k \in DOMAIN s : k # id => f[k] = s[k]
<1>1. /\ f = [k \in DOMAIN s |-> f[k]]
      /\ f[id] = x /\ \A k \in DOMAIN s : k # id => f[k] = s[k]
  OBVIOUS
<1>2. \A k \in DOMAIN s : f[k] \in S
  BY <1>1
<1>3. QED
  BY <1>1, <1>2, SameLength

\* A sequence with one element more.
LEMMA OneMore ==
  ASSUME NEW S, NEW s \in Seq(S), NEW x \in S, NEW f, f = Append(s, x)
  PROVE  /\ f \in Seq(S) /\ Len(f) = Len(s) + 1 /\ DOMAIN f = DOMAIN s \cup {Len(s) + 1}
         /\ f[Len(s) + 1] = x /\ Len(s) + 1 \notin DOMAIN s /\ \A k \in DOMAIN s : f[k] = s[k]
<1>1. DOMAIN s = 1..Len(s) /\ Len(s) \in Nat
  OBVIOUS
<1>2. /\ f \in Seq(S) /\ Len(f) = Len(s) + 1
      /\ f[Len(s) + 1] = x /\ \A k \in 1..Len(s) : f[k] = s[k]
  OBVIOUS
<1>3. DOMAIN f = 1..(Len(s) + 1)
  BY <1>1, <1>2
<1>4. QED
  BY <1>1, <1>2, <1>3

-----------------------------------------------------------------------------
(***************************************************************************)
(* Requests.                                                               *)
(***************************************************************************)
LEMMA LabelsAre ==
  Labels = {"idle", "revoke", "setup", "challenge", "register", "authenticate", "prove", "totp", "advance",
            "count", "lock", "otp", "backup_codes", "void", "delete", "consume", "activate", "revoke row",
            "pending row", "insert totp", "store", "complete", "codes", "new codes", "insert codes",
            "attestation", "assertion", "counter", "send", "deliver"}
BY DEF Labels, Reads, Carries, Sends, Taking

LEMMA StoresAre ==
  ASSUME StoresInv
  PROVE  /\ Len(factor) \in Nat /\ DOMAIN factor = 1..Len(factor) /\ 0 \notin DOMAIN factor
         /\ DOMAIN fails = DOMAIN factor /\ DOMAIN lock = DOMAIN factor
         /\ \A f \in DOMAIN factor : /\ factor[f] \in FactorRow /\ GoodFactor(factor[f]) /\ fails[f] \in Nat
                                     /\ lock[f] \in {"open", "locked", "fading"}
         /\ Len(token) \in Nat /\ DOMAIN token = 1..Len(token) /\ 0 \notin DOMAIN token
         /\ DOMAIN otp = DOMAIN token
         /\ \A t \in DOMAIN token : /\ token[t] \in TokenRow /\ GoodToken(token[t]) /\ otp[t] \in OtpRow
                                    /\ otp[t].gen <= fresh
         /\ \A c \in Clients : req[c] \in RequestState /\ Placed(req[c])
         /\ now \in Nat /\ fresh \in Nat
<1>1. /\ Len(factor) \in Nat /\ DOMAIN factor = 1..Len(factor) /\ 0 \notin DOMAIN factor
      /\ \A f \in DOMAIN factor : factor[f] \in FactorRow /\ GoodFactor(factor[f])
  BY DEF StoresInv, FactorTables
<1>2. DOMAIN fails = DOMAIN factor /\ \A f \in DOMAIN factor : fails[f] \in Nat
  BY <1>1 DEF StoresInv, FactorTables
<1>3. DOMAIN lock = DOMAIN factor /\ \A f \in DOMAIN factor : lock[f] \in {"open", "locked", "fading"}
  BY <1>1 DEF StoresInv, FactorTables
<1>4. /\ Len(token) \in Nat /\ DOMAIN token = 1..Len(token) /\ 0 \notin DOMAIN token
      /\ \A t \in DOMAIN token : token[t] \in TokenRow /\ GoodToken(token[t])
  BY DEF StoresInv, TokenTables
<1>5. DOMAIN otp = DOMAIN token /\ \A t \in DOMAIN token : otp[t] \in OtpRow /\ otp[t].gen <= fresh
  BY <1>4 DEF StoresInv, TokenTables
<1>6. \A c \in Clients : req[c] \in RequestState /\ Placed(req[c])
  BY DEF StoresInv, Requests
<1>7. now \in Nat /\ fresh \in Nat
  BY DEF StoresInv, WorldTables
<1>8. QED
  BY <1>1, <1>2, <1>3, <1>4, <1>5, <1>6, <1>7

\* Rows stay where they are, and a token that is not being drawn may go.
Grows ==
  /\ load' = load
  /\ DOMAIN factor \subseteq DOMAIN factor' /\ DOMAIN token \subseteq DOMAIN token'
  /\ DOMAIN began \subseteq DOMAIN began'
  /\ \A t \in DOMAIN token : token'[t] = token[t] \/ (token[t].state # "drawn" /\ token'[t] = Gone)

LEMMA StaysPlaced ==
  ASSUME Grows, NEW r, Placed(r)
  PROVE  Placed(r)'
<1>1. ASSUME Saw(r) PROVE Saw(r)'
  BY <1>1 DEF Grows, Saw, Gone
<1>2. ASSUME r.new \in DOMAIN token, token[r.new].state = "drawn", token[r.new].pay = r.pay
      PROVE  r.new \in DOMAIN token' /\ token'[r.new].state = "drawn" /\ token'[r.new].pay = r.pay
  BY <1>2 DEF Grows
<1>3. QED
  BY <1>1, <1>2 DEF Placed, Grows

LEMMA StepMoves ==
  ASSUME Requests, NEW c \in Clients, NEW r, Step(c, r)
  PROVE  req'[c] = r /\ \A d \in Clients : d # c => req'[d] = req[d]
BY DEF Requests, Step

\* A step of one request that leaves it placed.
LEMMA OneMoves ==
  ASSUME Requests, Grows, NEW c \in Clients, NEW r \in RequestState, Step(c, r), Placed(r)'
  PROVE  Requests'
<1>1. req' \in [Clients -> RequestState]
  BY DEF Requests, Step
<1>2. ASSUME NEW d \in Clients PROVE Placed(req[d])'
  <2>1. CASE d = c
    <3>1. req'[d] = r
      BY <2>1, StepMoves
    <3>2. QED
      BY <3>1
  <2>2. CASE d # c
    <3>1. req'[d] = req[d] /\ Placed(req[d])
      BY <2>2, StepMoves DEF Requests
    <3>2. PICK x : x = req[d]
      OBVIOUS
    <3>3. Placed(x)'
      BY <3>1, <3>2, StaysPlaced
    <3>4. QED
      BY <3>1, <3>2, <3>3
  <2>3. QED
    BY <2>1, <2>2
<1>3. QED
  BY <1>1, <1>2 DEF Requests

LEMMA NobodyMoves ==
  ASSUME Requests, Grows, req' = req
  PROVE  Requests'
<1>1. ASSUME NEW d \in Clients PROVE Placed(req[d])'
  <2>1. PICK x : x = req[d]
    OBVIOUS
  <2>2. Placed(x)'
    BY <2>1, StaysPlaced DEF Requests
  <2>3. QED
    BY <2>1, <2>2
<1>2. QED
  BY <1>1 DEF Requests

LEMMA IdleIs ==
  /\ Idle \in RequestState /\ Placed(Idle) /\ Placed(Idle)' /\ Idle.pay = None /\ Idle.at = "idle"
BY LabelsAre DEF Idle, RequestState, Placed, Reads, Carries, Sends, Taking, OnFactor, TokenKinds
-----------------------------------------------------------------------------
(***************************************************************************)
(* Where logins go.  Every step is of one of these kinds.                  *)
(***************************************************************************)
LiveAt(t) == t \in DOMAIN token /\ token[t].state = "live"

SameTokens(T) ==
  /\ DOMAIN token \subseteq DOMAIN token'
  /\ \A t \in DOMAIN token' \ T : /\ LiveAt(t)' <=> LiveAt(t)
                                  /\ LiveAt(t) => token'[t].pay = token[t].pay
SamePays(C) == \A d \in Clients \ C : req'[d].pay = req[d].pay

Quiet == SameTokens({}) /\ SamePays({})
TokenLost(t) == LiveAt(t) /\ ~LiveAt(t)' /\ SameTokens({t}) /\ SamePays({})
PayLost(c) == SameTokens({}) /\ SamePays({c}) /\ req[c].pay # None /\ req'[c].pay = None
Taken(c, t) ==
  /\ LiveAt(t) /\ ~LiveAt(t)' /\ SameTokens({t}) /\ SamePays({c})
  /\ req[c].pay = None /\ req'[c].pay = token[t].pay
Put(c, t) ==
  /\ ~LiveAt(t) /\ LiveAt(t)' /\ SameTokens({t}) /\ SamePays({c})
  /\ req[c].pay # None /\ req'[c].pay = None /\ token'[t].pay.login = req[c].pay.login
Drawn(t) ==
  /\ ~LiveAt(t) /\ LiveAt(t)' /\ SameTokens({t}) /\ SamePays({})
  /\ token'[t].pay.login \notin DOMAIN began
Named(c) ==
  /\ SameTokens({}) /\ SamePays({c}) /\ req[c].pay # None /\ req'[c].pay # None
  /\ req'[c].pay.login = req[c].pay.login /\ req'[c].pay.assured = req[c].pay.assured

LEMMA QuietKeeps ==
  ASSUME StoresInv, Quiet
  PROVE  Exclusive'
BY DEF StoresInv, Quiet, Exclusive, SameTokens, SamePays, LiveAt

LEMMA TokenLostKeeps ==
  ASSUME StoresInv, NEW t, TokenLost(t)
  PROVE  Exclusive'
BY DEF StoresInv, TokenLost, Exclusive, SameTokens, SamePays, LiveAt

LEMMA PayLostKeeps ==
  ASSUME StoresInv, NEW c, PayLost(c)
  PROVE  Exclusive'
BY DEF StoresInv, PayLost, Exclusive, SameTokens, SamePays, LiveAt

LEMMA NamedKeeps ==
  ASSUME StoresInv, NEW c, Named(c)
  PROVE  Exclusive'
BY DEF StoresInv, Named, Exclusive, SameTokens, SamePays, LiveAt

LEMMA TakenKeeps ==
  ASSUME StoresInv, NEW c, NEW t, Taken(c, t)
  PROVE  Exclusive'
BY DEF StoresInv, Taken, Exclusive, SameTokens, SamePays, LiveAt

LEMMA PutKeeps ==
  ASSUME StoresInv, NEW c \in Clients, NEW t, Put(c, t)
  PROVE  Exclusive'
BY DEF StoresInv, Put, Exclusive, SameTokens, SamePays, LiveAt

LEMMA DrawnKeeps ==
  ASSUME StoresInv, NEW t, Drawn(t)
  PROVE  Exclusive'
<1>1. \A s \in DOMAIN token : token[s].state = "live" => token[s].pay.login \in DOMAIN began
  BY StoresAre DEF GoodToken
<1>2. \A c \in Clients : req[c].pay # None => req[c].pay.login \in DOMAIN began
  BY StoresAre DEF Placed
<1>3. QED
  BY <1>1, <1>2 DEF StoresInv, Drawn, Exclusive, SameTokens, SamePays, LiveAt

-----------------------------------------------------------------------------
(***************************************************************************)
(* The parts of StoresInv a step leaves alone.                             *)
(***************************************************************************)
LEMMA FactorsStay ==
  ASSUME StoresInv, UNCHANGED <<load, factor, fails, lock>>, fresh' \in Nat, fresh <= fresh'
  PROVE  FactorTables'
<1>1. ASSUME NEW f \in DOMAIN factor PROVE GoodFactor(factor[f])'
  <2>1. GoodFactor(factor[f]) /\ factor[f] \in FactorRow /\ fresh \in Nat
    BY StoresAre
  <2>2. \A k \in factor[f].codes : k \in Nat
    BY <2>1 DEF FactorRow
  <2>3. \A k \in factor[f].codes : k <= fresh'
    BY <2>1, <2>2 DEF GoodFactor
  <2>4. QED
    BY <2>1, <2>3 DEF GoodFactor
<1>2. QED
  BY <1>1 DEF StoresInv, FactorTables

LEMMA TokensStay ==
  ASSUME StoresInv, UNCHANGED <<token, otp>>, DOMAIN factor \subseteq DOMAIN factor',
         DOMAIN began \subseteq DOMAIN began', fresh' \in Nat, fresh <= fresh'
  PROVE  TokenTables'
<1>1. ASSUME NEW t \in DOMAIN token PROVE GoodToken(token[t])'
  BY StoresAre DEF GoodToken
<1>2. ASSUME NEW t \in DOMAIN otp PROVE otp[t].gen <= fresh'
  <2>1. otp[t] \in OtpRow /\ otp[t].gen <= fresh /\ fresh \in Nat
    BY StoresAre
  <2>2. otp[t].gen \in Nat
    BY <2>1 DEF OtpRow
  <2>3. QED
    BY <2>1, <2>2
<1>3. QED
  BY <1>1, <1>2 DEF StoresInv, TokenTables

LEMMA WorldStays ==
  ASSUME StoresInv, UNCHANGED <<voided, sends, world, raced>>
  PROVE  WorldTables'
BY DEF StoresInv, WorldTables, world

\* A step of one request, and of nothing else.
LEMMA OnlyRequests ==
  ASSUME StoresInv, UNCHANGED <<factor, token, redis, world, raced, load>>,
         NEW c \in Clients, NEW r \in RequestState, Step(c, r), Placed(r)',
         \/ r.pay = None
         \/ req[c].pay # None /\ r.pay = req[c].pay
  PROVE  StoresInv' /\ (Quiet \/ PayLost(c))
<1>1. fresh \in Nat /\ Requests
  BY StoresAre DEF StoresInv
<1>2. FactorTables' /\ TokenTables' /\ WorldTables'
  BY <1>1, FactorsStay, TokensStay, WorldStays DEF redis, world
<1>3. Grows
  BY DEF Grows, world
<1>4. Requests'
  BY <1>1, <1>3, OneMoves
<1>5. req'[c] = r /\ \A d \in Clients : d # c => req'[d] = req[d]
  BY <1>1, StepMoves
<1>6. Quiet \/ PayLost(c)
  BY <1>5 DEF Quiet, PayLost, SameTokens, SamePays, LiveAt
<1>7. Exclusive'
  BY <1>6, QuietKeeps, PayLostKeeps
<1>8. QED
  BY <1>2, <1>4, <1>6, <1>7 DEF StoresInv

LEMMA OnlyRefuses ==
  ASSUME StoresInv, UNCHANGED <<factor, token, redis, world, raced, load>>, NEW c \in Clients, Refuse(c)
  PROVE  StoresInv' /\ (Quiet \/ PayLost(c))
BY IdleIs, OnlyRequests DEF Refuse

LEMMA NothingMoves ==
  ASSUME StoresInv, UNCHANGED <<factor, token, redis, world, raced, load, req>>
  PROVE  StoresInv' /\ Quiet
<1>1. fresh \in Nat /\ Requests
  BY StoresAre DEF StoresInv
<1>2. FactorTables' /\ TokenTables' /\ WorldTables'
  BY <1>1, FactorsStay, TokensStay, WorldStays DEF redis, world
<1>3. Grows
  BY DEF Grows, world
<1>4. Requests'
  BY <1>1, <1>3, NobodyMoves
<1>5. Quiet
  BY DEF Quiet, SameTokens, SamePays, LiveAt
<1>6. QED
  BY <1>2, <1>4, <1>5, QuietKeeps DEF StoresInv
\* The same, with the request placed as things are.
LEMMA GoesOn ==
  ASSUME StoresInv, UNCHANGED <<factor, token, redis, world, raced, load>>,
         NEW c \in Clients, NEW r \in RequestState, Step(c, r), Placed(r),
         \/ r.pay = None
         \/ req[c].pay # None /\ r.pay = req[c].pay
  PROVE  StoresInv' /\ (Quiet \/ PayLost(c))
<1>1. Grows
  BY DEF Grows, world
<1>2. Placed(r)'
  BY <1>1, StaysPlaced
<1>3. QED
  BY <1>2, OnlyRequests

-----------------------------------------------------------------------------
(***************************************************************************)
(* The first step of each handler.                                         *)
(***************************************************************************)
\* A request that has read a live token.
LEMMA ReadsToken ==
  ASSUME StoresInv, NEW t \in DOMAIN token, token[t].state = "live", token[t].kind # "authenticate",
         NEW r, r.tok = t, r.read = token[t].pay
  PROVE  Saw(r) /\ r.read \in Payload /\ r.read # None /\ r.read.user \in Users /\ t \in Nat
<1>1. token[t] \in TokenRow /\ GoodToken(token[t]) /\ t \in Nat
  BY StoresAre
<1>2. r.read \in Payload /\ r.read # None /\ r.read.user \in Users
  BY <1>1 DEF TokenRow, GoodToken
<1>3. Saw(r)
  BY <1>1 DEF Saw, GoodToken
<1>4. QED
  BY <1>1, <1>2, <1>3

LEMMA NoneIs == None \notin Payload
BY MfaAssumption

LEMMA OpensWorkflow ==
  ASSUME NEW c, NEW kind, NEW t, OpenWorkflow(c, kind, t)
  PROVE  /\ req[c] = Idle /\ t \in DOMAIN token /\ token[t].state = "live" /\ token[t].kind = "workflow"
         /\ UNCHANGED <<factor, token, redis, world, pledge, observers>>
         /\ UNCHANGED <<factor, token, redis, world, raced, load>>
BY DEF OpenWorkflow, Live, WorkflowTokens, observers

LEMMA RevokeFactorKeeps ==
  ASSUME StoresInv, NEW c \in Clients, NEW t, NEW f \in DOMAIN factor, RevokeFactor(c, t, f)
  PROVE  StoresInv' /\ (Quiet \/ PayLost(c))
<1>1. /\ t \in DOMAIN token /\ token[t].state = "live" /\ token[t].kind # "authenticate"
      /\ UNCHANGED <<factor, token, redis, world, raced, load>>
  BY OpensWorkflow DEF RevokeFactor
<1>2. f \in DOMAIN factor /\ f \in Nat
  BY StoresAre
<1>3. PICK r : r = [Reading(t) EXCEPT !.at = "revoke", !.fac = f]
  OBVIOUS
<1>4. /\ r.at = "revoke" /\ r.tok = t /\ r.new = 0 /\ r.fac = f /\ r.kind = "verify"
      /\ r.method = None /\ r.code = 0 /\ r.seen = 0 /\ r.read = token[t].pay /\ r.pay = None
  BY <1>3 DEF Reading, Idle
<1>5. Saw(r) /\ r.read \in Payload /\ r.read # None /\ r.read.user \in Users /\ t \in Nat
  BY <1>1, <1>4, ReadsToken
<1>6. r \in RequestState
  BY <1>2, <1>3, <1>5, LabelsAre DEF RequestState, Reading, Idle, TokenKinds, VerifyMethods
<1>7. Placed(r)
  BY <1>2, <1>4, <1>5 DEF Placed, Reads, Carries, Sends, Taking, OnFactor, VerifyMethods
<1>8. Step(c, r)
  BY <1>3 DEF RevokeFactor
<1>9. QED
  BY <1>1, <1>4, <1>6, <1>7, <1>8, GoesOn

LEMMA SetupTotpKeeps ==
  ASSUME StoresInv, NEW c \in Clients, NEW t, SetupTotp(c, t)
  PROVE  StoresInv' /\ (Quiet \/ PayLost(c))
<1>1. /\ t \in DOMAIN token /\ token[t].state = "live" /\ token[t].kind # "authenticate"
      /\ UNCHANGED <<factor, token, redis, world, raced, load>>
  BY OpensWorkflow DEF SetupTotp
<1>2. 0 \in Nat
  OBVIOUS
<1>3. PICK r : r = [Reading(t) EXCEPT !.at = "setup", !.kind = "enroll"]
  OBVIOUS
<1>4. /\ r.at = "setup" /\ r.tok = t /\ r.new = 0 /\ r.fac = 0 /\ r.kind = "enroll"
      /\ r.method = None /\ r.code = 0 /\ r.seen = 0 /\ r.read = token[t].pay /\ r.pay = None
  BY <1>3 DEF Reading, Idle
<1>5. Saw(r) /\ r.read \in Payload /\ r.read # None /\ r.read.user \in Users /\ t \in Nat
  BY <1>1, <1>4, ReadsToken
<1>6. r \in RequestState
  BY <1>2, <1>3, <1>5, LabelsAre DEF RequestState, Reading, Idle, TokenKinds, VerifyMethods
<1>7. Placed(r)
  BY <1>2, <1>4, <1>5 DEF Placed, Reads, Carries, Sends, Taking, OnFactor, VerifyMethods
<1>8. Step(c, r)
  BY <1>3 DEF SetupTotp
<1>9. QED
  BY <1>1, <1>4, <1>6, <1>7, <1>8, GoesOn

LEMMA PasskeyRegistrationOptionsKeeps ==
  ASSUME StoresInv, NEW c \in Clients, NEW t, PasskeyRegistrationOptions(c, t)
  PROVE  StoresInv' /\ (Quiet \/ PayLost(c))
<1>1. /\ t \in DOMAIN token /\ token[t].state = "live" /\ token[t].kind # "authenticate"
      /\ UNCHANGED <<factor, token, redis, world, raced, load>>
  BY OpensWorkflow DEF PasskeyRegistrationOptions
<1>2. 0 \in Nat
  OBVIOUS
<1>3. PICK r : r = [Reading(t) EXCEPT !.at = "register", !.kind = "register"]
  OBVIOUS
<1>4. /\ r.at = "register" /\ r.tok = t /\ r.new = 0 /\ r.fac = 0 /\ r.kind = "register"
      /\ r.method = None /\ r.code = 0 /\ r.seen = 0 /\ r.read = token[t].pay /\ r.pay = None
  BY <1>3 DEF Reading, Idle
<1>5. Saw(r) /\ r.read \in Payload /\ r.read # None /\ r.read.user \in Users /\ t \in Nat
  BY <1>1, <1>4, ReadsToken
<1>6. r \in RequestState
  BY <1>2, <1>3, <1>5, LabelsAre DEF RequestState, Reading, Idle, TokenKinds, VerifyMethods
<1>7. Placed(r)
  BY <1>2, <1>4, <1>5 DEF Placed, Reads, Carries, Sends, Taking, OnFactor, VerifyMethods
<1>8. Step(c, r)
  BY <1>3 DEF PasskeyRegistrationOptions
<1>9. QED
  BY <1>1, <1>4, <1>6, <1>7, <1>8, GoesOn

LEMMA PasskeyAuthenticationOptionsKeeps ==
  ASSUME StoresInv, NEW c \in Clients, NEW t, PasskeyAuthenticationOptions(c, t)
  PROVE  StoresInv' /\ (Quiet \/ PayLost(c))
<1>1. /\ t \in DOMAIN token /\ token[t].state = "live" /\ token[t].kind # "authenticate"
      /\ UNCHANGED <<factor, token, redis, world, raced, load>>
  BY OpensWorkflow DEF PasskeyAuthenticationOptions
<1>2. 0 \in Nat
  OBVIOUS
<1>3. PICK r : r = [Reading(t) EXCEPT !.at = "authenticate", !.kind = "authenticate"]
  OBVIOUS
<1>4. /\ r.at = "authenticate" /\ r.tok = t /\ r.new = 0 /\ r.fac = 0 /\ r.kind = "authenticate"
      /\ r.method = None /\ r.code = 0 /\ r.seen = 0 /\ r.read = token[t].pay /\ r.pay = None
  BY <1>3 DEF Reading, Idle
<1>5. Saw(r) /\ r.read \in Payload /\ r.read # None /\ r.read.user \in Users /\ t \in Nat
  BY <1>1, <1>4, ReadsToken
<1>6. r \in RequestState
  BY <1>2, <1>3, <1>5, LabelsAre DEF RequestState, Reading, Idle, TokenKinds, VerifyMethods
<1>7. Placed(r)
  BY <1>2, <1>4, <1>5 DEF Placed, Reads, Carries, Sends, Taking, OnFactor, VerifyMethods
<1>8. Step(c, r)
  BY <1>3 DEF PasskeyAuthenticationOptions
<1>9. QED
  BY <1>1, <1>4, <1>6, <1>7, <1>8, GoesOn

LEMMA ProveCollisionPasswordKeeps ==
  ASSUME StoresInv, NEW c \in Clients, NEW t, ProveCollisionPassword(c, t)
  PROVE  StoresInv' /\ (Quiet \/ PayLost(c))
<1>1. /\ t \in DOMAIN token /\ token[t].state = "live" /\ token[t].kind # "authenticate"
      /\ UNCHANGED <<factor, token, redis, world, raced, load>>
  BY OpensWorkflow DEF ProveCollisionPassword
<1>2. 0 \in Nat
  OBVIOUS
<1>3. PICK r : r = [Reading(t) EXCEPT !.at = "prove"]
  OBVIOUS
<1>4. /\ r.at = "prove" /\ r.tok = t /\ r.new = 0 /\ r.fac = 0 /\ r.kind = "verify"
      /\ r.method = None /\ r.code = 0 /\ r.seen = 0 /\ r.read = token[t].pay /\ r.pay = None
  BY <1>3 DEF Reading, Idle
<1>5. Saw(r) /\ r.read \in Payload /\ r.read # None /\ r.read.user \in Users /\ t \in Nat
  BY <1>1, <1>4, ReadsToken
<1>6. r \in RequestState
  BY <1>2, <1>3, <1>5, LabelsAre DEF RequestState, Reading, Idle, TokenKinds, VerifyMethods
<1>7. Placed(r)
  BY <1>2, <1>4, <1>5 DEF Placed, Reads, Carries, Sends, Taking, OnFactor, VerifyMethods
<1>8. Step(c, r)
  BY <1>3 DEF ProveCollisionPassword
<1>9. QED
  BY <1>1, <1>4, <1>6, <1>7, <1>8, GoesOn

LEMMA ResendChallengeKeeps ==
  ASSUME StoresInv, NEW c \in Clients, NEW t, ResendChallenge(c, t)
  PROVE  StoresInv' /\ (Quiet \/ PayLost(c))
<1>1. /\ t \in DOMAIN token /\ token[t].state = "live" /\ token[t].kind # "authenticate"
      /\ UNCHANGED <<factor, token, redis, world, raced, load>>
  BY DEF ResendChallenge, Live, observers
<1>2. t \in DOMAIN token /\ t # 0
  BY <1>1, StoresAre
<1>3. PICK r : r = [Reading(t) EXCEPT !.at = "send", !.new = t]
  OBVIOUS
<1>4. /\ r.at = "send" /\ r.tok = t /\ r.new = t /\ r.fac = 0 /\ r.kind = "verify"
      /\ r.method = None /\ r.code = 0 /\ r.seen = 0 /\ r.read = token[t].pay /\ r.pay = None
  BY <1>3 DEF Reading, Idle
<1>5. Saw(r) /\ r.read \in Payload /\ r.read # None /\ r.read.user \in Users /\ t \in Nat
  BY <1>1, <1>4, ReadsToken
<1>6. r \in RequestState
  BY <1>2, <1>3, <1>5, LabelsAre DEF RequestState, Reading, Idle, TokenKinds, VerifyMethods
<1>7. Placed(r)
  BY <1>2, <1>4, <1>5 DEF Placed, Reads, Carries, Sends, Taking, OnFactor, VerifyMethods
<1>8. Step(c, r)
  BY <1>3 DEF ResendChallenge
<1>9. QED
  BY <1>1, <1>4, <1>6, <1>7, <1>8, GoesOn
LEMMA IssueChallengeKeeps ==
  ASSUME StoresInv, NEW c \in Clients, NEW t, NEW m \in VerifyMethods, IssueChallenge(c, t, m)
  PROVE  StoresInv' /\ (Quiet \/ PayLost(c))
<1>1. /\ t \in DOMAIN token /\ token[t].state = "live" /\ token[t].kind # "authenticate"
      /\ UNCHANGED <<factor, token, redis, world, raced, load>>
  BY OpensWorkflow DEF IssueChallenge
<1>2. PICK f : /\ m = "totp" => f \in DOMAIN factor
               /\ m # "totp" => f = 0
               /\ Step(c, [Reading(t) EXCEPT !.at = "challenge", !.fac = f, !.method = m])
  BY DEF IssueChallenge, OfType, ActiveFactors
<1>3. PICK r : r = [Reading(t) EXCEPT !.at = "challenge", !.fac = f, !.method = m]
  OBVIOUS
<1>4. f \in Nat
  BY <1>2, StoresAre
<1>5. /\ r.at = "challenge" /\ r.tok = t /\ r.new = 0 /\ r.fac = f /\ r.kind = "verify"
      /\ r.method = m /\ r.read = token[t].pay /\ r.pay = None
  BY <1>3 DEF Reading, Idle
<1>6. Saw(r) /\ r.read \in Payload /\ r.read # None /\ r.read.user \in Users /\ t \in Nat
  BY <1>1, <1>5, ReadsToken
<1>7. r \in RequestState
  BY <1>3, <1>4, <1>6, LabelsAre DEF RequestState, Reading, Idle, TokenKinds
<1>8. Placed(r)
  BY <1>2, <1>5, <1>6 DEF Placed, Reads, Carries, Sends, Taking, OnFactor
<1>9. QED
  BY <1>1, <1>2, <1>3, <1>5, <1>7, <1>8, GoesOn

LEMMA CodesAre ==
  ASSUME StoresInv, NEW t \in DOMAIN token, NEW code \in Codes(t)
  PROVE  code \in Nat
<1>1. now \in Nat /\ otp[t] \in OtpRow /\ \A f \in DOMAIN factor : factor[f] \in FactorRow
  BY StoresAre
<1>2. otp[t].gen \in Nat
  BY <1>1 DEF OtpRow
<1>3. \A f \in ActiveFactors(Holder(t)) : \A k \in factor[f].codes : k \in Nat
  BY <1>1 DEF ActiveFactors, FactorRow
<1>4. \A k \in UNION {factor[f].codes : f \in ActiveFactors(Holder(t))} : k \in Nat
  BY <1>3
<1>5. CASE token[t].method = "totp"
  BY <1>1, <1>5 DEF Codes
<1>6. CASE token[t].method = "otp"
  BY <1>2, <1>6 DEF Codes
<1>7. CASE token[t].method = "backup_codes"
  <2>1. Codes(t) = {0} \cup UNION {factor[f].codes : f \in ActiveFactors(Holder(t))}
    BY <1>7 DEF Codes
  <2>2. code = 0 \/ code \in UNION {factor[f].codes : f \in ActiveFactors(Holder(t))}
    BY <2>1
  <2>3. QED
    BY <1>4, <2>2
<1>8. CASE token[t].method \notin {"totp", "otp", "backup_codes"}
  <2>1. Codes(t) = {0} \cup {}
    BY <1>8 DEF Codes
  <2>2. QED
    BY <2>1
<1>9. QED
  BY <1>5, <1>6, <1>7, <1>8

LEMMA VerifyChallengeKeeps ==
  ASSUME StoresInv, NEW c \in Clients, NEW t, NEW code \in Nat, VerifyChallenge(c, t, code)
  PROVE  StoresInv' /\ (Quiet \/ PayLost(c))
<1>1. /\ t \in DOMAIN token /\ token[t].state = "live" /\ token[t].kind = "verify"
      /\ UNCHANGED <<factor, token, redis, world, raced, load>>
  BY DEF VerifyChallenge, Live, observers
<1>2. token[t] \in TokenRow /\ GoodToken(token[t])
  BY <1>1, StoresAre
<1>3. PICK r, m, f : /\ m = token[t].method /\ f = token[t].fac
                     /\ r = [Reading(t) EXCEPT !.at = m, !.fac = f, !.code = code]
  OBVIOUS
<1>4. m \in VerifyMethods /\ f \in Nat /\ (m = "totp" => f \in DOMAIN factor)
  BY <1>1, <1>2, <1>3 DEF GoodToken, TokenRow
<1>5. /\ r.at = m /\ r.tok = t /\ r.new = 0 /\ r.fac = f /\ r.kind = "verify"
      /\ r.method = None /\ r.read = token[t].pay /\ r.pay = None
  BY <1>3 DEF Reading, Idle
<1>6. Saw(r) /\ r.read \in Payload /\ r.read # None /\ r.read.user \in Users /\ t \in Nat
  BY <1>1, <1>5, ReadsToken
<1>7. m \in Labels
  BY <1>4, LabelsAre DEF VerifyMethods
<1>8. r \in RequestState
  BY <1>3, <1>4, <1>6, <1>7 DEF RequestState, Reading, Idle, TokenKinds
<1>9. Placed(r)
  BY <1>4, <1>5, <1>6 DEF Placed, Reads, Carries, Sends, Taking, OnFactor, VerifyMethods
<1>10. Step(c, r)
  BY <1>3 DEF VerifyChallenge
<1>11. QED
  BY <1>1, <1>5, <1>8, <1>9, <1>10, GoesOn

LEMMA ConfirmTotpKeeps ==
  ASSUME StoresInv, NEW c \in Clients, NEW t, NEW code \in Nat, ConfirmTotp(c, t, code)
  PROVE  StoresInv' /\ (Quiet \/ PayLost(c))
<1>1. /\ t \in DOMAIN token /\ token[t].state = "live" /\ token[t].kind = "enroll"
      /\ UNCHANGED <<factor, token, redis, world, raced, load>>
  BY DEF ConfirmTotp, Live, observers
<1>2. token[t] \in TokenRow /\ GoodToken(token[t])
  BY <1>1, StoresAre
<1>3. PICK r, m, f : /\ m = (IF AcceptsStep(0, code) THEN "activate" ELSE "count") /\ f = token[t].fac
                     /\ r = [Reading(t) EXCEPT !.at = m, !.fac = f, !.code = code]
  OBVIOUS
<1>4. m \in {"activate", "count"} /\ f \in Nat /\ f \in DOMAIN factor /\ (m = "activate" => code > 0)
  BY <1>1, <1>2, <1>3 DEF GoodToken, TokenRow, AcceptsStep
<1>5. /\ r.at = m /\ r.tok = t /\ r.new = 0 /\ r.fac = f /\ r.kind = "verify" /\ r.code = code
      /\ r.method = None /\ r.read = token[t].pay /\ r.pay = None
  BY <1>3 DEF Reading, Idle
<1>6. Saw(r) /\ r.read \in Payload /\ r.read # None /\ r.read.user \in Users /\ t \in Nat
  BY <1>1, <1>5, ReadsToken
<1>7. m \in Labels
  BY <1>4, LabelsAre
<1>8. r \in RequestState
  BY <1>3, <1>4, <1>6, <1>7 DEF RequestState, Reading, Idle, TokenKinds
<1>9. Placed(r)
  BY <1>4, <1>5, <1>6 DEF Placed, Reads, Carries, Sends, Taking, OnFactor
<1>10. Step(c, r)
  BY <1>3 DEF ConfirmTotp
<1>11. QED
  BY <1>1, <1>5, <1>8, <1>9, <1>10, GoesOn

-----------------------------------------------------------------------------
(***************************************************************************)
(* Steps that only read, or give up.                                       *)
(***************************************************************************)
\* What changes when a request only moves on.
LEMMA GotoMoves ==
  ASSUME StoresInv, NEW c \in Clients, NEW label \in Labels, NEW r, r = [req[c] EXCEPT !.at = label]
  PROVE  /\ r \in RequestState /\ req[c] \in RequestState /\ Placed(req[c])
         /\ r.at = label /\ r.tok = req[c].tok /\ r.new = req[c].new /\ r.fac = req[c].fac
         /\ r.kind = req[c].kind /\ r.method = req[c].method /\ r.code = req[c].code /\ r.seen = req[c].seen
         /\ r.read = req[c].read /\ r.pay = req[c].pay
         /\ Saw(req[c]) => Saw(r)
<1>1. req[c] \in RequestState /\ Placed(req[c])
  BY StoresAre
<1>2. /\ r \in RequestState
      /\ r.at = label /\ r.tok = req[c].tok /\ r.new = req[c].new /\ r.fac = req[c].fac
      /\ r.kind = req[c].kind /\ r.method = req[c].method /\ r.code = req[c].code /\ r.seen = req[c].seen
      /\ r.read = req[c].read /\ r.pay = req[c].pay
  BY <1>1 DEF RequestState
<1>3. QED
  BY <1>1, <1>2 DEF Saw

LEMMA DeliverKeeps ==
  ASSUME StoresInv, NEW c \in Clients, Deliver(c)
  PROVE  StoresInv' /\ (Quiet \/ PayLost(c))
<1>1. UNCHANGED <<factor, token, redis, world, raced, load>> /\ req[c].at = "deliver"
  BY DEF Deliver, observers
<1>2. CASE Refuse(c)
  BY <1>1, <1>2, OnlyRefuses
<1>3. CASE req[c].pay # None /\ Goto(c, "store")
  <2>1. PICK r : r = [req[c] EXCEPT !.at = "store"]
    OBVIOUS
  <2>2. "store" \in Labels
    BY LabelsAre
  <2>3. /\ r \in RequestState /\ Placed(req[c])
        /\ r.at = "store" /\ r.new = req[c].new /\ r.kind = req[c].kind /\ r.method = req[c].method
        /\ r.pay = req[c].pay
    BY <2>1, <2>2, GotoMoves
  <2>4. Placed(r)
    BY <1>1, <1>3, <2>3 DEF Placed, Reads, Carries, Sends, Taking, OnFactor, VerifyMethods
  <2>5. Step(c, r)
    BY <1>3, <2>1 DEF Goto
  <2>6. QED
    BY <1>1, <1>3, <2>3, <2>4, <2>5, GoesOn
<1>4. QED
  BY <1>2, <1>3 DEF Deliver

LEMMA CompareTotpKeeps ==
  ASSUME StoresInv, NEW c \in Clients, CompareTotp(c)
  PROVE  StoresInv' /\ (Quiet \/ PayLost(c))
<1>1. UNCHANGED <<factor, token, redis, world, raced, load>> /\ req[c].at = "totp"
  BY DEF CompareTotp, observers
<1>2. req[c] \in RequestState /\ Placed(req[c]) /\ req[c].fac \in DOMAIN factor
  BY <1>1, StoresAre DEF Placed, OnFactor
<1>3. PICK x : x = factor[req[c].fac]
  OBVIOUS
<1>4. PICK label, r : /\ label = (IF x.status = "active" /\ AcceptsStep(x.step, req[c].code) THEN "advance" ELSE "count")
                      /\ r = [req[c] EXCEPT !.at = label, !.seen = x.step]
  OBVIOUS
<1>5. x.step \in Nat /\ label \in {"advance", "count"} /\ (label = "advance" => req[c].code > x.step)
  BY <1>2, <1>3, <1>4, StoresAre DEF FactorRow, AcceptsStep
<1>6. label \in Labels
  BY <1>5, LabelsAre
<1>7. /\ r \in RequestState
      /\ r.at = label /\ r.tok = req[c].tok /\ r.new = req[c].new /\ r.fac = req[c].fac
      /\ r.kind = req[c].kind /\ r.method = req[c].method /\ r.code = req[c].code /\ r.seen = x.step
      /\ r.read = req[c].read /\ r.pay = req[c].pay
  BY <1>2, <1>4, <1>5, <1>6 DEF RequestState
<1>8. Placed(r)
  BY <1>1, <1>2, <1>5, <1>7 DEF Placed, Saw, Reads, Carries, Sends, Taking, OnFactor
<1>9. Step(c, r) /\ r.pay = None
  BY <1>1, <1>2, <1>3, <1>4, <1>7 DEF CompareTotp, Placed, Reads, Carries, Sends, Taking
<1>10. QED
  BY <1>1, <1>7, <1>8, <1>9, GoesOn

LEMMA EnsureBackupCodesKeeps ==
  ASSUME StoresInv, NEW c \in Clients, EnsureBackupCodes(c)
  PROVE  StoresInv' /\ (Quiet \/ PayLost(c))
<1>1. UNCHANGED <<factor, token, redis, world, raced, load>> /\ req[c].at = "codes"
  BY DEF EnsureBackupCodes, observers
<1>2. PICK label \in {"new codes", "complete"} : Goto(c, label)
  BY DEF EnsureBackupCodes
<1>3. label \in Labels
  BY LabelsAre
<1>4. PICK r : r = [req[c] EXCEPT !.at = label]
  OBVIOUS
<1>5. r \in RequestState /\ Placed(req[c]) /\ r.at = label /\ r.pay = req[c].pay
  <2>1. req[c] \in RequestState /\ Placed(req[c])
    BY StoresAre
  <2>2. QED
    BY <1>3, <1>4, <2>1 DEF RequestState
<1>6. Placed(r) /\ req[c].pay # None
  BY <1>1, <1>5 DEF Placed, Reads, Carries, Sends, Taking, OnFactor
<1>7. Step(c, r)
  BY <1>2, <1>4 DEF Goto
<1>8. QED
  BY <1>1, <1>5, <1>6, <1>7, GoesOn

LEMMA StopKeeps ==
  ASSUME StoresInv, NEW c \in Clients, Stop(c)
  PROVE  StoresInv' /\ (Quiet \/ PayLost(c))
<1>1. UNCHANGED <<factor, token, redis, world, raced, load>> /\ Refuse(c)
  BY DEF Stop, observers
<1>2. QED
  BY <1>1, OnlyRefuses

LEMMA CheckAssertionKeeps ==
  ASSUME StoresInv, NEW c \in Clients, CheckAssertion(c)
  PROVE  StoresInv' /\ (Quiet \/ PayLost(c) \/ Named(c))
<1>1. UNCHANGED <<factor, token, redis, world, raced, load>> /\ req[c].at = "assertion"
  BY DEF CheckAssertion, observers
<1>2. req[c] \in RequestState /\ Placed(req[c]) /\ req[c].fac \in DOMAIN factor
  BY <1>1, StoresAre DEF Placed, OnFactor
<1>3. PICK x : x = factor[req[c].fac]
  OBVIOUS
<1>4. CASE Refuse(c)
  BY <1>1, <1>4, OnlyRefuses
<1>5. CASE /\ CountsOn(x.count, req[c].code)
           /\ Step(c, [req[c] EXCEPT !.at = "counter", !.seen = x.count, !.pay.user = x.user])
  <2>1. PICK p : p = [req[c].pay EXCEPT !.user = x.user]
    OBVIOUS
  <2>2. PICK r : r = [req[c] EXCEPT !.at = "counter", !.seen = x.count, !.pay = p]
    OBVIOUS
  <2>3. x.count \in Nat /\ x.user \in Users /\ req[c].pay \in Payload /\ req[c].code \in Nat
    BY <1>1, <1>2, <1>3, StoresAre DEF FactorRow, RequestState, Placed, Carries
  <2>4. p \in Payload /\ p.login = req[c].pay.login /\ p.assured = req[c].pay.assured /\ p.user = x.user
    BY <2>1, <2>3 DEF Payload
  <2>5. "counter" \in Labels
    BY LabelsAre
  <2>6. /\ r \in RequestState
        /\ r.at = "counter" /\ r.tok = req[c].tok /\ r.new = req[c].new /\ r.fac = req[c].fac
        /\ r.kind = req[c].kind /\ r.method = req[c].method /\ r.code = req[c].code /\ r.seen = x.count
        /\ r.read = req[c].read /\ r.pay = p
    BY <1>2, <2>2, <2>3, <2>4, <2>5 DEF RequestState
  <2>7. r.code >= r.seen
    BY <1>5, <2>3, <2>6 DEF CountsOn
  <2>8. p # None /\ p.login \in DOMAIN began
    BY <1>1, <1>2, <2>3, <2>4, NoneIs DEF Placed, Carries
  <2>9. Placed(r)
    BY <1>1, <1>2, <2>3, <2>4, <2>6, <2>7, <2>8 DEF Placed, Reads, Carries, Sends, Taking, OnFactor
  <2>10. [req[c] EXCEPT !.at = "counter", !.seen = x.count, !.pay.user = x.user] = r
    BY <1>2, <2>1, <2>2 DEF RequestState
  <2>11. Step(c, r)
    BY <1>5, <2>10
  <2>12. Grows
    BY <1>1 DEF Grows, world
  <2>13. Placed(r)'
    BY <2>9, <2>12, StaysPlaced
  <2>14. fresh \in Nat /\ Requests
    BY StoresAre DEF StoresInv
  <2>15. FactorTables' /\ TokenTables' /\ WorldTables'
    BY <1>1, <2>14, FactorsStay, TokensStay, WorldStays DEF redis, world
  <2>16. Requests'
    BY <2>6, <2>11, <2>12, <2>13, <2>14, OneMoves
  <2>17. req'[c] = r /\ \A d \in Clients : d # c => req'[d] = req[d]
    BY <2>11, <2>14, StepMoves
  <2>18. req[c].pay # None
    BY <1>1, <1>2 DEF Placed, Carries
  <2>19. Named(c)
    BY <1>1, <2>4, <2>6, <2>8, <2>17, <2>18 DEF Named, SameTokens, SamePays, LiveAt
  <2>20. QED
    BY <2>15, <2>16, <2>19, NamedKeeps DEF StoresInv
<1>6. QED
  BY <1>3, <1>4, <1>5 DEF CheckAssertion
-----------------------------------------------------------------------------
(***************************************************************************)
(* Tokens that go.                                                         *)
(***************************************************************************)
LEMMA GoneIs == Gone \in TokenRow /\ Gone.state = "gone"
BY DEF Gone, TokenRow

LEMMA TokenGoes ==
  ASSUME StoresInv, NEW t \in DOMAIN token, token[t].state # "drawn", token' = [token EXCEPT ![t] = Gone],
         UNCHANGED <<otp, factor, began, fresh, load>>
  PROVE  /\ TokenTables' /\ Grows /\ SameTokens({t}) /\ ~LiveAt(t)'
         /\ token[t].state # "live" => SameTokens({})
         /\ DOMAIN token' = DOMAIN token /\ token'[t] = Gone /\ \A s \in DOMAIN token : s # t => token'[s] = token[s]
<1>1. /\ token' \in Seq(TokenRow) /\ Len(token') = Len(token) /\ DOMAIN token' = DOMAIN token
      /\ token'[t] = Gone /\ \A s \in DOMAIN token : s # t => token'[s] = token[s]
  BY GoneIs, OneEntry DEF StoresInv, TokenTables
<1>2. ASSUME NEW s \in DOMAIN token PROVE GoodToken(token[s])'
  BY <1>1, GoneIs, StoresAre DEF GoodToken
<1>3. TokenTables'
  BY <1>1, <1>2 DEF StoresInv, TokenTables
<1>4. Grows
  BY <1>1 DEF Grows
<1>5. SameTokens({t}) /\ ~LiveAt(t)' /\ (token[t].state # "live" => SameTokens({}))
  BY <1>1, GoneIs DEF SameTokens, LiveAt
<1>6. QED
  BY <1>1, <1>3, <1>4, <1>5

\* Nothing but tokens and requests changes.
LEMMA RestStays ==
  ASSUME StoresInv, UNCHANGED <<factor, fails, lock, voided, sends, world, raced, load>>
  PROVE  FactorTables' /\ WorldTables' /\ fresh \in Nat /\ Requests /\ UNCHANGED <<factor, began, fresh, load>>
<1>1. fresh \in Nat /\ Requests
  BY StoresAre DEF StoresInv
<1>2. QED
  BY <1>1, FactorsStay, WorldStays DEF world

LEMMA CreateSessionKeeps ==
  ASSUME StoresInv, NEW t, CreateSession(t)
  PROVE  StoresInv' /\ TokenLost(t)
<1>1. /\ UNCHANGED <<factor, fails, lock, voided, sends, world, raced, load>>
      /\ UNCHANGED <<otp, req>> /\ LiveAt(t) /\ token' = [token EXCEPT ![t] = Gone]
  BY DEF CreateSession, redis, Live, LiveAt
<1>2. FactorTables' /\ WorldTables' /\ Requests /\ UNCHANGED <<factor, began, fresh, load>>
  BY <1>1, RestStays
<1>3. TokenTables' /\ Grows /\ SameTokens({t}) /\ ~LiveAt(t)'
  BY <1>1, <1>2, TokenGoes DEF LiveAt
<1>4. Requests'
  BY <1>1, <1>2, <1>3, NobodyMoves
<1>5. TokenLost(t)
  BY <1>1, <1>3 DEF TokenLost, SamePays
<1>6. QED
  BY <1>2, <1>3, <1>4, <1>5, TokenLostKeeps DEF StoresInv

LEMMA ExpireTokenKeeps ==
  ASSUME StoresInv, NEW t, ExpireToken(t)
  PROVE  StoresInv' /\ TokenLost(t)
<1>1. /\ UNCHANGED <<factor, fails, lock, voided, sends, world, raced, load>>
      /\ UNCHANGED <<otp, req>> /\ LiveAt(t) /\ token' = [token EXCEPT ![t] = Gone]
  BY DEF ExpireToken, redis, Live, LiveAt, observers
<1>2. FactorTables' /\ WorldTables' /\ Requests /\ UNCHANGED <<factor, began, fresh, load>>
  BY <1>1, RestStays
<1>3. TokenTables' /\ Grows /\ SameTokens({t}) /\ ~LiveAt(t)'
  BY <1>1, <1>2, TokenGoes DEF LiveAt
<1>4. Requests'
  BY <1>1, <1>2, <1>3, NobodyMoves
<1>5. TokenLost(t)
  BY <1>1, <1>3 DEF TokenLost, SamePays
<1>6. QED
  BY <1>2, <1>3, <1>4, <1>5, TokenLostKeeps DEF StoresInv

LEMMA DeleteChallengeKeeps ==
  ASSUME StoresInv, NEW c \in Clients, DeleteChallenge(c)
  PROVE  StoresInv' /\ (Quiet \/ TokenLost(req[c].tok))
<1>1. PICK t : t = req[c].tok
  OBVIOUS
<1>2. /\ UNCHANGED <<factor, fails, lock, voided, sends, world, raced, load>>
      /\ otp' = otp /\ token' = [token EXCEPT ![t] = Gone] /\ Refuse(c) /\ req[c].at = "delete"
  BY <1>1 DEF DeleteChallenge, redis, observers
<1>3. FactorTables' /\ WorldTables' /\ Requests /\ UNCHANGED <<factor, began, fresh, load>>
  BY <1>2, RestStays
<1>4. t \in DOMAIN token /\ token[t].state # "drawn" /\ req[c].pay = None
  BY <1>1, <1>2, StoresAre DEF Placed, Saw, Reads, Carries, Sends, Taking
<1>5. TokenTables' /\ Grows /\ SameTokens({t}) /\ ~LiveAt(t)' /\ (token[t].state # "live" => SameTokens({}))
  BY <1>2, <1>3, <1>4, TokenGoes
<1>6. Requests'
  BY <1>2, <1>3, <1>5, IdleIs, OneMoves DEF Refuse
<1>7. req'[c] = Idle /\ \A d \in Clients : d # c => req'[d] = req[d]
  BY <1>2, <1>3, StepMoves DEF Refuse
<1>8. SamePays({})
  BY <1>4, <1>7, IdleIs DEF SamePays
<1>9. CASE token[t].state = "live"
  <2>1. TokenLost(t)
    BY <1>4, <1>5, <1>8, <1>9 DEF TokenLost, LiveAt
  <2>2. QED
    BY <1>1, <1>3, <1>5, <1>6, <2>1, TokenLostKeeps DEF StoresInv
<1>10. CASE token[t].state # "live"
  <2>1. Quiet
    BY <1>5, <1>8, <1>10 DEF Quiet
  <2>2. QED
    BY <1>3, <1>5, <1>6, <2>1, QuietKeeps DEF StoresInv
<1>11. QED
  BY <1>9, <1>10

\* A request that takes a token with GETDEL.
LEMMA TakesToken ==
  ASSUME StoresInv, UNCHANGED <<factor, fails, lock, voided, sends, world, raced, load>>, otp' = otp,
         NEW t, LiveAt(t), token' = [token EXCEPT ![t] = Gone],
         NEW c \in Clients, req[c].pay = None,
         NEW r \in RequestState, Step(c, r), Placed(r), r.pay = token[t].pay
  PROVE  StoresInv' /\ Taken(c, t)
<1>1. FactorTables' /\ WorldTables' /\ Requests /\ UNCHANGED <<factor, began, fresh, load>>
  BY RestStays
<1>2. TokenTables' /\ Grows /\ SameTokens({t}) /\ ~LiveAt(t)'
  BY <1>1, TokenGoes DEF LiveAt
<1>3. Requests'
  BY <1>1, <1>2, StaysPlaced, OneMoves
<1>4. req'[c] = r /\ \A d \in Clients : d # c => req'[d] = req[d]
  BY <1>1, StepMoves
<1>5. Taken(c, t)
  BY <1>2, <1>4 DEF Taken, SamePays
<1>6. QED
  BY <1>1, <1>2, <1>3, <1>5, TakenKeeps DEF StoresInv

LEMMA NextAfterIs ==
  ASSUME NEW c, req[c].at \in Taking
  PROVE  /\ req[c].at = "revoke" => NextAfter(c) = "revoke row"
         /\ req[c].at = "setup" => NextAfter(c) = "pending row"
         /\ req[c].at = "challenge" /\ req[c].method = "otp" => NextAfter(c) = "send"
         /\ req[c].at = "challenge" /\ req[c].method # "otp" => NextAfter(c) = "store"
         /\ req[c].at \in {"register", "authenticate"} => NextAfter(c) = "store"
         /\ req[c].at = "prove" => NextAfter(c) = "complete"
BY DEF NextAfter, Taking

LEMMA TakeWorkflowKeeps ==
  ASSUME StoresInv, NEW c \in Clients, TakeWorkflow(c)
  PROVE  StoresInv' /\ (Quiet \/ PayLost(c) \/ Taken(c, req[c].tok))
<1>1. PICK t : t = req[c].tok
  OBVIOUS
<1>2. UNCHANGED <<factor, fails, lock, voided, sends, world, raced, load>> /\ otp' = otp /\ req[c].at \in Taking
  BY DEF TakeWorkflow, redis, observers
<1>3. req[c] \in RequestState /\ Placed(req[c])
  BY StoresAre
<1>4. req[c].pay = None /\ Saw(req[c]) /\ req[c].read # None /\ req[c].read.user \in Users
  BY <1>2, <1>3 DEF Placed, Reads, Carries, Sends, Taking
<1>5. CASE Refuse(c) /\ UNCHANGED <<token, pledge>>
  BY <1>2, <1>5, OnlyRefuses DEF redis
<1>6. CASE /\ Live(t, WorkflowTokens)
           /\ token' = [token EXCEPT ![t] = Gone]
           /\ Step(c, [req[c] EXCEPT !.at = NextAfter(c), !.pay = token[t].pay])
  <2>1. PICK label, p : label = NextAfter(c) /\ p = token[t].pay
    OBVIOUS
  <2>2. LiveAt(t) /\ p = req[c].read
    BY <1>1, <1>4, <1>6, <2>1 DEF Live, LiveAt, Saw
  <2>3. p \in Payload /\ p # None /\ p.user \in Users /\ p.login \in DOMAIN began
    BY <1>3, <1>4, <2>2 DEF RequestState, Saw
  <2>4. /\ label \in {"revoke row", "pending row", "send", "store", "complete"}
        /\ label = "revoke row" => req[c].at = "revoke"
        /\ label = "pending row" => req[c].at = "setup"
        /\ label = "send" => req[c].at = "challenge" /\ req[c].method = "otp"
        /\ label = "store" => req[c].at \in {"challenge", "register", "authenticate"}
    <3>1. /\ req[c].at = "revoke" => label = "revoke row"
          /\ req[c].at = "setup" => label = "pending row"
          /\ req[c].at = "challenge" /\ req[c].method = "otp" => label = "send"
          /\ req[c].at = "challenge" /\ req[c].method # "otp" => label = "store"
          /\ req[c].at \in {"register", "authenticate"} => label = "store"
          /\ req[c].at = "prove" => label = "complete"
      BY <1>2, <2>1, NextAfterIs
    <3>2. req[c].at \in {"revoke", "setup", "challenge", "register", "authenticate", "prove"}
      BY <1>2 DEF Taking
    <3>3. QED
      BY <3>1, <3>2
  <2>5. label \in Labels
    BY <2>4, LabelsAre
  <2>6. PICK r : r = [req[c] EXCEPT !.at = label, !.pay = p]
    OBVIOUS
  <2>7. /\ r \in RequestState
        /\ r.at = label /\ r.tok = t /\ r.new = req[c].new /\ r.fac = req[c].fac
        /\ r.kind = req[c].kind /\ r.method = req[c].method
        /\ r.read = req[c].read /\ r.pay = p
    BY <1>1, <1>3, <2>3, <2>5, <2>6 DEF RequestState
  <2>8. /\ req[c].new = 0 /\ (label = "revoke row" => req[c].fac \in DOMAIN factor)
        /\ label = "pending row" => req[c].kind = "enroll"
        /\ label = "send" => req[c].kind = "verify" /\ req[c].method = "otp"
        /\ label = "store" /\ req[c].kind = "verify" =>
             req[c].method \in VerifyMethods /\ (req[c].method = "totp" => req[c].fac \in DOMAIN factor)
        /\ label = "store" => req[c].kind \in {"verify", "register", "authenticate"}
    <3>1. req[c].new = 0 /\ (label = "revoke row" => req[c].fac \in DOMAIN factor)
      BY <1>2, <1>3, <2>4 DEF Placed, Taking, OnFactor
    <3>2. /\ req[c].at = "setup" => req[c].kind = "enroll"
          /\ req[c].at = "challenge" => req[c].kind = "verify"
          /\ req[c].at = "register" => req[c].kind = "register"
          /\ req[c].at = "authenticate" => req[c].kind = "authenticate"
      BY <1>3 DEF Placed
    <3>3. req[c].at = "challenge" =>
             req[c].method \in VerifyMethods /\ (req[c].method = "totp" => req[c].fac \in DOMAIN factor)
      BY <1>3 DEF Placed
    <3>4. QED
      BY <2>4, <3>1, <3>2, <3>3
  <2>9. Placed(r)
    BY <1>4, <2>2, <2>3, <2>4, <2>7, <2>8 DEF Placed, Reads, Carries, Sends, Taking, OnFactor
  <2>10. Step(c, r)
    BY <1>6, <2>1, <2>6
  <2>11. StoresInv' /\ Taken(c, t)
    BY <1>2, <1>4, <1>6, <2>1, <2>2, <2>7, <2>9, <2>10, TakesToken
  <2>12. QED
    BY <1>1, <2>11
<1>7. QED
  BY <1>1, <1>5, <1>6 DEF TakeWorkflow
LEMMA TakeChallengeKeeps ==
  ASSUME StoresInv, NEW c \in Clients, TakeChallenge(c)
  PROVE  StoresInv' /\ (Quiet \/ PayLost(c) \/ Taken(c, req[c].tok))
<1>1. PICK t : t = req[c].tok
  OBVIOUS
<1>2. UNCHANGED <<factor, fails, lock, voided, sends, world, raced, load>> /\ otp' = otp /\ req[c].at = "consume"
  BY DEF TakeChallenge, redis, observers
<1>3. req[c] \in RequestState /\ Placed(req[c])
  BY StoresAre
<1>4. req[c].pay = None /\ Saw(req[c]) /\ req[c].read # None /\ req[c].read.user \in Users
  BY <1>2, <1>3 DEF Placed, Reads, Carries, Sends, Taking
<1>5. CASE Refuse(c) /\ UNCHANGED token
  BY <1>2, <1>5, OnlyRefuses DEF redis
<1>6. CASE /\ token[t].state = "live"
           /\ token' = [token EXCEPT ![t] = Gone]
           /\ Step(c, [req[c] EXCEPT !.pay = token[t].pay,
                         !.at = IF token[t].kind = "enroll" THEN "codes" ELSE "complete"])
  <2>1. PICK label, p : label = (IF token[t].kind = "enroll" THEN "codes" ELSE "complete") /\ p = token[t].pay
    OBVIOUS
  <2>2. LiveAt(t) /\ p = req[c].read
    BY <1>1, <1>4, <1>6, <2>1 DEF LiveAt, Saw
  <2>3. p \in Payload /\ p # None /\ p.user \in Users /\ p.login \in DOMAIN began
    BY <1>3, <1>4, <2>2 DEF RequestState, Saw
  <2>4. label \in {"codes", "complete"}
    BY <2>1
  <2>5. label \in Labels
    BY <2>4, LabelsAre
  <2>6. PICK r : r = [req[c] EXCEPT !.pay = p, !.at = label]
    OBVIOUS
  <2>7. r \in RequestState /\ r.at = label /\ r.pay = p
    BY <1>3, <2>3, <2>5, <2>6 DEF RequestState
  <2>8. Placed(r)
    BY <2>3, <2>4, <2>7 DEF Placed, Reads, Carries, Sends, Taking, OnFactor
  <2>9. Step(c, r)
    BY <1>6, <2>1, <2>6
  <2>10. StoresInv' /\ Taken(c, t)
    BY <1>2, <1>4, <1>6, <2>1, <2>2, <2>7, <2>8, <2>9, TakesToken
  <2>11. QED
    BY <1>1, <2>10
<1>7. QED
  BY <1>1, <1>5, <1>6 DEF TakeChallenge

\* Both WebAuthn handlers: a challenge of the wrong purpose is gone, too.
LEMMA TakeWebAuthnKeeps ==
  ASSUME StoresInv, NEW c \in Clients, NEW t, NEW purpose, NEW q, TakeWebAuthn(c, t, purpose, q),
         q \in RequestState, q.at \in {"attestation", "assertion"},
         q.at = "attestation" => purpose = "register",
         q.at = "assertion" => q.fac \in DOMAIN factor
  PROVE  StoresInv' /\ (TokenLost(t) \/ Taken(c, t))
<1>1. /\ UNCHANGED <<factor, fails, lock, voided, sends, world, raced, load>> /\ otp' = otp /\ LiveAt(t)
      /\ req[c] = Idle /\ token' = [token EXCEPT ![t] = Gone]
  BY DEF TakeWebAuthn, redis, observers, Live, LiveAt
<1>2. token[t] \in TokenRow /\ GoodToken(token[t]) /\ t \in Nat
  BY <1>1, StoresAre DEF LiveAt
<1>3. CASE UNCHANGED req
  <2>1. FactorTables' /\ WorldTables' /\ Requests /\ UNCHANGED <<factor, began, fresh, load>>
    BY <1>1, RestStays
  <2>2. TokenTables' /\ Grows /\ SameTokens({t}) /\ ~LiveAt(t)'
    BY <1>1, <2>1, TokenGoes DEF LiveAt
  <2>3. Requests'
    BY <1>3, <2>1, <2>2, NobodyMoves
  <2>4. TokenLost(t)
    BY <1>1, <1>3, <2>2 DEF TokenLost, SamePays
  <2>5. QED
    BY <2>1, <2>2, <2>3, <2>4, TokenLostKeeps DEF StoresInv
<1>4. CASE token[t].kind = purpose /\ Step(c, [q EXCEPT !.tok = t, !.pay = token[t].pay])
  <2>1. PICK p : p = token[t].pay
    OBVIOUS
  <2>2. p \in Payload /\ p # None /\ p.login \in DOMAIN began /\ (token[t].kind # "authenticate" => p.user \in Users)
    BY <1>1, <1>2, <2>1 DEF LiveAt, GoodToken, TokenRow
  <2>3. PICK r : r = [q EXCEPT !.tok = t, !.pay = p]
    OBVIOUS
  <2>4. r \in RequestState /\ r.at = q.at /\ r.pay = p /\ r.fac = q.fac
    BY <1>2, <2>2, <2>3 DEF RequestState
  <2>5. Placed(r)
    BY <1>4, <2>2, <2>4 DEF Placed, Reads, Carries, Sends, Taking, OnFactor
  <2>6. Step(c, r) /\ req[c].pay = None
    BY <1>1, <1>4, <2>1, <2>3, IdleIs
  <2>7. QED
    BY <1>1, <2>1, <2>4, <2>5, <2>6, TakesToken
<1>5. QED
  BY <1>3, <1>4 DEF TakeWebAuthn

LEMMA AttestationIs ==
  ASSUME NEW q, q = [Idle EXCEPT !.at = "attestation"]
  PROVE  q \in RequestState /\ q.at = "attestation"
<1>1. "attestation" \in Labels
  BY LabelsAre
<1>2. Idle \in RequestState
  BY IdleIs
<1>3. QED
  BY <1>1, <1>2 DEF RequestState

LEMMA ConfirmPasskeyRegistrationKeeps ==
  ASSUME StoresInv, NEW c \in Clients, NEW t, ConfirmPasskeyRegistration(c, t)
  PROVE  StoresInv' /\ (TokenLost(t) \/ Taken(c, t))
<1>1. PICK q : q = [Idle EXCEPT !.at = "attestation"]
  OBVIOUS
<1>2. q \in RequestState /\ q.at = "attestation"
  BY <1>1, AttestationIs
<1>3. TakeWebAuthn(c, t, "register", q)
  BY <1>1 DEF ConfirmPasskeyRegistration
<1>4. QED
  BY <1>2, <1>3, TakeWebAuthnKeeps

LEMMA VerifyPasskeyKeeps ==
  ASSUME StoresInv, NEW c \in Clients, NEW t, NEW f \in DOMAIN factor, NEW n \in 0..MaxCount, VerifyPasskey(c, t, f, n)
  PROVE  StoresInv' /\ (TokenLost(t) \/ Taken(c, t))
<1>1. PICK q : q = [Idle EXCEPT !.at = "assertion", !.fac = f, !.code = n]
  OBVIOUS
<1>2. f \in Nat /\ n \in Nat
  BY StoresAre, MfaAssumption
<1>3. q \in RequestState /\ q.at = "assertion" /\ q.fac = f
  <2>1. "assertion" \in Labels
    BY LabelsAre
  <2>2. Idle \in RequestState
    BY IdleIs
  <2>3. QED
    BY <1>1, <1>2, <2>1, <2>2 DEF RequestState
<1>4. TakeWebAuthn(c, t, "authenticate", q)
  BY <1>1 DEF VerifyPasskey
<1>5. QED
  BY <1>3, <1>4, TakeWebAuthnKeeps
-----------------------------------------------------------------------------
(***************************************************************************)
(* Tokens that are drawn or stored.                                        *)
(***************************************************************************)
Appends(row, h, t) ==
  /\ row \in TokenRow /\ token' = Append(token, row) /\ GoodToken(row)'
  /\ h \in OtpRow /\ otp' = Append(otp, h) /\ h.gen <= fresh'
  /\ DOMAIN factor \subseteq DOMAIN factor' /\ DOMAIN began \subseteq DOMAIN began'
  /\ fresh' \in Nat /\ fresh <= fresh' /\ load' = load
  /\ t = Len(token) + 1

LEMMA TokenComes ==
  ASSUME StoresInv, NEW row, NEW h, NEW t, Appends(row, h, t)
  PROVE  /\ TokenTables' /\ Grows /\ SameTokens({t}) /\ ~LiveAt(t)
         /\ row.state # "live" => SameTokens({})
         /\ row.state = "live" => LiveAt(t)'
         /\ token'[t] = row /\ t \in DOMAIN token' /\ t \in Nat /\ t # 0 /\ t \notin DOMAIN token
         /\ otp'[t] = h /\ DOMAIN token' = DOMAIN token \cup {t} /\ \A s \in DOMAIN token : token'[s] = token[s] /\ otp'[s] = otp[s]
<1>0. /\ row \in TokenRow /\ token' = Append(token, row) /\ GoodToken(row)'
      /\ h \in OtpRow /\ otp' = Append(otp, h) /\ h.gen <= fresh'
      /\ DOMAIN factor \subseteq DOMAIN factor' /\ DOMAIN began \subseteq DOMAIN began'
      /\ fresh' \in Nat /\ fresh <= fresh' /\ load' = load /\ t = Len(token) + 1
  BY DEF Appends
<1>1. /\ token' \in Seq(TokenRow) /\ Len(token') = Len(token) + 1 /\ DOMAIN token' = DOMAIN token \cup {t}
      /\ token'[t] = row /\ t \notin DOMAIN token /\ \A s \in DOMAIN token : token'[s] = token[s]
  BY <1>0, OneMore DEF StoresInv, TokenTables
<1>2. Len(otp) = Len(token) /\ otp \in Seq(OtpRow)
  BY DEF StoresInv, TokenTables
<1>3. /\ otp' \in Seq(OtpRow) /\ Len(otp') = Len(otp) + 1 /\ DOMAIN otp' = DOMAIN otp \cup {t}
      /\ otp'[t] = h /\ \A s \in DOMAIN otp : otp'[s] = otp[s]
  <2>1. Append(otp, h) \in Seq(OtpRow)
    BY <1>0, <1>2
  <2>2. QED
    BY <1>0, <1>2, OneMore
<1>4. ASSUME NEW s \in DOMAIN token' PROVE GoodToken(token[s])'
  <2>1. CASE s = t
    BY <1>0, <1>1, <2>1
  <2>2. CASE s \in DOMAIN token
    <3>1. token'[s] = token[s] /\ GoodToken(token[s])
      BY <1>1, <2>2, StoresAre
    <3>2. QED
      BY <1>0, <3>1 DEF GoodToken
  <2>3. QED
    BY <1>1, <2>1, <2>2
<1>5. ASSUME NEW s \in DOMAIN otp' PROVE otp'[s].gen <= fresh'
  <2>1. CASE s = t
    BY <1>0, <1>3, <2>1
  <2>2. CASE s \in DOMAIN otp
    <3>1. otp'[s] = otp[s] /\ otp[s].gen <= fresh /\ otp[s] \in OtpRow /\ fresh \in Nat
      BY <1>3, <2>2, StoresAre
    <3>2. otp[s].gen \in Nat
      BY <3>1 DEF OtpRow
    <3>3. QED
      BY <1>0, <3>1, <3>2
  <2>3. QED
    BY <1>3, <2>1, <2>2
<1>6. TokenTables'
  BY <1>1, <1>2, <1>3, <1>4, <1>5 DEF TokenTables
<1>7. Grows
  BY <1>0, <1>1 DEF Grows
<1>8. /\ SameTokens({t}) /\ ~LiveAt(t)
      /\ row.state # "live" => SameTokens({})
      /\ row.state = "live" => LiveAt(t)'
  BY <1>1 DEF SameTokens, LiveAt
<1>9. t \in Nat /\ t # 0 /\ DOMAIN otp = DOMAIN token
  BY <1>0, StoresAre
<1>10. QED
  BY <1>1, <1>3, <1>6, <1>7, <1>8, <1>9

LEMMA NoOtpIs == NoOtp \in OtpRow /\ NoOtp.gen = 0
BY MfaAssumption DEF NoOtp, OtpRow

\* A login begins with a token of its own.
LEMMA LoginBegins ==
  ASSUME StoresInv, NEW row \in TokenRow, Draw(row), NEW o \in {"low", "guarded"}, began' = Append(began, o),
         Len(began) < MaxLogins, UNCHANGED <<factor, fails, lock, voided, sends, active, linked, now, fresh, req, raced, load>>,
         row.state = "live", row.pay # None, row.pay.login = Len(began) + 1, row.kind \in {"workflow", "authenticate"},
         row.kind # "authenticate" => row.pay.user \in Users
  PROVE  StoresInv' /\ Drawn(Len(token) + 1)
<1>1. PICK t : t = Len(token) + 1
  OBVIOUS
<1>2. /\ fresh \in Nat /\ began \in Seq({"low", "guarded"}) /\ Requests /\ Len(began) \in Nat /\ MaxLogins \in Nat
      /\ Append(began, o) \in Seq({"low", "guarded"})
  BY StoresAre, MfaAssumption DEF StoresInv, WorldTables
<1>3. /\ began' \in Seq({"low", "guarded"}) /\ Len(began') = Len(began) + 1
      /\ DOMAIN began' = DOMAIN began \cup {Len(began) + 1} /\ Len(began) + 1 \notin DOMAIN began
  BY <1>2, OneMore
<1>4. Len(began') <= MaxLogins
  BY <1>2, <1>3
<1>5. WorldTables'
  BY <1>3, <1>4 DEF StoresInv, WorldTables
<1>6. FactorTables'
  BY <1>2, FactorsStay
<1>7. GoodToken(row)'
  BY <1>3 DEF GoodToken, TokenKinds
<1>8. /\ NoOtp \in OtpRow /\ NoOtp.gen <= fresh' /\ fresh' \in Nat /\ fresh <= fresh' /\ load' = load
      /\ DOMAIN factor \subseteq DOMAIN factor' /\ DOMAIN began \subseteq DOMAIN began'
      /\ token' = Append(token, row) /\ otp' = Append(otp, NoOtp)
  BY <1>2, <1>3, NoOtpIs DEF Draw
<1>9. /\ TokenTables' /\ Grows /\ SameTokens({t}) /\ ~LiveAt(t) /\ LiveAt(t)' /\ token'[t] = row
  <2>1. Appends(row, NoOtp, t)
    BY <1>1, <1>7, <1>8 DEF Appends
  <2>2. /\ TokenTables' /\ Grows /\ SameTokens({t}) /\ ~LiveAt(t)
        /\ row.state = "live" => LiveAt(t)'
        /\ token'[t] = row
    <3>1. StoresInv /\ Appends(row, NoOtp, t)
      BY <2>1
    <3>2. QED
      BY ONLY <3>1, TokenComes
  <2>3. QED
    BY <2>2
<1>10. Requests'
  BY <1>2, <1>9, NobodyMoves
<1>11. Drawn(t)
  BY <1>3, <1>9 DEF Drawn, SamePays
<1>12. QED
  BY <1>1, <1>5, <1>6, <1>9, <1>10, <1>11, DrawnKeeps DEF StoresInv

LEMMA PrimaryLoginKeeps ==
  ASSUME StoresInv, NEW u \in Users, NEW d \in {"session_ready", "mfa_required"}, NEW s \in Subjects \cup {None},
         PrimaryLogin(u, d, s)
  PROVE  StoresInv' /\ Drawn(Len(token) + 1)
<1>1. PICK p : p = [login |-> Len(began) + 1, user |-> u, decision |-> d, assured |-> FALSE, subject |-> s]
  OBVIOUS
<1>2. PICK row : row = [kind |-> "workflow", state |-> "live", method |-> None, fac |-> 0, pay |-> p]
  OBVIOUS
<1>3. Len(began) + 1 \in Nat
  BY DEF StoresInv, WorldTables
<1>4. p \in Payload /\ p.login = Len(began) + 1 /\ p.user = u
  BY <1>1, <1>3 DEF Payload
<1>5. row \in TokenRow /\ row.state = "live" /\ row.pay = p /\ row.kind = "workflow"
  BY <1>2, <1>4 DEF TokenRow
<1>6. Draw(row)
  BY <1>1, <1>2 DEF PrimaryLogin
<1>7. PICK o \in {"low", "guarded"} : began' = Append(began, o)
  BY DEF PrimaryLogin
<1>8. /\ UNCHANGED <<factor, fails, lock, voided, sends, active, linked, now, fresh, req, raced, load>>
      /\ Len(began) < MaxLogins
  BY DEF PrimaryLogin, observers
<1>9. QED
  BY <1>4, <1>5, <1>6, <1>7, <1>8, NoneIs, LoginBegins

LEMMA PasskeyPrimaryOptionsKeeps ==
  ASSUME StoresInv, NEW c \in Clients, PasskeyPrimaryOptions(c)
  PROVE  StoresInv' /\ Drawn(Len(token) + 1)
<1>1. PICK p : p = [login |-> Len(began) + 1, user |-> None, decision |-> "mfa_required", assured |-> FALSE,
                    subject |-> None]
  OBVIOUS
<1>2. PICK row : row = [kind |-> "authenticate", state |-> "live", method |-> None, fac |-> 0, pay |-> p]
  OBVIOUS
<1>3. Len(began) + 1 \in Nat
  BY DEF StoresInv, WorldTables
<1>4. p \in Payload /\ p.login = Len(began) + 1
  BY <1>1, <1>3 DEF Payload
<1>5. row \in TokenRow /\ row.state = "live" /\ row.pay = p /\ row.kind = "authenticate"
  BY <1>2, <1>4 DEF TokenRow, WebAuthnTokens
<1>6. Draw(row)
  BY <1>1, <1>2 DEF PasskeyPrimaryOptions
<1>7. began' = Append(began, "guarded")
  BY DEF PasskeyPrimaryOptions
<1>8. /\ UNCHANGED <<factor, fails, lock, voided, sends, active, linked, now, fresh, req, raced, load>>
      /\ Len(began) < MaxLogins
  BY DEF PasskeyPrimaryOptions, observers
<1>9. QED
  BY <1>4, <1>5, <1>6, <1>7, <1>8, NoneIs, LoginBegins
\* A request that stores what it holds under a new token.
LEMMA PutsToken ==
  ASSUME StoresInv, UNCHANGED <<factor, fails, lock, voided, sends, world, raced, load>>,
         NEW row \in TokenRow, Draw(row), row.state = "live", GoodToken(row),
         NEW c \in Clients, Refuse(c), req[c].pay # None, row.pay.login = req[c].pay.login
  PROVE  StoresInv' /\ Put(c, Len(token) + 1)
<1>1. PICK t : t = Len(token) + 1
  OBVIOUS
<1>2. FactorTables' /\ WorldTables' /\ Requests /\ UNCHANGED <<factor, began, fresh, load>> /\ fresh \in Nat
  BY RestStays
<1>3. GoodToken(row)'
  BY <1>2 DEF GoodToken
<1>4. /\ NoOtp \in OtpRow /\ NoOtp.gen <= fresh' /\ fresh' \in Nat /\ fresh <= fresh' /\ load' = load
      /\ DOMAIN factor \subseteq DOMAIN factor' /\ DOMAIN began \subseteq DOMAIN began'
      /\ token' = Append(token, row) /\ otp' = Append(otp, NoOtp)
  BY <1>2, NoOtpIs DEF Draw
<1>5. /\ TokenTables' /\ Grows /\ SameTokens({t}) /\ ~LiveAt(t) /\ LiveAt(t)' /\ token'[t] = row
  <2>1. Appends(row, NoOtp, t)
    BY <1>1, <1>3, <1>4 DEF Appends
  <2>2. QED
    BY <2>1, TokenComes
<1>6. Requests'
  BY <1>2, <1>5, IdleIs, OneMoves DEF Refuse
<1>7. req'[c] = Idle /\ \A d \in Clients : d # c => req'[d] = req[d]
  BY <1>2, StepMoves DEF Refuse
<1>8. Put(c, t)
  BY <1>5, <1>7, IdleIs DEF Put, SamePays
<1>9. QED
  BY <1>1, <1>2, <1>5, <1>6, <1>8, PutKeeps DEF StoresInv

\* The token that was drawn for a message becomes a stored one.
LEMMA DrawnIsStored ==
  ASSUME StoresInv, UNCHANGED <<factor, fails, lock, voided, sends, world, raced, load>>, otp' = otp,
         NEW c \in Clients, Refuse(c), req[c].pay # None,
         NEW n \in DOMAIN token, token[n].state = "drawn", token[n].pay = req[c].pay,
         token' = [token EXCEPT ![n].state = "live"]
  PROVE  StoresInv' /\ Put(c, n) /\ token'[n].pay = token[n].pay
<1>1. FactorTables' /\ WorldTables' /\ Requests /\ UNCHANGED <<factor, began, fresh, load>> /\ fresh \in Nat
  BY RestStays
<1>2. token[n] \in TokenRow /\ GoodToken(token[n])
  BY StoresAre
<1>3. PICK x : x = [token[n] EXCEPT !.state = "live"]
  OBVIOUS
<1>4. /\ x \in TokenRow /\ x.state = "live" /\ x.pay = token[n].pay /\ x.kind = token[n].kind
      /\ x.method = token[n].method /\ x.fac = token[n].fac
  BY <1>2, <1>3 DEF TokenRow
<1>5. GoodToken(x)
  BY <1>2, <1>4 DEF GoodToken
<1>6. token' = [token EXCEPT ![n] = x]
  BY <1>3
<1>7. /\ token' \in Seq(TokenRow) /\ Len(token') = Len(token) /\ DOMAIN token' = DOMAIN token
      /\ token'[n] = x /\ \A s \in DOMAIN token : s # n => token'[s] = token[s]
  <2>1. token \in Seq(TokenRow)
    BY DEF StoresInv, TokenTables
  <2>2. QED
    BY <1>4, <1>6, <2>1, OneEntry
<1>8. ASSUME NEW s \in DOMAIN token PROVE GoodToken(token[s])'
  BY <1>1, <1>5, <1>7, StoresAre DEF GoodToken
<1>9. TokenTables'
  BY <1>1, <1>7, <1>8 DEF StoresInv, TokenTables
<1>10. req'[c] = Idle /\ \A d \in Clients : d # c => req'[d] = req[d]
  BY <1>1, StepMoves DEF Refuse
<1>11. ASSUME NEW d \in Clients, d # c PROVE Placed(req[d])'
  <2>1. PICK r : r = req[d]
    OBVIOUS
  <2>2. Placed(r) /\ req'[d] = r
    BY <1>10, <1>11, <2>1, StoresAre
  <2>3. ASSUME Saw(r) PROVE Saw(r)'
    BY <1>1, <1>7, <2>3 DEF Saw
  <2>4. r.pay # None => r.pay.login # req[c].pay.login
    BY <1>11, <2>1 DEF StoresInv, Exclusive
  <2>5. ASSUME r.pay # None, r.new \in DOMAIN token, token[r.new].state = "drawn", token[r.new].pay = r.pay
        PROVE  r.new \in DOMAIN token' /\ token'[r.new].state = "drawn" /\ token'[r.new].pay = r.pay
    <3>1. r.new # n
      BY <2>4, <2>5
    <3>2. QED
      BY <1>7, <2>5, <3>1
  <2>6. Placed(r)'
    BY <1>1, <1>7, <2>2, <2>3, <2>5 DEF Placed
  <2>7. QED
    BY <2>2, <2>6
<1>12. Placed(req[c])'
  BY <1>10, IdleIs
<1>13. req' \in [Clients -> RequestState]
  BY <1>1, IdleIs DEF Requests, Refuse, Step
<1>14. Requests'
  BY <1>11, <1>12, <1>13 DEF Requests
<1>15. Put(c, n)
  BY <1>4, <1>7, <1>10, IdleIs DEF Put, SamePays, SameTokens, LiveAt
<1>16. QED
  BY <1>1, <1>4, <1>7, <1>9, <1>14, <1>15, PutKeeps DEF StoresInv

LEMMA StoreChallengeKeeps ==
  ASSUME StoresInv, NEW c \in Clients, StoreChallenge(c)
  PROVE  StoresInv' /\ \E t : Put(c, t) /\ token'[t].pay = req[c].pay
<1>1. /\ UNCHANGED <<factor, fails, lock, voided, sends, world, raced, load>> /\ Refuse(c) /\ req[c].at = "store"
  BY DEF StoreChallenge, observers
<1>2. req[c] \in RequestState /\ Placed(req[c])
  BY StoresAre
<1>3. /\ req[c].pay # None /\ req[c].pay.login \in DOMAIN began /\ req[c].pay.user \in Users
      /\ req[c].kind # "workflow" /\ (req[c].kind = "enroll" => req[c].fac \in DOMAIN factor)
      /\ req[c].kind = "verify" => req[c].method \in VerifyMethods /\ (req[c].method = "totp" => req[c].fac \in DOMAIN factor)
  BY <1>1, <1>2 DEF Placed, Carries
<1>4. CASE req[c].new = 0
  <2>1. PICK row : row = [kind |-> req[c].kind, state |-> "live", pay |-> req[c].pay, method |-> req[c].method,
                          fac |-> req[c].fac]
    OBVIOUS
  <2>2. /\ row \in TokenRow /\ row.state = "live" /\ row.pay = req[c].pay /\ row.kind = req[c].kind
        /\ row.method = req[c].method /\ row.fac = req[c].fac
    BY <1>2, <2>1 DEF TokenRow, RequestState, VerifyMethods, TokenKinds, WebAuthnTokens
  <2>3. GoodToken(row)
    BY <1>2, <1>3, <2>2 DEF GoodToken, RequestState
  <2>4. Draw(row)
    BY <1>4, <2>1 DEF StoreChallenge
  <2>5. StoresInv' /\ Put(c, Len(token) + 1)
    BY <1>1, <1>3, <2>2, <2>3, <2>4, PutsToken
  <2>6. token'[Len(token) + 1] = row
    BY <2>2, <2>4 DEF Draw, StoresInv, TokenTables
  <2>7. QED
    BY <2>2, <2>5, <2>6
<1>5. CASE req[c].new # 0
  <2>1. PICK n : n = req[c].new
    OBVIOUS
  <2>2. n \in DOMAIN token /\ token[n].state = "drawn" /\ token[n].pay = req[c].pay
    BY <1>1, <1>2, <1>3, <1>5, <2>1 DEF Placed
  <2>3. token' = [token EXCEPT ![n].state = "live"] /\ otp' = otp
    BY <1>5, <2>1 DEF StoreChallenge
  <2>4. StoresInv' /\ Put(c, n) /\ token'[n].pay = token[n].pay
    BY <1>1, <1>3, <2>2, <2>3, DrawnIsStored
  <2>5. QED
    BY <2>2, <2>4
<1>6. QED
  BY <1>4, <1>5

LEMMA CompleteKeeps ==
  ASSUME StoresInv, NEW c \in Clients, Complete(c)
  PROVE  StoresInv' /\ (PayLost(c) \/ Put(c, Len(token) + 1))
<1>1. PICK p : p = req[c].pay
  OBVIOUS
<1>2. /\ UNCHANGED <<factor, fails, lock, voided, sends, raced, load, active, now, fresh, began>>
      /\ Refuse(c) /\ req[c].at = "complete"
  BY DEF Complete, observers
<1>3. req[c] \in RequestState /\ Placed(req[c])
  BY StoresAre
<1>4. p # None /\ p \in Payload /\ p.login \in DOMAIN began /\ p.user \in Users
  BY <1>1, <1>2, <1>3 DEF Placed, Carries, RequestState
<1>5. CASE /\ p.subject # None /\ UNCHANGED <<token, otp>>
           /\ linked' = IF Linkable(p.subject) THEN linked \cup {<<p.subject, p.user, p.login>>} ELSE linked
  <2>1. p.subject \in Subjects /\ p.login \in Nat
    BY <1>4, <1>5 DEF Payload
  <2>2. linked' \subseteq Subjects \X Users \X Nat
    <3>1. linked \subseteq Subjects \X Users \X Nat
      BY DEF StoresInv, WorldTables
    <3>2. <<p.subject, p.user, p.login>> \in Subjects \X Users \X Nat
      BY <1>4, <2>1
    <3>3. QED
      BY <1>5, <3>1, <3>2
  <2>3. WorldTables'
    BY <1>2, <2>2 DEF StoresInv, WorldTables
  <2>4. fresh \in Nat /\ Requests
    BY StoresAre DEF StoresInv
  <2>5. FactorTables' /\ TokenTables'
    BY <1>2, <1>5, <2>4, FactorsStay, TokensStay
  <2>6. Grows
    BY <1>2, <1>5 DEF Grows
  <2>7. Requests'
    BY <1>2, <2>4, <2>6, IdleIs, OneMoves DEF Refuse
  <2>8. req'[c] = Idle /\ \A d \in Clients : d # c => req'[d] = req[d]
    BY <1>2, <2>4, StepMoves DEF Refuse
  <2>9. PayLost(c)
    BY <1>1, <1>4, <1>5, <2>8, IdleIs DEF PayLost, SamePays, SameTokens, LiveAt
  <2>10. QED
    BY <2>3, <2>5, <2>7, <2>9, PayLostKeeps DEF StoresInv
<1>6. CASE /\ linked' = linked
           /\ Draw([kind |-> "workflow", state |-> "live", method |-> None, fac |-> 0,
                    pay |-> [p EXCEPT !.decision = "session_ready", !.assured = TRUE]])
  <2>1. PICK q : q = [p EXCEPT !.decision = "session_ready", !.assured = TRUE]
    OBVIOUS
  <2>2. q \in Payload /\ q.login = p.login /\ q.user = p.user
    BY <1>4, <2>1 DEF Payload
  <2>3. PICK row : row = [kind |-> "workflow", state |-> "live", method |-> None, fac |-> 0, pay |-> q]
    OBVIOUS
  <2>4. row \in TokenRow /\ row.state = "live" /\ row.pay = q /\ row.kind = "workflow"
    BY <2>2, <2>3 DEF TokenRow
  <2>5. GoodToken(row)
    BY <1>4, <2>2, <2>4, NoneIs DEF GoodToken, TokenKinds
  <2>6. Draw(row)
    BY <1>6, <2>1, <2>3
  <2>7. QED
    BY <1>1, <1>2, <1>4, <1>6, <2>2, <2>4, <2>5, <2>6, PutsToken DEF world
<1>7. QED
  BY <1>1, <1>5, <1>6 DEF Complete
-----------------------------------------------------------------------------
(***************************************************************************)
(* The hash of a code, and the counters.                                   *)
(***************************************************************************)
\* One request moves on, and no login changes its place.
LEMMA Moved ==
  ASSUME StoresInv, FactorTables', TokenTables', WorldTables', Grows, SameTokens({}),
         NEW c \in Clients, NEW r \in RequestState, Step(c, r), Placed(r)',
         \/ r.pay = None
         \/ req[c].pay # None /\ r.pay = req[c].pay
  PROVE  StoresInv' /\ (Quiet \/ PayLost(c))
<1>1. Requests
  BY DEF StoresInv
<1>2. Requests'
  BY <1>1, OneMoves
<1>3. req'[c] = r /\ \A d \in Clients : d # c => req'[d] = req[d]
  BY <1>1, StepMoves
<1>4. Quiet \/ PayLost(c)
  BY <1>3 DEF Quiet, PayLost, SamePays
<1>5. Exclusive'
  BY <1>4, QuietKeeps, PayLostKeeps
<1>6. QED
  BY <1>2, <1>4, <1>5 DEF StoresInv

\* Nobody moves.
LEMMA Rests ==
  ASSUME StoresInv, FactorTables', TokenTables', WorldTables', Grows, SameTokens({}), req' = req
  PROVE  StoresInv' /\ Quiet
<1>1. Requests'
  BY NobodyMoves DEF StoresInv
<1>2. Quiet
  BY DEF Quiet, SamePays
<1>3. QED
  BY <1>1, <1>2, QuietKeeps DEF StoresInv

LEMMA TokensSame ==
  ASSUME token' = token
  PROVE  SameTokens({})
BY DEF SameTokens, LiveAt

LEMMA OtpChanges ==
  ASSUME StoresInv, token' = token, NEW n \in DOMAIN token, NEW h \in OtpRow, otp' = [otp EXCEPT ![n] = h],
         UNCHANGED <<factor, began>>, fresh' \in Nat, fresh <= fresh', h.gen <= fresh'
  PROVE  TokenTables'
<1>1. otp \in Seq(OtpRow) /\ Len(otp) = Len(token) /\ n \in DOMAIN otp
  BY StoresAre DEF StoresInv, TokenTables
<1>2. /\ otp' \in Seq(OtpRow) /\ Len(otp') = Len(otp) /\ DOMAIN otp' = DOMAIN otp
      /\ otp'[n] = h /\ \A k \in DOMAIN otp : k # n => otp'[k] = otp[k]
  BY <1>1, OneEntry
<1>3. ASSUME NEW k \in DOMAIN otp PROVE otp'[k].gen <= fresh'
  <2>1. otp[k].gen <= fresh /\ otp[k] \in OtpRow /\ fresh \in Nat
    BY StoresAre
  <2>2. otp[k].gen \in Nat
    BY <2>1 DEF OtpRow
  <2>3. otp[k].gen <= fresh'
    BY <2>1, <2>2
  <2>4. QED
    BY <1>2, <2>3
<1>4. ASSUME NEW t \in DOMAIN token PROVE GoodToken(token[t])'
  BY StoresAre DEF GoodToken
<1>5. QED
  BY <1>1, <1>2, <1>3, <1>4 DEF StoresInv, TokenTables

LEMMA ExpireOtpKeeps ==
  ASSUME StoresInv, NEW t, ExpireOtp(t)
  PROVE  StoresInv' /\ Quiet
<1>1. /\ UNCHANGED <<factor, token, fails, lock, voided, sends, world, raced, load, req>>
      /\ t \in DOMAIN token /\ otp' = [otp EXCEPT ![t] = NoOtp]
  BY DEF ExpireOtp, observers
<1>2. FactorTables' /\ WorldTables' /\ fresh \in Nat /\ UNCHANGED <<factor, began, fresh, load>>
  BY <1>1, RestStays
<1>3. NoOtp \in OtpRow /\ NoOtp.gen <= fresh' /\ fresh' \in Nat /\ fresh <= fresh'
  BY <1>2, NoOtpIs
<1>4. TokenTables'
  BY <1>1, <1>2, <1>3, OtpChanges
<1>5. Grows /\ SameTokens({})
  BY <1>1, <1>2, TokensSame DEF Grows
<1>6. QED
  BY <1>1, <1>2, <1>4, <1>5, Rests

LEMMA DeliveryFailsKeeps ==
  ASSUME StoresInv, NEW c \in Clients, DeliveryFails(c)
  PROVE  StoresInv' /\ (Quiet \/ PayLost(c))
<1>1. PICK n : n = req[c].new
  OBVIOUS
<1>2. /\ UNCHANGED <<factor, token, fails, lock, voided, sends, world, raced, load>>
      /\ req[c].at = "deliver" /\ otp' = [otp EXCEPT ![n] = NoOtp] /\ Refuse(c)
  BY <1>1 DEF DeliveryFails, observers
<1>3. n \in DOMAIN token
  BY <1>1, <1>2, StoresAre DEF Placed
<1>4. FactorTables' /\ WorldTables' /\ fresh \in Nat /\ UNCHANGED <<factor, began, fresh, load>>
  BY <1>2, RestStays
<1>5. NoOtp \in OtpRow /\ NoOtp.gen <= fresh' /\ fresh' \in Nat /\ fresh <= fresh'
  BY <1>4, NoOtpIs
<1>6. TokenTables'
  BY <1>2, <1>3, <1>4, <1>5, OtpChanges
<1>7. Grows /\ SameTokens({})
  BY <1>2, <1>4, TokensSame DEF Grows
<1>8. QED
  BY <1>2, <1>4, <1>6, <1>7, IdleIs, Moved DEF Refuse

LEMMA CheckOtpKeeps ==
  ASSUME StoresInv, NEW c \in Clients, CheckOtp(c)
  PROVE  StoresInv' /\ (Quiet \/ PayLost(c))
<1>1. PICK t : t = req[c].tok
  OBVIOUS
<1>2. UNCHANGED <<factor, token, fails, lock, voided, sends, world, raced, load>> /\ req[c].at = "otp"
  BY DEF CheckOtp, observers
<1>3. req[c] \in RequestState /\ Placed(req[c])
  BY StoresAre
<1>4. t \in DOMAIN token /\ req[c].pay = None
  BY <1>1, <1>2, <1>3 DEF Placed, Saw, Reads, Carries, Sends, Taking
<1>5. FactorTables' /\ WorldTables' /\ fresh \in Nat /\ UNCHANGED <<factor, began, fresh, load>>
  BY <1>2, RestStays
<1>6. Grows /\ SameTokens({})
  BY <1>2, <1>5, TokensSame DEF Grows
<1>7. otp[t] \in OtpRow /\ otp[t].gen <= fresh
  BY <1>4, StoresAre
<1>8. TokenTables'
  <2>1. CASE otp' = otp
    BY <1>2, <1>5, <2>1, TokensStay
  <2>2. CASE otp' = [otp EXCEPT ![t] = NoOtp]
    <3>1. NoOtp \in OtpRow /\ NoOtp.gen <= fresh' /\ fresh' \in Nat /\ fresh <= fresh'
      BY <1>5, NoOtpIs
    <3>2. QED
      BY <1>2, <1>4, <1>5, <2>2, <3>1, OtpChanges
  <2>3. CASE /\ otp[t].attempts + 1 < OtpAttempts
             /\ otp' = [otp EXCEPT ![t] = [@ EXCEPT !.attempts = otp[t].attempts + 1]]
    <3>1. PICK h, a : h = [otp[t] EXCEPT !.attempts = a] /\ a = otp[t].attempts + 1
      OBVIOUS
    <3>2. a \in 0..(OtpAttempts - 1)
      BY <1>7, <2>3, <3>1, MfaAssumption DEF OtpRow
    <3>3. h \in OtpRow /\ h.gen = otp[t].gen
      BY <1>7, <3>1, <3>2 DEF OtpRow
    <3>4. otp' = [otp EXCEPT ![t] = h]
      BY <2>3, <3>1
    <3>5. h.gen <= fresh' /\ fresh' \in Nat /\ fresh <= fresh'
      BY <1>5, <1>7, <3>3
    <3>6. QED
      BY <1>2, <1>4, <1>5, <3>3, <3>4, <3>5, OtpChanges
  <2>4. otp[t].attempts + 1 < OtpAttempts \/ otp[t].attempts + 1 >= OtpAttempts
    BY <1>7, MfaAssumption DEF OtpRow
  <2>5. QED
    BY <1>1, <2>1, <2>2, <2>3, <2>4 DEF CheckOtp
<1>9. PICK label \in {"consume", "void"} : Goto(c, label)
  BY DEF CheckOtp
<1>10. PICK r : r = [req[c] EXCEPT !.at = label]
  OBVIOUS
<1>11. label \in Labels
  BY LabelsAre
<1>12. /\ r \in RequestState /\ r.at = label /\ r.tok = req[c].tok /\ r.read = req[c].read /\ r.pay = req[c].pay
  BY <1>3, <1>10, <1>11 DEF RequestState
<1>13. Placed(r)
  BY <1>2, <1>3, <1>4, <1>12 DEF Placed, Saw, Reads, Carries, Sends, Taking, OnFactor
<1>14. Placed(r)'
  BY <1>6, <1>13, StaysPlaced
<1>15. Step(c, r)
  BY <1>9, <1>10 DEF Goto
<1>16. QED
  BY <1>4, <1>5, <1>6, <1>8, <1>12, <1>14, <1>15, Moved
\* A counter of a user, or the store of codes drawn, moves on.
LEMMA WorldCounts ==
  ASSUME StoresInv, voided' \in [Users -> Nat], sends' \in [Users -> Nat], fresh' \in Nat, now' \in Nat,
         active' \subseteq Users, UNCHANGED <<linked, began>>, raced' \subseteq {"factors", "codes"}
  PROVE  WorldTables'
BY DEF StoresInv, WorldTables

LEMMA CountersAre ==
  ASSUME StoresInv, NEW u \in Users
  PROVE  /\ voided[u] \in Nat /\ sends[u] \in Nat /\ voided \in [Users -> Nat] /\ sends \in [Users -> Nat]
         /\ [voided EXCEPT ![u] = @ + 1] \in [Users -> Nat] /\ [sends EXCEPT ![u] = @ + 1] \in [Users -> Nat]
         /\ [voided EXCEPT ![u] = 0] \in [Users -> Nat] /\ [sends EXCEPT ![u] = 0] \in [Users -> Nat]
         /\ now \in Nat /\ fresh \in Nat /\ active \subseteq Users /\ raced \subseteq {"factors", "codes"}
BY DEF StoresInv, WorldTables

LEMMA StoreOtpKeeps ==
  ASSUME StoresInv, NEW c \in Clients, StoreOtp(c)
  PROVE  StoresInv' /\ (Quiet \/ PayLost(c))
<1>1. PICK u : u = req[c].read.user
  OBVIOUS
<1>2. /\ UNCHANGED <<factor, fails, lock, voided, active, linked, now, began, raced, load>>
      /\ req[c].at = "send" /\ sends' = [sends EXCEPT ![u] = @ + 1]
  BY <1>1 DEF StoreOtp, observers
<1>3. req[c] \in RequestState /\ Placed(req[c])
  BY StoresAre
<1>4. /\ u \in Users /\ req[c].read # None /\ (req[c].pay = None <=> req[c].new # 0)
      /\ req[c].new # 0 => req[c].new \in DOMAIN token
      /\ req[c].pay # None => /\ req[c].pay.login \in DOMAIN began /\ req[c].pay.user \in Users
                              /\ req[c].kind = "verify" /\ req[c].method = "otp"
  BY <1>1, <1>2, <1>3 DEF Placed, Sends
<1>5. /\ sends' \in [Users -> Nat] /\ voided' \in [Users -> Nat] /\ now' \in Nat /\ fresh \in Nat
      /\ active' \subseteq Users /\ raced' \subseteq {"factors", "codes"}
  BY <1>2, <1>4, CountersAre
<1>6. CASE Refuse(c) /\ UNCHANGED <<token, otp, fresh>>
  <2>1. fresh' \in Nat /\ fresh <= fresh'
    BY <1>5, <1>6
  <2>2. FactorTables' /\ TokenTables' /\ WorldTables'
    BY <1>2, <1>5, <1>6, <2>1, FactorsStay, TokensStay, WorldCounts
  <2>3. Grows /\ SameTokens({})
    BY <1>2, <1>6, TokensSame DEF Grows
  <2>4. QED
    BY <1>6, <2>2, <2>3, IdleIs, Moved DEF Refuse
<1>7. ASSUME fresh' = fresh + 1
      PROVE  FactorTables' /\ WorldTables' /\ fresh' \in Nat /\ fresh <= fresh'
  <2>1. fresh' \in Nat /\ fresh <= fresh'
    BY <1>5, <1>7
  <2>2. QED
    BY <1>2, <1>5, <2>1, FactorsStay, WorldCounts
<1>8. PICK h : h = [gen |-> fresh + 1, attempts |-> 0]
  OBVIOUS
<1>9. h \in OtpRow /\ h.gen = fresh + 1 /\ "deliver" \in Labels
  <2>1. 0 \in 0..(OtpAttempts - 1) /\ fresh + 1 \in Nat
    BY <1>5, MfaAssumption
  <2>2. "deliver" \in Labels
    BY LabelsAre
  <2>3. QED
    BY <1>8, <2>1, <2>2 DEF OtpRow
<1>10. CASE /\ fresh' = fresh + 1 /\ req[c].new = 0 /\ otp' = Append(otp, h)
            /\ token' = Append(token, [kind |-> "verify", state |-> "drawn", pay |-> req[c].pay,
                                       method |-> "otp", fac |-> 0])
            /\ Step(c, [req[c] EXCEPT !.at = "deliver", !.new = Len(token) + 1])
  <2>1. PICK row, n : /\ row = [kind |-> "verify", state |-> "drawn", pay |-> req[c].pay, method |-> "otp", fac |-> 0]
                      /\ n = Len(token) + 1
    OBVIOUS
  <2>2. req[c].pay \in Payload /\ req[c].pay # None
    BY <1>3, <1>4, <1>10 DEF RequestState
  <2>3. row \in TokenRow /\ row.state = "drawn" /\ row.pay = req[c].pay /\ row.kind = "verify" /\ row.method = "otp"
    BY <2>1, <2>2 DEF TokenRow
  <2>4. GoodToken(row)'
    BY <1>2, <1>4, <2>2, <2>3 DEF GoodToken, TokenKinds, VerifyMethods
  <2>5. /\ h.gen <= fresh' /\ fresh' \in Nat /\ fresh <= fresh' /\ load' = load
        /\ DOMAIN factor \subseteq DOMAIN factor' /\ DOMAIN began \subseteq DOMAIN began'
        /\ token' = Append(token, row) /\ otp' = Append(otp, h) /\ row.state # "live"
    BY <1>2, <1>5, <1>7, <1>9, <1>10, <2>1, <2>3
  <2>6. /\ TokenTables' /\ Grows /\ SameTokens({}) /\ token'[n] = row /\ n \in DOMAIN token' /\ n \in Nat /\ n # 0
    <3>1. Appends(row, h, n)
      BY <1>9, <2>1, <2>3, <2>4, <2>5 DEF Appends
    <3>2. QED
      BY <2>5, <3>1, TokenComes
  <2>7. PICK r : r = [req[c] EXCEPT !.at = "deliver", !.new = n]
    OBVIOUS
  <2>8. /\ r \in RequestState /\ r.at = "deliver" /\ r.new = n /\ r.read = req[c].read /\ r.pay = req[c].pay
        /\ r.kind = req[c].kind /\ r.method = req[c].method
    BY <1>3, <1>9, <2>6, <2>7 DEF RequestState
  <2>9. Placed(r)'
    BY <1>1, <1>2, <1>4, <2>2, <2>3, <2>6, <2>8 DEF Placed, Reads, Carries, Sends, Taking, OnFactor
  <2>10. Step(c, r)
    BY <1>10, <2>1, <2>7
  <2>11. QED
    BY <1>7, <1>10, <2>2, <2>6, <2>8, <2>9, <2>10, Moved
<1>11. CASE /\ fresh' = fresh + 1 /\ req[c].new # 0 /\ token' = token
            /\ otp' = [otp EXCEPT ![req[c].new] = h] /\ Goto(c, "deliver")
  <2>1. PICK n : n = req[c].new
    OBVIOUS
  <2>2. n \in DOMAIN token /\ req[c].pay = None
    BY <1>4, <1>11, <2>1
  <2>3. fresh' \in Nat /\ fresh <= fresh' /\ h.gen <= fresh'
    BY <1>5, <1>7, <1>9, <1>11
  <2>4. TokenTables'
    BY <1>2, <1>9, <1>11, <2>1, <2>2, <2>3, OtpChanges
  <2>5. Grows /\ SameTokens({})
    BY <1>2, <1>11, TokensSame DEF Grows
  <2>6. PICK r : r = [req[c] EXCEPT !.at = "deliver"]
    OBVIOUS
  <2>7. /\ r \in RequestState /\ r.at = "deliver" /\ r.new = n /\ r.read = req[c].read /\ r.pay = req[c].pay
    BY <1>3, <1>9, <2>1, <2>6 DEF RequestState
  <2>8. Placed(r)'
    BY <1>1, <1>4, <1>11, <2>2, <2>7 DEF Placed, Reads, Carries, Sends, Taking, OnFactor
  <2>9. Step(c, r)
    BY <1>11, <2>6 DEF Goto
  <2>10. QED
    BY <1>7, <1>11, <2>2, <2>4, <2>5, <2>7, <2>8, <2>9, Moved
<1>12. QED
  BY <1>1, <1>6, <1>8, <1>10, <1>11 DEF StoreOtp

LEMMA CountChallengeFailureKeeps ==
  ASSUME StoresInv, NEW c \in Clients, CountChallengeFailure(c)
  PROVE  StoresInv' /\ (Quiet \/ PayLost(c))
<1>1. PICK u : u = req[c].read.user
  OBVIOUS
<1>2. /\ UNCHANGED <<factor, token, otp, fails, lock, sends, active, linked, now, fresh, began, raced, load>>
      /\ req[c].at = "void" /\ voided' = [voided EXCEPT ![u] = @ + 1]
  BY <1>1 DEF CountChallengeFailure, observers, world
<1>3. req[c] \in RequestState /\ Placed(req[c])
  BY StoresAre
<1>4. u \in Users /\ req[c].read # None /\ Saw(req[c]) /\ req[c].pay = None
  BY <1>1, <1>2, <1>3 DEF Placed, Reads, Carries, Sends, Taking
<1>5. /\ sends' \in [Users -> Nat] /\ voided' \in [Users -> Nat] /\ now' \in Nat /\ fresh' \in Nat /\ fresh <= fresh'
      /\ active' \subseteq Users /\ raced' \subseteq {"factors", "codes"}
  BY <1>2, <1>4, CountersAre
<1>6. FactorTables' /\ TokenTables' /\ WorldTables'
  BY <1>2, <1>5, FactorsStay, TokensStay, WorldCounts
<1>7. Grows /\ SameTokens({})
  BY <1>2, TokensSame DEF Grows
<1>8. CASE Refuse(c)
  BY <1>6, <1>7, <1>8, IdleIs, Moved DEF Refuse
<1>9. CASE Goto(c, "delete")
  <2>1. PICK r : r = [req[c] EXCEPT !.at = "delete"]
    OBVIOUS
  <2>2. "delete" \in Labels
    BY LabelsAre
  <2>3. /\ r \in RequestState /\ r.at = "delete" /\ r.tok = req[c].tok /\ r.read = req[c].read /\ r.pay = req[c].pay
    BY <1>3, <2>1, <2>2 DEF RequestState
  <2>4. Placed(r)
    BY <1>1, <1>4, <2>3 DEF Placed, Saw, Reads, Carries, Sends, Taking, OnFactor
  <2>5. Placed(r)' /\ Step(c, r)
    BY <1>7, <1>9, <2>1, <2>4, StaysPlaced DEF Goto
  <2>6. QED
    BY <1>4, <1>6, <1>7, <2>3, <2>5, Moved
<1>10. QED
  BY <1>8, <1>9 DEF CountChallengeFailure

LEMMA ExpireUserCountersKeeps ==
  ASSUME StoresInv, NEW u \in Users, ExpireUserCounters(u)
  PROVE  StoresInv' /\ Quiet
<1>1. UNCHANGED <<factor, token, otp, fails, lock, active, linked, now, fresh, began, req, raced, load>>
  BY DEF ExpireUserCounters, observers, world
<1>2. /\ sends' \in [Users -> Nat] /\ voided' \in [Users -> Nat] /\ now' \in Nat /\ fresh' \in Nat /\ fresh <= fresh'
      /\ active' \subseteq Users /\ raced' \subseteq {"factors", "codes"}
  BY <1>1, CountersAre DEF ExpireUserCounters
<1>3. FactorTables' /\ TokenTables' /\ WorldTables'
  BY <1>1, <1>2, FactorsStay, TokensStay, WorldCounts
<1>4. Grows /\ SameTokens({})
  BY <1>1, TokensSame DEF Grows
<1>5. QED
  BY <1>1, <1>3, <1>4, Rests

LEMMA NextTotpStepKeeps ==
  ASSUME StoresInv, NextTotpStep
  PROVE  StoresInv' /\ Quiet
<1>1. UNCHANGED <<factor, token, otp, fails, lock, voided, sends, active, linked, fresh, began, req, raced, load>>
  BY DEF NextTotpStep, observers, redis
<1>2. /\ sends' \in [Users -> Nat] /\ voided' \in [Users -> Nat] /\ now' \in Nat /\ fresh' \in Nat /\ fresh <= fresh'
      /\ active' \subseteq Users /\ raced' \subseteq {"factors", "codes"}
  BY <1>1 DEF NextTotpStep, StoresInv, WorldTables
<1>3. FactorTables' /\ TokenTables' /\ WorldTables'
  BY <1>1, <1>2, FactorsStay, TokensStay, WorldCounts
<1>4. Grows /\ SameTokens({})
  BY <1>1, TokensSame DEF Grows
<1>5. QED
  BY <1>1, <1>3, <1>4, Rests

LEMMA DeactivateKeeps ==
  ASSUME StoresInv, NEW u \in Users, Deactivate(u)
  PROVE  StoresInv' /\ Quiet
<1>1. UNCHANGED <<factor, token, otp, fails, lock, voided, sends, now, linked, fresh, began, req, raced, load>>
  BY DEF Deactivate, observers, redis
<1>2. /\ sends' \in [Users -> Nat] /\ voided' \in [Users -> Nat] /\ now' \in Nat /\ fresh' \in Nat /\ fresh <= fresh'
      /\ active' \subseteq Users /\ raced' \subseteq {"factors", "codes"}
  BY <1>1, CountersAre DEF Deactivate
<1>3. FactorTables' /\ TokenTables' /\ WorldTables'
  BY <1>1, <1>2, FactorsStay, TokensStay, WorldCounts
<1>4. Grows /\ SameTokens({})
  BY <1>1, TokensSame DEF Grows
<1>5. QED
  BY <1>1, <1>3, <1>4, Rests
-----------------------------------------------------------------------------
(***************************************************************************)
(* Factors.                                                                *)
(***************************************************************************)
\* Tokens stay, and the request gives up, goes on with what it took, or with what it read.
LEMMA GivesUp ==
  ASSUME StoresInv, FactorTables', WorldTables', UNCHANGED <<token, otp, began, load>>,
         DOMAIN factor \subseteq DOMAIN factor', fresh' \in Nat, fresh <= fresh',
         NEW c \in Clients, Refuse(c)
  PROVE  StoresInv' /\ (Quiet \/ PayLost(c))
<1>1. TokenTables'
  BY TokensStay
<1>2. Grows /\ SameTokens({})
  BY TokensSame DEF Grows
<1>3. QED
  BY <1>1, <1>2, IdleIs, Moved DEF Refuse

LEMMA GoesOnHolding ==
  ASSUME StoresInv, FactorTables', WorldTables', UNCHANGED <<token, otp, began, load>>,
         DOMAIN factor \subseteq DOMAIN factor', fresh' \in Nat, fresh <= fresh',
         NEW c \in Clients, req[c].at \in Carries, req[c].at # "assertion",
         NEW label \in {"complete", "codes", "new codes", "insert codes"}, Goto(c, label)
  PROVE  StoresInv' /\ Quiet
<1>1. TokenTables'
  BY TokensStay
<1>2. Grows /\ SameTokens({})
  BY TokensSame DEF Grows
<1>3. PICK r : r = [req[c] EXCEPT !.at = label]
  OBVIOUS
<1>4. req[c] \in RequestState /\ Placed(req[c]) /\ label \in Labels
  BY StoresAre, LabelsAre
<1>5. r \in RequestState /\ r.at = label /\ r.pay = req[c].pay
  BY <1>3, <1>4 DEF RequestState
<1>6. req[c].pay # None /\ req[c].pay.login \in DOMAIN began /\ req[c].pay.user \in Users
  BY <1>4 DEF Placed
<1>7. Placed(r)
  BY <1>5, <1>6 DEF Placed, Reads, Carries, Sends, Taking, OnFactor
<1>8. Placed(r)' /\ Step(c, r)
  BY <1>2, <1>3, <1>7, StaysPlaced DEF Goto
<1>9. StoresInv' /\ (Quiet \/ PayLost(c))
  BY <1>1, <1>2, <1>5, <1>6, <1>8, Moved
<1>10. req'[c].pay # None
  BY <1>5, <1>6, <1>8, StepMoves DEF StoresInv
<1>11. QED
  BY <1>9, <1>10 DEF PayLost

LEMMA GoesOnReading ==
  ASSUME StoresInv, FactorTables', WorldTables', UNCHANGED <<token, otp, began, load>>,
         DOMAIN factor \subseteq DOMAIN factor', fresh' \in Nat, fresh <= fresh',
         NEW c \in Clients, req[c].at \in Reads,
         NEW label \in {"consume", "void", "count", "lock"}, Goto(c, label),
         label \in {"count", "lock"} => req[c].at \in OnFactor
  PROVE  StoresInv' /\ Quiet
<1>1. TokenTables'
  BY TokensStay
<1>2. Grows /\ SameTokens({})
  BY TokensSame DEF Grows
<1>3. PICK r : r = [req[c] EXCEPT !.at = label]
  OBVIOUS
<1>4. req[c] \in RequestState /\ Placed(req[c]) /\ label \in Labels
  BY StoresAre, LabelsAre
<1>5. /\ r \in RequestState /\ r.at = label /\ r.pay = req[c].pay /\ r.tok = req[c].tok /\ r.read = req[c].read
      /\ r.fac = req[c].fac
  BY <1>3, <1>4 DEF RequestState
<1>6. /\ req[c].pay = None /\ Saw(req[c]) /\ req[c].read # None /\ req[c].read.user \in Users
      /\ req[c].at \in OnFactor => req[c].fac \in DOMAIN factor
  BY <1>4 DEF Placed, Reads, Carries, Sends, Taking
<1>7. Saw(r)
  BY <1>5, <1>6 DEF Saw
<1>8. Placed(r)
  BY <1>5, <1>6, <1>7 DEF Placed, Reads, Carries, Sends, Taking, OnFactor
<1>9. Placed(r)' /\ Step(c, r)
  BY <1>2, <1>3, <1>8, StaysPlaced DEF Goto
<1>10. StoresInv' /\ (Quiet \/ PayLost(c))
  BY <1>1, <1>2, <1>5, <1>6, <1>9, Moved
<1>11. QED
  BY <1>6, <1>10 DEF PayLost

\* One row changes.
LEMMA FactorChanges ==
  ASSUME StoresInv, UNCHANGED <<fails, lock, load>>, NEW f \in DOMAIN factor, NEW x \in FactorRow,
         factor' = [factor EXCEPT ![f] = x], GoodFactor(x)', fresh' \in Nat, fresh <= fresh'
  PROVE  /\ FactorTables' /\ DOMAIN factor' = DOMAIN factor /\ DOMAIN factor \subseteq DOMAIN factor' /\ factor'[f] = x
         /\ \A g \in DOMAIN factor : g # f => factor'[g] = factor[g]
<1>1. factor \in Seq(FactorRow)
  BY DEF StoresInv, FactorTables
<1>2. /\ factor' \in Seq(FactorRow) /\ Len(factor') = Len(factor) /\ DOMAIN factor' = DOMAIN factor
      /\ factor'[f] = x /\ \A g \in DOMAIN factor : g # f => factor'[g] = factor[g]
  BY <1>1, OneEntry
<1>3. ASSUME NEW g \in DOMAIN factor PROVE GoodFactor(factor[g])'
  <2>1. CASE g = f
    BY <1>2, <2>1
  <2>2. CASE g # f
    <3>1. factor'[g] = factor[g] /\ GoodFactor(factor[g]) /\ factor[g] \in FactorRow /\ fresh \in Nat
      BY <1>2, <2>2, StoresAre
    <3>2. \A k \in factor[g].codes : k \in Nat
      BY <3>1 DEF FactorRow
    <3>3. \A k \in factor[g].codes : k <= fresh'
      BY <3>1, <3>2 DEF GoodFactor
    <3>4. QED
      BY <3>1, <3>3 DEF GoodFactor
  <2>3. QED
    BY <2>1, <2>2
<1>4. QED
  BY <1>2, <1>3 DEF StoresInv, FactorTables

LEMMA FreshStays ==
  ASSUME StoresInv, fresh' = fresh
  PROVE  fresh' \in Nat /\ fresh <= fresh'
<1>1. fresh \in Nat
  BY StoresAre
<1>2. QED
  BY <1>1

LEMMA RevokeRowKeeps ==
  ASSUME StoresInv, NEW c \in Clients, RevokeRow(c)
  PROVE  StoresInv' /\ (Quiet \/ PayLost(c))
<1>1. PICK f : f = req[c].fac
  OBVIOUS
<1>2. UNCHANGED <<token, otp, fails, lock, voided, sends, active, linked, now, fresh, began, load>> /\ req[c].at = "revoke row"
  BY DEF RevokeRow, redis, world
<1>3. f \in DOMAIN factor
  BY <1>1, <1>2, StoresAre DEF Placed, OnFactor
<1>4. raced' \subseteq {"factors", "codes"} /\ fresh' \in Nat /\ fresh <= fresh'
  <2>1. raced \subseteq {"factors", "codes"}
    BY DEF StoresInv, WorldTables
  <2>2. raced' \in {raced, raced \cup {"factors"}}
    BY DEF RevokeRow
  <2>3. raced' \subseteq {"factors", "codes"}
    BY <2>1, <2>2
  <2>4. QED
    BY <1>2, <2>3, FreshStays
<1>5. WorldTables'
  BY <1>2, <1>4 DEF StoresInv, WorldTables
<1>6. CASE Refuse(c) /\ UNCHANGED factor
  BY <1>2, <1>4, <1>5, <1>6, FactorsStay, GivesUp
<1>7. CASE factor' = [factor EXCEPT ![f].status = "revoked"] /\ Goto(c, "complete")
  <2>1. PICK x : x = [factor[f] EXCEPT !.status = "revoked"]
    OBVIOUS
  <2>2. factor[f] \in FactorRow /\ GoodFactor(factor[f])
    BY <1>3, StoresAre
  <2>3. x \in FactorRow /\ x.status = "revoked" /\ x.codes = factor[f].codes /\ x.type = factor[f].type
    BY <2>1, <2>2 DEF FactorRow
  <2>4. GoodFactor(x)'
    BY <1>2, <2>2, <2>3 DEF GoodFactor
  <2>5. factor' = [factor EXCEPT ![f] = x]
    BY <1>7, <2>1
  <2>6. FactorTables' /\ DOMAIN factor \subseteq DOMAIN factor'
    BY <1>2, <1>3, <1>4, <2>3, <2>4, <2>5, FactorChanges
  <2>7. req[c].at \in Carries /\ req[c].at # "assertion"
    BY <1>2 DEF Carries
  <2>8. QED
    BY <1>2, <1>4, <1>5, <1>7, <2>6, <2>7, GoesOnHolding
<1>8. QED
  BY <1>1, <1>6, <1>7 DEF RevokeRow

LEMMA AdvanceTotpStepKeeps ==
  ASSUME StoresInv, NEW c \in Clients, AdvanceTotpStep(c)
  PROVE  StoresInv' /\ (Quiet \/ PayLost(c))
<1>1. PICK f, k : f = req[c].fac /\ k = req[c].code
  OBVIOUS
<1>2. UNCHANGED <<token, otp, fails, lock, voided, sends, world, began, fresh, raced, load>> /\ req[c].at = "advance"
  BY DEF AdvanceTotpStep, redis, world, observers
<1>3. f \in DOMAIN factor /\ k \in Nat /\ fresh' \in Nat /\ fresh <= fresh'
  <2>1. req[c] \in RequestState /\ Placed(req[c])
    BY StoresAre
  <2>2. f \in DOMAIN factor /\ k \in Nat
    BY <1>1, <1>2, <2>1 DEF Placed, OnFactor, RequestState
  <2>3. QED
    BY <1>2, <2>2, FreshStays
<1>4. WorldTables' /\ req[c].at \in Reads /\ req[c].at \in OnFactor
  BY <1>2, WorldStays DEF Reads, OnFactor
<1>5. CASE Goto(c, "count") /\ UNCHANGED factor
  BY <1>2, <1>3, <1>4, <1>5, FactorsStay, GoesOnReading
<1>6. CASE factor[f].status = "active" /\ factor' = [factor EXCEPT ![f].step = k] /\ Goto(c, "consume")
  <2>1. PICK x : x = [factor[f] EXCEPT !.step = k]
    OBVIOUS
  <2>2. factor[f] \in FactorRow /\ GoodFactor(factor[f])
    BY <1>3, StoresAre
  <2>3. x \in FactorRow /\ x.status = "active" /\ x.codes = factor[f].codes /\ x.type = factor[f].type
    BY <1>3, <1>6, <2>1, <2>2 DEF FactorRow
  <2>4. GoodFactor(x)'
    BY <1>2, <1>6, <2>2, <2>3 DEF GoodFactor
  <2>5. factor' = [factor EXCEPT ![f] = x]
    BY <1>6, <2>1
  <2>6. FactorTables' /\ DOMAIN factor \subseteq DOMAIN factor'
    BY <1>2, <1>3, <2>3, <2>4, <2>5, FactorChanges
  <2>7. QED
    BY <1>2, <1>3, <1>4, <1>6, <2>6, GoesOnReading
<1>7. QED
  BY <1>1, <1>5, <1>6 DEF AdvanceTotpStep
LEMMA ActivateTotpKeeps ==
  ASSUME StoresInv, NEW c \in Clients, ActivateTotp(c)
  PROVE  StoresInv' /\ (Quiet \/ PayLost(c))
<1>1. PICK f, k : f = req[c].fac /\ k = req[c].code
  OBVIOUS
<1>2. UNCHANGED <<token, otp, fails, lock, voided, sends, world, began, fresh, raced, load>> /\ req[c].at = "activate"
  BY DEF ActivateTotp, redis, world, observers
<1>3. f \in DOMAIN factor /\ k \in Nat /\ fresh' \in Nat /\ fresh <= fresh'
  <2>1. req[c] \in RequestState /\ Placed(req[c])
    BY StoresAre
  <2>2. f \in DOMAIN factor /\ k \in Nat
    BY <1>1, <1>2, <2>1 DEF Placed, OnFactor, RequestState
  <2>3. QED
    BY <1>2, <2>2, FreshStays
<1>4. WorldTables' /\ req[c].at \in Reads /\ req[c].at \in OnFactor
  BY <1>2, WorldStays DEF Reads, OnFactor
<1>5. CASE Refuse(c) /\ UNCHANGED factor
  BY <1>2, <1>3, <1>4, <1>5, FactorsStay, GivesUp
<1>6. CASE /\ factor[f].status = "pending" /\ Goto(c, "consume")
           /\ factor' = [factor EXCEPT ![f].status = "active", ![f].step = k]
  <2>1. PICK x : x = [factor[f] EXCEPT !.status = "active", !.step = k]
    OBVIOUS
  <2>2. factor[f] \in FactorRow /\ GoodFactor(factor[f])
    BY <1>3, StoresAre
  <2>3. x \in FactorRow /\ x.status = "active" /\ x.codes = factor[f].codes /\ x.type = factor[f].type
    BY <1>3, <1>6, <2>1, <2>2 DEF FactorRow
  <2>4. GoodFactor(x)'
    BY <1>2, <1>6, <2>2, <2>3 DEF GoodFactor
  <2>5. factor' = [factor EXCEPT ![f] = x]
    BY <1>3, <1>6, <2>1
  <2>6. FactorTables' /\ DOMAIN factor \subseteq DOMAIN factor'
    BY <1>2, <1>3, <2>3, <2>4, <2>5, FactorChanges
  <2>7. QED
    BY <1>2, <1>3, <1>4, <1>6, <2>6, GoesOnReading
<1>7. QED
  BY <1>1, <1>5, <1>6 DEF ActivateTotp

LEMMA UpdatePasskeyCounterKeeps ==
  ASSUME StoresInv, NEW c \in Clients, UpdatePasskeyCounter(c)
  PROVE  StoresInv' /\ (Quiet \/ PayLost(c))
<1>1. PICK f, k : f = req[c].fac /\ k = req[c].code
  OBVIOUS
<1>2. UNCHANGED <<token, otp, fails, lock, voided, sends, world, began, fresh, raced, load>> /\ req[c].at = "counter"
  BY DEF UpdatePasskeyCounter, redis, world, observers
<1>3. f \in DOMAIN factor /\ k \in Nat /\ fresh' \in Nat /\ fresh <= fresh'
  <2>1. req[c] \in RequestState /\ Placed(req[c])
    BY StoresAre
  <2>2. f \in DOMAIN factor /\ k \in Nat
    BY <1>1, <1>2, <2>1 DEF Placed, OnFactor, RequestState
  <2>3. QED
    BY <1>2, <2>2, FreshStays
<1>4. WorldTables' /\ req[c].at \in Carries /\ req[c].at # "assertion"
  BY <1>2, WorldStays DEF Carries
<1>5. CASE Refuse(c) /\ UNCHANGED factor
  BY <1>2, <1>3, <1>4, <1>5, FactorsStay, GivesUp
<1>6. CASE factor' = [factor EXCEPT ![f].count = k] /\ Goto(c, "complete")
  <2>1. PICK x : x = [factor[f] EXCEPT !.count = k]
    OBVIOUS
  <2>2. factor[f] \in FactorRow /\ GoodFactor(factor[f])
    BY <1>3, StoresAre
  <2>3. /\ x \in FactorRow /\ x.status = factor[f].status /\ x.codes = factor[f].codes /\ x.type = factor[f].type
        /\ x.step = factor[f].step
    BY <1>3, <2>1, <2>2 DEF FactorRow
  <2>4. GoodFactor(x)'
    BY <1>2, <2>2, <2>3 DEF GoodFactor
  <2>5. factor' = [factor EXCEPT ![f] = x]
    BY <1>6, <2>1
  <2>6. FactorTables' /\ DOMAIN factor \subseteq DOMAIN factor'
    BY <1>2, <1>3, <2>3, <2>4, <2>5, FactorChanges
  <2>7. QED
    BY <1>2, <1>3, <1>4, <1>6, <2>6, GoesOnHolding
<1>7. QED
  BY <1>1, <1>5, <1>6 DEF UpdatePasskeyCounter

\* The row after a backup code was used.
CodeUsed(f, k) ==
  [factor[f] EXCEPT !.codes = factor[f].codes \ {k},
                    !.status = IF factor[f].codes \ {k} = {} THEN "revoked" ELSE factor[f].status]

LEMMA CodeUsedIs ==
  ASSUME StoresInv, NEW f \in DOMAIN factor, NEW k
  PROVE  /\ CodeUsed(f, k) \in FactorRow /\ GoodFactor(factor[f])
         /\ CodeUsed(f, k).codes = factor[f].codes \ {k}
         /\ CodeUsed(f, k).status = (IF factor[f].codes \ {k} = {} THEN "revoked" ELSE factor[f].status)
         /\ CodeUsed(f, k).type = factor[f].type /\ CodeUsed(f, k).user = factor[f].user
         /\ CodeUsed(f, k).step = factor[f].step /\ CodeUsed(f, k).count = factor[f].count
<1>1. factor[f] \in FactorRow /\ GoodFactor(factor[f])
  BY StoresAre
<1>2. factor[f].codes \ {k} \in SUBSET Nat
  BY <1>1 DEF FactorRow
<1>3. QED
  BY <1>1, <1>2 DEF CodeUsed, FactorRow

LEMMA CheckBackupCodeKeeps ==
  ASSUME StoresInv, NEW c \in Clients, CheckBackupCode(c)
  PROVE  StoresInv' /\ (Quiet \/ PayLost(c))
<1>1. PICK k : k = req[c].code
  OBVIOUS
<1>2. UNCHANGED <<token, otp, fails, lock, voided, sends, world, began, fresh, raced, load>> /\ req[c].at = "backup_codes"
  BY DEF CheckBackupCode, redis, world, observers
<1>3. fresh' \in Nat /\ fresh <= fresh'
  BY <1>2, FreshStays
<1>4. WorldTables' /\ req[c].at \in Reads
  BY <1>2, WorldStays DEF Reads
<1>5. CASE Goto(c, "void") /\ UNCHANGED factor
  BY <1>2, <1>3, <1>4, <1>5, FactorsStay, GoesOnReading
<1>6. ASSUME NEW f \in DOMAIN factor, Goto(c, "consume"), factor' = [factor EXCEPT ![f] = CodeUsed(f, k)]
      PROVE  StoresInv' /\ (Quiet \/ PayLost(c))
  <2>1. PICK x : x = CodeUsed(f, k)
    OBVIOUS
  <2>2. /\ x \in FactorRow /\ GoodFactor(factor[f]) /\ x.codes = factor[f].codes \ {k}
        /\ x.status = (IF factor[f].codes \ {k} = {} THEN "revoked" ELSE factor[f].status)
        /\ x.type = factor[f].type /\ x.step = factor[f].step
    BY <2>1, CodeUsedIs
  <2>3. GoodFactor(x)'
    BY <1>2, <2>2 DEF GoodFactor
  <2>4. FactorTables' /\ DOMAIN factor \subseteq DOMAIN factor'
    BY <1>2, <1>3, <1>6, <2>1, <2>2, <2>3, FactorChanges
  <2>5. QED
    BY <1>2, <1>3, <1>4, <1>6, <2>4, GoesOnReading
<1>7. ASSUME NEW f \in OfType(ActiveFactors(req[c].read.user), {"backup_codes"}), Goto(c, "consume"),
             factor' = [factor EXCEPT ![f].codes = factor[f].codes \ {k},
                                      ![f].status = IF factor[f].codes \ {k} = {} THEN "revoked" ELSE @]
      PROVE  StoresInv' /\ (Quiet \/ PayLost(c))
  <2>1. f \in DOMAIN factor
    BY DEF OfType, ActiveFactors
  <2>2. factor[f] \in FactorRow
    BY <2>1, StoresAre
  <2>3. factor' = [factor EXCEPT ![f] = CodeUsed(f, k)]
    BY <1>7, <2>1, <2>2 DEF CodeUsed, FactorRow
  <2>4. QED
    BY <1>6, <1>7, <2>1, <2>3
<1>8. QED
  BY <1>1, <1>5, <1>7 DEF CheckBackupCode

\* A set of backup codes that were not drawn before.
LEMMA NewCodesAre ==
  ASSUME StoresInv, NEW s, s = fresh + 1 .. fresh + BackupCount, fresh' = fresh + BackupCount
  PROVE  /\ fresh' \in Nat /\ fresh <= fresh' /\ s \in SUBSET Nat /\ s # {}
         /\ \A k \in s : k <= fresh' /\ k > fresh
<1>1. fresh \in Nat
  BY StoresAre
<1>2. BackupCount \in Nat /\ BackupCount # 0
  BY MfaAssumption
<1>3. fresh' \in Nat /\ fresh <= fresh' /\ fresh + BackupCount \in s
  BY <1>1, <1>2
<1>4. s \in SUBSET Nat /\ \A k \in s : k <= fresh' /\ k > fresh
  BY <1>1, <1>2
<1>5. QED
  BY <1>3, <1>4

LEMMA ReplaceBackupCodesKeeps ==
  ASSUME StoresInv, NEW c \in Clients, ReplaceBackupCodes(c)
  PROVE  StoresInv' /\ (Quiet \/ PayLost(c))
<1>1. UNCHANGED <<token, otp, fails, lock, voided, sends, active, linked, now, began, load>> /\ req[c].at = "new codes"
  BY DEF ReplaceBackupCodes, redis
<1>2. req[c].at \in Carries /\ req[c].at # "assertion"
  BY <1>1 DEF Carries
<1>3. CASE Goto(c, "insert codes") /\ UNCHANGED <<factor, fresh, raced>>
  <2>1. fresh' \in Nat /\ fresh <= fresh' /\ WorldTables'
    BY <1>1, <1>3, FreshStays, WorldStays DEF world
  <2>2. QED
    BY <1>1, <1>2, <1>3, <2>1, FactorsStay, GoesOnHolding
<1>4. ASSUME NEW f \in OfType(ActiveFactors(req[c].pay.user), {"backup_codes"}), Goto(c, "complete"),
             fresh' = fresh + BackupCount, raced' = raced \cup {"codes"},
             factor' = [factor EXCEPT ![f].codes = fresh + 1 .. fresh + BackupCount]
      PROVE  StoresInv' /\ (Quiet \/ PayLost(c))
  <2>1. f \in DOMAIN factor
    BY DEF OfType, ActiveFactors
  <2>2. PICK x, s : s = fresh + 1 .. fresh + BackupCount /\ x = [factor[f] EXCEPT !.codes = s]
    OBVIOUS
  <2>3. factor[f] \in FactorRow /\ GoodFactor(factor[f]) /\ fresh \in Nat
    BY <2>1, StoresAre
  <2>4. fresh' \in Nat /\ fresh <= fresh' /\ s \in SUBSET Nat /\ s # {} /\ \A k \in s : k <= fresh'
    BY <1>4, <2>2, NewCodesAre
  <2>5. x \in FactorRow /\ x.status = factor[f].status /\ x.codes = s /\ x.type = factor[f].type /\ x.step = factor[f].step
    BY <2>2, <2>3, <2>4 DEF FactorRow
  <2>6. GoodFactor(x)'
    BY <2>3, <2>4, <2>5 DEF GoodFactor
  <2>7. factor' = [factor EXCEPT ![f] = x]
    BY <1>4, <2>2
  <2>8. FactorTables' /\ DOMAIN factor \subseteq DOMAIN factor'
    BY <1>1, <2>1, <2>4, <2>5, <2>6, <2>7, FactorChanges
  <2>9. WorldTables'
    BY <1>1, <1>4, <2>4 DEF StoresInv, WorldTables
  <2>10. QED
    BY <1>1, <1>2, <1>4, <2>4, <2>8, <2>9, GoesOnHolding
<1>5. QED
  BY <1>3, <1>4 DEF ReplaceBackupCodes
LEMMA SupersedeIs ==
  ASSUME StoresInv, NEW u, factor' = Supersede(u), UNCHANGED <<fails, lock, load, fresh>>
  PROVE  /\ FactorTables' /\ DOMAIN factor' = DOMAIN factor
         /\ \A f \in DOMAIN factor : /\ f \in PendingTotp(u) => factor'[f] = [factor[f] EXCEPT !.status = "revoked"]
                                     /\ f \notin PendingTotp(u) => factor'[f] = factor[f]
<1>1. /\ factor' = [f \in DOMAIN factor |-> factor'[f]]
      /\ \A f \in DOMAIN factor : /\ f \in PendingTotp(u) => factor'[f] = [factor[f] EXCEPT !.status = "revoked"]
                                  /\ f \notin PendingTotp(u) => factor'[f] = factor[f]
  BY DEF Supersede
<1>2. ASSUME NEW f \in DOMAIN factor PROVE factor'[f] \in FactorRow /\ GoodFactor(factor[f])'
  <2>1. factor[f] \in FactorRow /\ GoodFactor(factor[f])
    BY StoresAre
  <2>2. CASE f \in PendingTotp(u)
    <3>1. PICK x : x = [factor[f] EXCEPT !.status = "revoked"]
      OBVIOUS
    <3>2. x \in FactorRow /\ x.status = "revoked" /\ x.codes = factor[f].codes /\ factor'[f] = x
      BY <1>1, <2>1, <2>2, <3>1 DEF FactorRow
    <3>3. QED
      BY <2>1, <3>2 DEF GoodFactor
  <2>3. CASE f \notin PendingTotp(u)
    <3>1. factor'[f] = factor[f]
      BY <1>1, <2>3
    <3>2. QED
      BY <2>1, <3>1 DEF GoodFactor
  <2>4. QED
    BY <2>2, <2>3
<1>3. factor \in Seq(FactorRow)
  BY DEF StoresInv, FactorTables
<1>4. factor' \in Seq(FactorRow) /\ Len(factor') = Len(factor) /\ DOMAIN factor' = DOMAIN factor
  BY <1>1, <1>2, <1>3, SameLength
<1>5. QED
  BY <1>1, <1>2, <1>4 DEF StoresInv, FactorTables

LEMMA SelectPendingKeeps ==
  ASSUME StoresInv, NEW c \in Clients, SelectPending(c)
  PROVE  StoresInv' /\ (Quiet \/ PayLost(c))
<1>1. /\ UNCHANGED <<token, otp, fails, lock, voided, sends, world, began, fresh, raced, load>>
      /\ req[c].at = "pending row" /\ factor' = Supersede(req[c].pay.user) /\ Goto(c, "insert totp")
  BY DEF SelectPending, redis, world, observers
<1>2. fresh' \in Nat /\ fresh <= fresh' /\ WorldTables'
  BY <1>1, FreshStays, WorldStays
<1>3. FactorTables' /\ DOMAIN factor' = DOMAIN factor
  BY <1>1, SupersedeIs
<1>4. TokenTables'
  BY <1>1, <1>2, <1>3, TokensStay
<1>5. Grows /\ SameTokens({})
  BY <1>1, <1>3, TokensSame DEF Grows
<1>6. PICK r : r = [req[c] EXCEPT !.at = "insert totp"]
  OBVIOUS
<1>7. req[c] \in RequestState /\ Placed(req[c]) /\ "insert totp" \in Labels
  BY StoresAre, LabelsAre
<1>8. r \in RequestState /\ r.at = "insert totp" /\ r.pay = req[c].pay /\ r.kind = req[c].kind /\ r.new = req[c].new
  BY <1>6, <1>7 DEF RequestState
<1>9. Placed(r) /\ req[c].pay # None
  BY <1>1, <1>7, <1>8 DEF Placed, Reads, Carries, Sends, Taking, OnFactor
<1>10. Placed(r)' /\ Step(c, r)
  BY <1>1, <1>5, <1>6, <1>9, StaysPlaced DEF Goto
<1>11. QED
  BY <1>2, <1>3, <1>4, <1>5, <1>8, <1>9, <1>10, Moved

\* A row is inserted.
LEMMA FactorComes ==
  ASSUME StoresInv, NEW u \in Users, NEW type \in Strong \cup {"backup_codes"}, NEW status \in {"pending", "active"},
         NEW s \in SUBSET Nat, AddFactor(u, type, status, s), load' = load, fresh' \in Nat, fresh <= fresh',
         status = "pending" => type = "totp", type = "backup_codes" => s # {}, \A k \in s : k <= fresh'
  PROVE  /\ FactorTables' /\ DOMAIN factor' = DOMAIN factor \cup {Len(factor) + 1} /\ Len(factor) + 1 \in Nat
         /\ Len(factor) + 1 \notin DOMAIN factor /\ \A g \in DOMAIN factor : factor'[g] = factor[g]
         /\ factor'[Len(factor) + 1] = [user |-> u, type |-> type, status |-> status, step |-> 0, codes |-> s, count |-> 0]
<1>1. PICK x, n : /\ x = [user |-> u, type |-> type, status |-> status, step |-> 0, codes |-> s, count |-> 0]
                  /\ n = Len(factor) + 1
  OBVIOUS
<1>2. factor \in Seq(FactorRow) /\ fails \in Seq(Nat) /\ Len(fails) = Len(factor)
  BY DEF StoresInv, FactorTables
<1>3. x \in FactorRow /\ x.status = status /\ x.step = 0 /\ x.type = type /\ x.codes = s
  BY <1>1 DEF FactorRow
<1>4. factor' = Append(factor, x) /\ fails' = Append(fails, 0) /\ lock' = Append(lock, "open")
  BY <1>1 DEF AddFactor
<1>5. /\ factor' \in Seq(FactorRow) /\ Len(factor') = Len(factor) + 1 /\ DOMAIN factor' = DOMAIN factor \cup {n}
      /\ factor'[n] = x /\ n \notin DOMAIN factor /\ \A g \in DOMAIN factor : factor'[g] = factor[g]
  BY <1>1, <1>2, <1>3, <1>4, OneMore
<1>6. fails' \in Seq(Nat) /\ Len(fails') = Len(fails) + 1
  BY <1>2, <1>4
<1>7. lock' \in Seq({"open", "locked", "fading"}) /\ Len(lock') = Len(lock) + 1 /\ Len(lock) = Len(factor)
  <2>1. lock \in Seq({"open", "locked", "fading"}) /\ Len(lock) = Len(factor)
    BY DEF StoresInv, FactorTables
  <2>2. QED
    BY <1>4, <2>1
<1>8. ASSUME NEW g \in DOMAIN factor' PROVE GoodFactor(factor[g])'
  <2>1. CASE g = n
    BY <1>3, <1>5, <2>1 DEF GoodFactor
  <2>2. CASE g \in DOMAIN factor
    <3>1. factor'[g] = factor[g] /\ GoodFactor(factor[g]) /\ factor[g] \in FactorRow /\ fresh \in Nat
      BY <1>5, <2>2, StoresAre
    <3>2. \A k \in factor[g].codes : k \in Nat
      BY <3>1 DEF FactorRow
    <3>3. \A k \in factor[g].codes : k <= fresh'
      BY <3>1, <3>2 DEF GoodFactor
    <3>4. QED
      BY <3>1, <3>3 DEF GoodFactor
  <2>3. QED
    BY <1>5, <2>1, <2>2
<1>9. Len(load.enrolled) <= Len(factor') /\ n \in Nat
  <2>1. Len(load.enrolled) <= Len(factor) /\ load \in Workloads /\ Len(factor) \in Nat
    BY <1>2 DEF StoresInv, FactorTables
  <2>2. Len(load.enrolled) \in Nat
    BY <2>1, MfaAssumption
  <2>3. QED
    BY <1>1, <1>5, <2>1, <2>2
<1>10. FactorTables'
  BY <1>2, <1>5, <1>6, <1>7, <1>8, <1>9 DEF StoresInv, FactorTables
<1>11. QED
  BY <1>1, <1>5, <1>9, <1>10

LEMMA InsertPendingKeeps ==
  ASSUME StoresInv, NEW c \in Clients, InsertPending(c)
  PROVE  StoresInv' /\ (Quiet \/ PayLost(c))
<1>1. PICK n : n = Len(factor) + 1
  OBVIOUS
<1>2. /\ UNCHANGED <<token, otp, voided, sends, world, began, fresh, raced, load>>
      /\ req[c].at = "insert totp" /\ AddFactor(req[c].pay.user, "totp", "pending", {})
      /\ Step(c, [req[c] EXCEPT !.at = "store", !.fac = n])
  BY <1>1 DEF InsertPending, world, observers
<1>3. req[c] \in RequestState /\ Placed(req[c]) /\ "store" \in Labels
  BY StoresAre, LabelsAre
<1>4. /\ req[c].pay # None /\ req[c].pay.user \in Users /\ req[c].pay.login \in DOMAIN began
      /\ req[c].kind = "enroll" /\ req[c].new = 0
  BY <1>2, <1>3 DEF Placed, Carries
<1>5. fresh' \in Nat /\ fresh <= fresh' /\ WorldTables'
  BY <1>2, FreshStays, WorldStays
<1>6. "totp" \in Strong \cup {"backup_codes"} /\ {} \in SUBSET Nat
  BY DEF Strong
<1>7. /\ FactorTables' /\ DOMAIN factor' = DOMAIN factor \cup {n} /\ n \in Nat
  BY <1>1, <1>2, <1>4, <1>5, <1>6, FactorComes
<1>8. TokenTables'
  BY <1>2, <1>5, <1>7, TokensStay
<1>9. Grows /\ SameTokens({})
  BY <1>2, <1>7, TokensSame DEF Grows
<1>10. PICK r : r = [req[c] EXCEPT !.at = "store", !.fac = n]
  OBVIOUS
<1>11. /\ r \in RequestState /\ r.at = "store" /\ r.pay = req[c].pay /\ r.kind = req[c].kind /\ r.new = req[c].new
       /\ r.fac = n
  BY <1>3, <1>7, <1>10 DEF RequestState
<1>12. Placed(r)'
  BY <1>2, <1>4, <1>7, <1>11 DEF Placed, Reads, Carries, Sends, Taking, OnFactor
<1>13. Step(c, r)
  BY <1>2, <1>10
<1>14. QED
  BY <1>4, <1>5, <1>7, <1>8, <1>9, <1>11, <1>12, <1>13, Moved

LEMMA CreatePasskeyKeeps ==
  ASSUME StoresInv, NEW c \in Clients, CreatePasskey(c)
  PROVE  StoresInv' /\ (Quiet \/ PayLost(c))
<1>1. /\ UNCHANGED <<token, otp, voided, sends, world, began, fresh, raced, load>>
      /\ req[c].at = "attestation" /\ AddFactor(req[c].pay.user, "passkey", "active", {}) /\ Goto(c, "codes")
  BY DEF CreatePasskey, world, observers
<1>2. req[c].pay.user \in Users /\ req[c].at \in Carries /\ req[c].at # "assertion"
  BY <1>1, StoresAre DEF Placed, Carries
<1>3. fresh' \in Nat /\ fresh <= fresh' /\ WorldTables'
  BY <1>1, FreshStays, WorldStays
<1>4. "passkey" \in Strong \cup {"backup_codes"} /\ {} \in SUBSET Nat
  BY DEF Strong
<1>5. FactorTables' /\ DOMAIN factor' = DOMAIN factor \cup {Len(factor) + 1}
  BY <1>1, <1>2, <1>3, <1>4, FactorComes
<1>6. QED
  BY <1>1, <1>2, <1>3, <1>5, GoesOnHolding

LEMMA InsertBackupCodesKeeps ==
  ASSUME StoresInv, NEW c \in Clients, InsertBackupCodes(c)
  PROVE  StoresInv' /\ (Quiet \/ PayLost(c))
<1>1. PICK s : s = fresh + 1 .. fresh + BackupCount
  OBVIOUS
<1>2. /\ UNCHANGED <<token, otp, voided, sends, active, linked, now, began, load>>
      /\ req[c].at = "insert codes" /\ AddFactor(req[c].pay.user, "backup_codes", "active", s) /\ Goto(c, "complete")
      /\ fresh' = fresh + BackupCount /\ raced' \in {raced, raced \cup {"codes"}}
  BY <1>1 DEF InsertBackupCodes
<1>3. req[c].pay.user \in Users /\ req[c].at \in Carries /\ req[c].at # "assertion"
  BY <1>2, StoresAre DEF Placed, Carries
<1>4. fresh' \in Nat /\ fresh <= fresh' /\ s \in SUBSET Nat /\ s # {} /\ \A k \in s : k <= fresh'
  BY <1>1, <1>2, NewCodesAre
<1>5. raced' \subseteq {"factors", "codes"}
  BY <1>2 DEF StoresInv, WorldTables
<1>6. WorldTables'
  BY <1>2, <1>4, <1>5 DEF StoresInv, WorldTables
<1>7. FactorTables' /\ DOMAIN factor' = DOMAIN factor \cup {Len(factor) + 1}
  <2>1. "backup_codes" \in Strong \cup {"backup_codes"}
    OBVIOUS
  <2>2. QED
    BY <1>2, <1>3, <1>4, <2>1, FactorComes
<1>8. QED
  BY <1>2, <1>3, <1>4, <1>6, <1>7, GoesOnHolding

\* Counters and locks of a factor.
LEMMA CountsStay ==
  ASSUME StoresInv, UNCHANGED <<factor, load, fresh>>, NEW f \in DOMAIN factor, NEW n \in Nat,
         NEW l \in {"open", "locked", "fading"},
         fails' = fails \/ fails' = [fails EXCEPT ![f] = n],
         lock' = lock \/ lock' = [lock EXCEPT ![f] = l]
  PROVE  FactorTables' /\ fresh' \in Nat /\ fresh <= fresh' /\ DOMAIN factor \subseteq DOMAIN factor'
<1>1. fails \in Seq(Nat) /\ Len(fails) = Len(factor) /\ f \in DOMAIN fails /\ f \in DOMAIN lock
  BY StoresAre DEF StoresInv, FactorTables
<1>2. lock \in Seq({"open", "locked", "fading"}) /\ Len(lock) = Len(factor)
  BY DEF StoresInv, FactorTables
<1>3. fails' \in Seq(Nat) /\ Len(fails') = Len(fails)
  BY <1>1, OneEntry
<1>4. lock' \in Seq({"open", "locked", "fading"}) /\ Len(lock') = Len(lock)
  BY <1>1, <1>2, OneEntry
<1>5. ASSUME NEW g \in DOMAIN factor PROVE GoodFactor(factor[g])'
  BY StoresAre DEF GoodFactor
<1>6. FactorTables'
  BY <1>1, <1>2, <1>3, <1>4, <1>5 DEF StoresInv, FactorTables
<1>7. QED
  BY <1>6, FreshStays

LEMMA CountFactorFailureKeeps ==
  ASSUME StoresInv, NEW c \in Clients, CountFactorFailure(c)
  PROVE  StoresInv' /\ (Quiet \/ PayLost(c))
<1>1. PICK f : f = req[c].fac
  OBVIOUS
<1>2. /\ UNCHANGED <<factor, token, otp, lock, voided, sends, world, began, fresh, raced, load>>
      /\ req[c].at = "count" /\ fails' = [fails EXCEPT ![f] = fails[f] + 1]
  BY <1>1 DEF CountFactorFailure, world, observers
<1>3. f \in DOMAIN factor /\ fails[f] + 1 \in Nat /\ req[c].at \in Reads /\ req[c].at \in OnFactor
  <2>1. f \in DOMAIN factor /\ req[c].at \in Reads /\ req[c].at \in OnFactor
    BY <1>1, <1>2, StoresAre DEF Placed, OnFactor, Reads
  <2>2. fails[f] \in Nat
    BY <2>1, StoresAre
  <2>3. QED
    BY <2>1, <2>2
<1>4. FactorTables' /\ fresh' \in Nat /\ fresh <= fresh' /\ DOMAIN factor \subseteq DOMAIN factor'
  BY <1>2, <1>3, CountsStay
<1>5. WorldTables'
  BY <1>2, WorldStays
<1>6. CASE Refuse(c)
  BY <1>2, <1>4, <1>5, <1>6, GivesUp
<1>7. CASE Goto(c, "lock")
  BY <1>2, <1>3, <1>4, <1>5, <1>7, GoesOnReading
<1>8. QED
  BY <1>6, <1>7 DEF CountFactorFailure

LEMMA LockFactorKeeps ==
  ASSUME StoresInv, NEW c \in Clients, LockFactor(c)
  PROVE  StoresInv' /\ (Quiet \/ PayLost(c))
<1>1. PICK f, l : f = req[c].fac /\ l = (IF fails[f] = 0 THEN "fading" ELSE "locked")
  OBVIOUS
<1>2. /\ UNCHANGED <<factor, token, otp, fails, voided, sends, world, began, fresh, raced, load>>
      /\ req[c].at = "lock" /\ lock' = [lock EXCEPT ![f] = l] /\ Refuse(c)
  BY <1>1 DEF LockFactor, world, observers
<1>3. f \in DOMAIN factor /\ 0 \in Nat /\ l \in {"open", "locked", "fading"}
  BY <1>1, <1>2, StoresAre DEF Placed, OnFactor
<1>4. FactorTables' /\ fresh' \in Nat /\ fresh <= fresh' /\ DOMAIN factor \subseteq DOMAIN factor'
  BY <1>2, <1>3, CountsStay
<1>5. WorldTables'
  BY <1>2, WorldStays
<1>6. QED
  BY <1>2, <1>4, <1>5, GivesUp

LEMMA ExpireFactorCounterKeeps ==
  ASSUME StoresInv, NEW f \in DOMAIN factor, ExpireFactorCounter(f)
  PROVE  StoresInv' /\ Quiet
<1>1. PICK l : l = (IF lock[f] = "locked" THEN "fading" ELSE lock[f])
  OBVIOUS
<1>2. /\ UNCHANGED <<factor, token, otp, voided, sends, world, began, fresh, req, raced, load>>
      /\ fails' = [fails EXCEPT ![f] = 0] /\ lock' = [lock EXCEPT ![f] = l]
  BY <1>1 DEF ExpireFactorCounter, world, observers
<1>3. l \in {"open", "locked", "fading"}
  BY <1>1, StoresAre
<1>4. FactorTables' /\ fresh' \in Nat /\ fresh <= fresh' /\ DOMAIN factor \subseteq DOMAIN factor'
  BY <1>2, <1>3, CountsStay
<1>5. WorldTables' /\ TokenTables'
  BY <1>2, <1>4, WorldStays, TokensStay
<1>6. Grows /\ SameTokens({})
  BY <1>2, TokensSame DEF Grows
<1>7. QED
  BY <1>2, <1>4, <1>5, <1>6, Rests

LEMMA ExpireLockKeeps ==
  ASSUME StoresInv, NEW f \in DOMAIN factor, ExpireLock(f)
  PROVE  StoresInv' /\ Quiet
<1>1. /\ UNCHANGED <<factor, token, otp, fails, voided, sends, world, began, fresh, req, raced, load>>
      /\ lock' = [lock EXCEPT ![f] = "open"]
  BY DEF ExpireLock, world, observers
<1>2. FactorTables' /\ fresh' \in Nat /\ fresh <= fresh' /\ DOMAIN factor \subseteq DOMAIN factor'
  <2>1. 0 \in Nat /\ "open" \in {"open", "locked", "fading"}
    OBVIOUS
  <2>2. QED
    BY <1>1, <2>1, CountsStay
<1>3. WorldTables' /\ TokenTables'
  BY <1>1, <1>2, WorldStays, TokensStay
<1>4. Grows /\ SameTokens({})
  BY <1>1, TokensSame DEF Grows
<1>5. QED
  BY <1>1, <1>2, <1>3, <1>4, Rests
-----------------------------------------------------------------------------
(***************************************************************************)
(* StoresInv is inductive.                                                 *)
(***************************************************************************)
LEMMA StoresClientStep ==
  ASSUME StoresInv, NEW c \in Clients, ClientStep(c)
  PROVE  StoresInv'
<1>1. CASE TakeWorkflow(c)
  BY <1>1, TakeWorkflowKeeps
<1>2. CASE RevokeRow(c)
  BY <1>2, RevokeRowKeeps
<1>3. CASE StoreOtp(c)
  BY <1>3, StoreOtpKeeps
<1>4. CASE Deliver(c)
  BY <1>4, DeliverKeeps
<1>5. CASE DeliveryFails(c)
  BY <1>5, DeliveryFailsKeeps
<1>6. CASE StoreChallenge(c)
  BY <1>6, StoreChallengeKeeps
<1>7. CASE CompareTotp(c)
  BY <1>7, CompareTotpKeeps
<1>8. CASE AdvanceTotpStep(c)
  BY <1>8, AdvanceTotpStepKeeps
<1>9. CASE CheckOtp(c)
  BY <1>9, CheckOtpKeeps
<1>10. CASE CheckBackupCode(c)
  BY <1>10, CheckBackupCodeKeeps
<1>11. CASE CountFactorFailure(c)
  BY <1>11, CountFactorFailureKeeps
<1>12. CASE LockFactor(c)
  BY <1>12, LockFactorKeeps
<1>13. CASE CountChallengeFailure(c)
  BY <1>13, CountChallengeFailureKeeps
<1>14. CASE DeleteChallenge(c)
  BY <1>14, DeleteChallengeKeeps
<1>15. CASE TakeChallenge(c)
  BY <1>15, TakeChallengeKeeps
<1>16. CASE Complete(c)
  BY <1>16, CompleteKeeps
<1>17. CASE SelectPending(c)
  BY <1>17, SelectPendingKeeps
<1>18. CASE InsertPending(c)
  BY <1>18, InsertPendingKeeps
<1>19. CASE ActivateTotp(c)
  BY <1>19, ActivateTotpKeeps
<1>20. CASE EnsureBackupCodes(c)
  BY <1>20, EnsureBackupCodesKeeps
<1>21. CASE ReplaceBackupCodes(c)
  BY <1>21, ReplaceBackupCodesKeeps
<1>22. CASE InsertBackupCodes(c)
  BY <1>22, InsertBackupCodesKeeps
<1>23. CASE CreatePasskey(c)
  BY <1>23, CreatePasskeyKeeps
<1>24. CASE CheckAssertion(c)
  BY <1>24, CheckAssertionKeeps
<1>25. CASE UpdatePasskeyCounter(c)
  BY <1>25, UpdatePasskeyCounterKeeps
<1>26. CASE Stop(c)
  BY <1>26, StopKeeps
<1>27. CASE PasskeyPrimaryOptions(c)
  BY <1>27, PasskeyPrimaryOptionsKeeps
<1>28. ASSUME NEW t \in DOMAIN token, NEW m \in VerifyMethods, IssueChallenge(c, t, m) PROVE StoresInv'
  BY <1>28, IssueChallengeKeeps
<1>29. ASSUME NEW t \in DOMAIN token, SetupTotp(c, t) PROVE StoresInv'
  BY <1>29, SetupTotpKeeps
<1>30. ASSUME NEW t \in DOMAIN token, PasskeyRegistrationOptions(c, t) PROVE StoresInv'
  BY <1>30, PasskeyRegistrationOptionsKeeps
<1>31. ASSUME NEW t \in DOMAIN token, PasskeyAuthenticationOptions(c, t) PROVE StoresInv'
  BY <1>31, PasskeyAuthenticationOptionsKeeps
<1>32. ASSUME NEW t \in DOMAIN token, ProveCollisionPassword(c, t) PROVE StoresInv'
  BY <1>32, ProveCollisionPasswordKeeps
<1>33. ASSUME NEW t \in DOMAIN token, ResendChallenge(c, t) PROVE StoresInv'
  BY <1>33, ResendChallengeKeeps
<1>34. ASSUME NEW t \in DOMAIN token, ConfirmPasskeyRegistration(c, t) PROVE StoresInv'
  BY <1>34, ConfirmPasskeyRegistrationKeeps
<1>35. ASSUME NEW t \in DOMAIN token, NEW f \in DOMAIN factor, RevokeFactor(c, t, f) PROVE StoresInv'
  BY <1>35, RevokeFactorKeeps
<1>36. ASSUME NEW t \in DOMAIN token, NEW f \in OfType(DOMAIN factor, {"passkey"}), NEW k \in 0..MaxCount,
             VerifyPasskey(c, t, f, k)
      PROVE  StoresInv'
  BY <1>36, VerifyPasskeyKeeps DEF OfType
<1>37. ASSUME NEW t \in DOMAIN token, NEW code \in Codes(t), VerifyChallenge(c, t, code) PROVE StoresInv'
  BY <1>37, CodesAre, VerifyChallengeKeeps
<1>38. ASSUME NEW t \in DOMAIN token, NEW code \in {0, now, now + 1}, ConfirmTotp(c, t, code) PROVE StoresInv'
  <2>1. code \in Nat
    BY StoresAre
  <2>2. QED
    BY <1>38, <2>1, ConfirmTotpKeeps
<1>39. ASSUME NEW t \in DOMAIN token,
             IssueChallenge(c, t, "totp") \/ IssueChallenge(c, t, "otp") \/ IssueChallenge(c, t, "backup_codes")
      PROVE  StoresInv'
  BY <1>28, <1>39 DEF VerifyMethods
<1>40. QED
  BY <1>1, <1>2, <1>3, <1>4, <1>5, <1>6, <1>7, <1>8, <1>9, <1>10, <1>11, <1>12, <1>13, <1>14, <1>15, <1>16, <1>17, <1>18, <1>19, <1>20, <1>21, <1>22, <1>23, <1>24, <1>25, <1>26, <1>27, <1>29, <1>30, <1>31, <1>32, <1>33, <1>34, <1>35, <1>36, <1>37, <1>38, <1>39 DEF ClientStep

LEMMA StoresStep ==
  ASSUME StoresInv, [MfaNext]_vars
  PROVE  StoresInv'
<1>1. ASSUME NEW c \in Clients, ClientStep(c) PROVE StoresInv'
  BY <1>1, StoresClientStep
<1>2. ASSUME NEW u \in Users, PrimaryLogin(u, "session_ready", None) PROVE StoresInv'
  BY <1>2, PrimaryLoginKeeps
<1>3. ASSUME NEW u \in Users, NEW s \in Subjects \cup {None}, PrimaryLogin(u, "mfa_required", s) PROVE StoresInv'
  BY <1>3, PrimaryLoginKeeps
<1>4. ASSUME NEW u \in Users, ExpireUserCounters(u) PROVE StoresInv'
  BY <1>4, ExpireUserCountersKeeps
<1>5. ASSUME NEW u \in Users, Deactivate(u) PROVE StoresInv'
  BY <1>5, DeactivateKeeps
<1>6. ASSUME NEW t \in DOMAIN token, CreateSession(t) PROVE StoresInv'
  BY <1>6, CreateSessionKeeps
<1>7. ASSUME NEW t \in DOMAIN token, ExpireToken(t) PROVE StoresInv'
  BY <1>7, ExpireTokenKeeps
<1>8. ASSUME NEW t \in DOMAIN token, ExpireOtp(t) PROVE StoresInv'
  BY <1>8, ExpireOtpKeeps
<1>9. ASSUME NEW f \in DOMAIN factor, ExpireFactorCounter(f) PROVE StoresInv'
  BY <1>9, ExpireFactorCounterKeeps
<1>10. ASSUME NEW f \in DOMAIN factor, ExpireLock(f) PROVE StoresInv'
  BY <1>10, ExpireLockKeeps
<1>11. CASE NextTotpStep
  BY <1>11, NextTotpStepKeeps
<1>12. CASE UNCHANGED vars
  <2>1. UNCHANGED <<factor, token, redis, world, raced, load, req>>
    BY <1>12 DEF vars, observers
  <2>2. QED
    BY <2>1, NothingMoves
<1>13. QED
  BY <1>1, <1>2, <1>3, <1>4, <1>5, <1>6, <1>7, <1>8, <1>9, <1>10, <1>11, <1>12 DEF MfaNext

LEMMA StoresStart ==
  ASSUME MfaInit
  PROVE  StoresInv
<1>1. load \in Workloads /\ load.enrolled \in Seq(Users \X {"totp", "passkey", "backup_codes"})
  BY MfaAssumption DEF MfaInit
<1>2. PICK n \in Nat : n = Len(load.enrolled) /\ DOMAIN load.enrolled = 1..n
  BY <1>1
<1>3. BackupCount \in Nat /\ BackupCount # 0 /\ MaxLogins \in Nat
  BY MfaAssumption
<1>4. fresh = BackupCount /\ now = 2 /\ factor = [f \in 1..n |-> factor[f]]
  BY <1>2 DEF MfaInit
<1>5. ASSUME NEW f \in 1..n PROVE factor[f] \in FactorRow /\ GoodFactor(factor[f])
  <2>1. PICK u, t : u = load.enrolled[f][1] /\ t = load.enrolled[f][2]
    OBVIOUS
  <2>2. u \in Users /\ t \in Strong \cup {"backup_codes"}
    BY <1>1, <1>2, <2>1 DEF Strong
  <2>3. PICK s : s = IF t = "backup_codes" THEN 1..BackupCount ELSE {}
    OBVIOUS
  <2>4. s \in SUBSET Nat /\ (t = "backup_codes" => s # {}) /\ \A k \in s : k <= fresh
    BY <1>3, <1>4, <2>3
  <2>5. factor[f] = [user |-> u, type |-> t, status |-> "active", step |-> 0, codes |-> s, count |-> 0]
    BY <1>2, <2>1, <2>3 DEF MfaInit
  <2>6. QED
    BY <2>2, <2>4, <2>5 DEF FactorRow, GoodFactor
<1>6. factor \in Seq(FactorRow) /\ Len(factor) = n /\ DOMAIN factor = 1..n
  BY <1>4, <1>5
<1>7. fails \in Seq(Nat) /\ Len(fails) = n
  BY <1>2, <1>6 DEF MfaInit
<1>8. lock \in Seq({"open", "locked", "fading"}) /\ Len(lock) = n
  BY <1>2, <1>6 DEF MfaInit
<1>9. FactorTables
  BY <1>1, <1>2, <1>5, <1>6, <1>7, <1>8 DEF FactorTables
<1>10. TokenTables
  BY DEF MfaInit, TokenTables
<1>11. WorldTables
  BY <1>3, <1>4 DEF MfaInit, WorldTables
<1>12. Requests
  BY IdleIs DEF MfaInit, Requests
<1>13. Exclusive
  BY IdleIs DEF MfaInit, Exclusive
<1>14. QED
  BY <1>9, <1>10, <1>11, <1>12, <1>13 DEF StoresInv

LEMMA StoresAreTyped ==
  ASSUME StoresInv
  PROVE  MfaTypeOK
<1>1. factor \in Seq(FactorRow) /\ token \in Seq(TokenRow)
  BY DEF StoresInv, FactorTables, TokenTables
<1>2. DOMAIN fails = DOMAIN factor /\ DOMAIN lock = DOMAIN factor /\ DOMAIN otp = DOMAIN token
  BY StoresAre
<1>3. \A f \in DOMAIN factor : factor[f].type = "backup_codes" /\ factor[f].status = "active"
                                 => factor[f].codes # {}
  BY StoresAre DEF GoodFactor
<1>4. \A t \in DOMAIN token : otp[t].attempts < OtpAttempts
  <2>1. ASSUME NEW t \in DOMAIN token PROVE otp[t].attempts \in 0..(OtpAttempts - 1)
    BY StoresAre DEF OtpRow
  <2>2. OtpAttempts \in Nat
    BY MfaAssumption
  <2>3. QED
    BY <2>1, <2>2
<1>5. \A c \in Clients : req[c].pay = None \/ req[c].pay \in Payload
  BY StoresAre DEF RequestState
<1>6. /\ \A i \in linked : i \in Subjects \X Users \X Nat
      /\ active \subseteq Users /\ raced \subseteq {"factors", "codes"}
  BY DEF StoresInv, WorldTables
<1>7. QED
  BY <1>1, <1>2, <1>3, <1>4, <1>5, <1>6 DEF MfaTypeOK

\* The tables agree, every row and every request holds what it may hold, and a login is in
\* one place: a stored token or the request that took it with GETDEL.
THEOREM LoginsAreInOnePlace == MfaSpec => []StoresInv
<1>1. MfaInit => StoresInv
  BY StoresStart
<1>2. StoresInv /\ [MfaNext]_vars => StoresInv'
  BY StoresStep
<1>3. QED
  BY <1>1, <1>2, PTL DEF MfaSpec

\* Every field holds a value its column or key can hold, for tables and requests of any size.
THEOREM MfaTypeCorrect == MfaSpec => []MfaTypeOK
<1>1. StoresInv => MfaTypeOK
  BY StoresAreTyped
<1>2. QED
  BY <1>1, LoginsAreInOnePlace, PTL
-----------------------------------------------------------------------------
(***************************************************************************)
(* Rows of factors never run backwards.                                    *)
(***************************************************************************)
\* What any step may do to a row.
RowKept(x, y) ==
  /\ y.user = x.user /\ y.type = x.type /\ y.step >= x.step /\ y.count >= x.count
  /\ x.status = "revoked" => y.status = "revoked" /\ y.step = x.step /\ y.codes = x.codes
  /\ x.status = "active" => y.status \in {"active", "revoked"}
StatusKept == DOMAIN factor' = DOMAIN factor /\ \A f \in DOMAIN factor : factor'[f].status = factor[f].status
RowsKept == DOMAIN factor \subseteq DOMAIN factor' /\ \A f \in DOMAIN factor : RowKept(factor[f], factor'[f])

\* The steps that write them.
Writes(c) ==
  \/ RevokeRow(c) \/ AdvanceTotpStep(c) \/ CheckBackupCode(c) \/ SelectPending(c) \/ InsertPending(c)
  \/ ActivateTotp(c) \/ ReplaceBackupCodes(c) \/ InsertBackupCodes(c) \/ CreatePasskey(c)
  \/ UpdatePasskeyCounter(c)

LEMMA SameRow ==
  ASSUME StoresInv, NEW f \in DOMAIN factor
  PROVE  RowKept(factor[f], factor[f])
<1>1. factor[f] \in FactorRow
  BY StoresAre
<1>2. factor[f].step \in Nat /\ factor[f].count \in Nat /\ factor[f].status \in {"pending", "active", "revoked"}
  BY <1>1 DEF FactorRow
<1>3. QED
  BY <1>2 DEF RowKept

LEMMA SameRows ==
  ASSUME StoresInv, factor' = factor
  PROVE  RowsKept /\ StatusKept
BY SameRow DEF RowsKept, StatusKept

LEMMA OneRowKept ==
  ASSUME StoresInv, NEW f \in DOMAIN factor, NEW x, factor' = [factor EXCEPT ![f] = x], RowKept(factor[f], x)
  PROVE  /\ RowsKept /\ (x.status = factor[f].status => StatusKept)
         /\ DOMAIN factor' = DOMAIN factor /\ factor'[f] = x /\ \A g \in DOMAIN factor : g # f => factor'[g] = factor[g]
<1>1. DOMAIN factor' = DOMAIN factor /\ factor'[f] = x /\ \A g \in DOMAIN factor : g # f => factor'[g] = factor[g]
  OBVIOUS
<1>2. QED
  BY <1>1, SameRow DEF RowsKept, StatusKept

\* A row that a request is at, and its fields.
LEMMA RowAt ==
  ASSUME StoresInv, NEW c \in Clients, req[c].at \in OnFactor, NEW f, f = req[c].fac
  PROVE  /\ f \in DOMAIN factor /\ factor[f] \in FactorRow /\ GoodFactor(factor[f])
         /\ factor[f].step \in Nat /\ factor[f].count \in Nat /\ req[c].code \in Nat /\ req[c].seen \in Nat
<1>1. req[c] \in RequestState /\ Placed(req[c])
  BY StoresAre
<1>2. f \in DOMAIN factor /\ req[c].code \in Nat /\ req[c].seen \in Nat
  BY <1>1 DEF Placed, RequestState
<1>3. factor[f] \in FactorRow /\ GoodFactor(factor[f])
  BY <1>2, StoresAre
<1>4. QED
  BY <1>2, <1>3 DEF FactorRow

\* What each of them writes.
LEMMA RevokeRowWrites ==
  ASSUME StoresInv, NEW c \in Clients, RevokeRow(c), NEW f, f = req[c].fac
  PROVE  \/ Refuse(c) /\ UNCHANGED <<factor, raced>>
         \/ /\ f \in DOMAIN factor /\ factor[f].status = "active" /\ RowKept(factor[f], factor'[f])
            /\ factor'[f].status = "revoked" /\ Goto(c, "complete")
            /\ DOMAIN factor' = DOMAIN factor /\ \A g \in DOMAIN factor : g # f => factor'[g] = factor[g]
<1>1. req[c].at \in OnFactor
  BY DEF RevokeRow, OnFactor
<1>2. f \in DOMAIN factor /\ factor[f] \in FactorRow /\ factor[f].step \in Nat /\ factor[f].count \in Nat
  BY <1>1, RowAt
<1>3. ASSUME factor[f].status = "active", factor' = [factor EXCEPT ![f].status = "revoked"]
      PROVE  /\ RowKept(factor[f], factor'[f]) /\ factor'[f].status = "revoked"
             /\ DOMAIN factor' = DOMAIN factor /\ \A g \in DOMAIN factor : g # f => factor'[g] = factor[g]
  <2>1. PICK x : x = [factor[f] EXCEPT !.status = "revoked"]
    OBVIOUS
  <2>2. /\ x.status = "revoked" /\ x.user = factor[f].user /\ x.type = factor[f].type
        /\ x.step = factor[f].step /\ x.count = factor[f].count
    BY <1>2, <2>1 DEF FactorRow
  <2>3. /\ factor'[f] = x /\ DOMAIN factor' = DOMAIN factor
        /\ \A g \in DOMAIN factor : g # f => factor'[g] = factor[g]
    BY <1>2, <1>3, <2>1
  <2>4. RowKept(factor[f], x)
    BY <1>2, <1>3, <2>2 DEF RowKept
  <2>5. QED
    BY <2>2, <2>3, <2>4
<1>4. QED
  BY <1>2, <1>3 DEF RevokeRow

LEMMA AdvanceTotpStepWrites ==
  ASSUME StoresInv, NEW c \in Clients, AdvanceTotpStep(c)
  PROVE  RowsKept /\ StatusKept
<1>1. PICK f : f = req[c].fac
  OBVIOUS
<1>2. req[c].at \in OnFactor /\ req[c].at = "advance"
  BY DEF AdvanceTotpStep, OnFactor
<1>3. /\ f \in DOMAIN factor /\ factor[f] \in FactorRow /\ factor[f].step \in Nat /\ factor[f].count \in Nat
      /\ req[c].code \in Nat /\ req[c].seen \in Nat
  BY <1>1, <1>2, RowAt
<1>4. req[c].code > req[c].seen
  BY <1>2, StoresAre DEF Placed
<1>5. CASE /\ factor[f].status = "active" /\ factor[f].step = req[c].seen
           /\ factor' = [factor EXCEPT ![f].step = req[c].code]
  <2>1. PICK x : x = [factor[f] EXCEPT !.step = req[c].code]
    OBVIOUS
  <2>2. /\ x.status = factor[f].status /\ x.user = factor[f].user /\ x.type = factor[f].type
        /\ x.step = req[c].code /\ x.count = factor[f].count
        /\ factor[f].status \in {"pending", "active", "revoked"}
    BY <1>3, <2>1 DEF FactorRow
  <2>3. x.step >= factor[f].step /\ x.count >= factor[f].count
    BY <1>3, <1>4, <1>5, <2>2
  <2>4. RowKept(factor[f], x)
    BY <1>5, <2>2, <2>3 DEF RowKept
  <2>5. QED
    BY <1>3, <1>5, <2>1, <2>2, <2>4, OneRowKept
<1>6. QED
  BY <1>1, <1>5, SameRows DEF AdvanceTotpStep

LEMMA ActivateTotpWrites ==
  ASSUME StoresInv, NEW c \in Clients, ActivateTotp(c)
  PROVE  /\ RowsKept /\ DOMAIN factor' = DOMAIN factor
         /\ \A g \in DOMAIN factor :
              \/ factor'[g].status = factor[g].status
              \/ factor[g].status = "pending" /\ factor'[g].status = "active" /\ factor[g].type = "totp"
<1>1. PICK f : f = req[c].fac
  OBVIOUS
<1>2. req[c].at \in OnFactor
  BY DEF ActivateTotp, OnFactor
<1>3. /\ f \in DOMAIN factor /\ factor[f] \in FactorRow /\ GoodFactor(factor[f]) /\ factor[f].count \in Nat
      /\ req[c].code \in Nat
  BY <1>1, <1>2, RowAt
<1>4. CASE factor[f].status = "pending" /\ factor' = [factor EXCEPT ![f].status = "active", ![f].step = req[c].code]
  <2>1. PICK x : x = [factor[f] EXCEPT !.status = "active", !.step = req[c].code]
    OBVIOUS
  <2>2. /\ x.status = "active" /\ x.user = factor[f].user /\ x.type = factor[f].type
        /\ x.step = req[c].code /\ x.count = factor[f].count
    BY <1>3, <2>1 DEF FactorRow
  <2>3. factor[f].step = 0
    BY <1>3, <1>4 DEF GoodFactor
  <2>4. x.step >= factor[f].step /\ x.count >= factor[f].count
    BY <1>3, <2>2, <2>3
  <2>5. RowKept(factor[f], x)
    BY <1>4, <2>2, <2>4 DEF RowKept
  <2>6. factor' = [factor EXCEPT ![f] = x]
    BY <1>3, <1>4, <2>1
  <2>7. QED
    <3>1. /\ RowsKept /\ DOMAIN factor' = DOMAIN factor /\ factor'[f] = x
          /\ \A g \in DOMAIN factor : g # f => factor'[g] = factor[g]
      BY <1>3, <2>5, <2>6, OneRowKept
    <3>2. factor[f].type = "totp"
      BY <1>3, <1>4 DEF GoodFactor
    <3>3. QED
      BY <1>4, <2>2, <3>1, <3>2
<1>5. CASE factor' = factor
  BY <1>5, SameRows
<1>6. QED
  BY <1>1, <1>4, <1>5 DEF ActivateTotp

LEMMA UpdatePasskeyCounterWrites ==
  ASSUME StoresInv, NEW c \in Clients, UpdatePasskeyCounter(c)
  PROVE  RowsKept /\ StatusKept
<1>1. PICK f : f = req[c].fac
  OBVIOUS
<1>2. req[c].at \in OnFactor /\ req[c].at = "counter"
  BY DEF UpdatePasskeyCounter, OnFactor
<1>3. /\ f \in DOMAIN factor /\ factor[f] \in FactorRow /\ factor[f].step \in Nat /\ factor[f].count \in Nat
      /\ req[c].code \in Nat /\ req[c].seen \in Nat
  BY <1>1, <1>2, RowAt
<1>4. req[c].code >= req[c].seen
  BY <1>2, StoresAre DEF Placed
<1>5. CASE factor[f].count = req[c].seen /\ factor' = [factor EXCEPT ![f].count = req[c].code]
  <2>1. PICK x : x = [factor[f] EXCEPT !.count = req[c].code]
    OBVIOUS
  <2>2. /\ x.status = factor[f].status /\ x.user = factor[f].user /\ x.type = factor[f].type
        /\ x.step = factor[f].step /\ x.codes = factor[f].codes /\ x.count = req[c].code
        /\ factor[f].status \in {"pending", "active", "revoked"}
    BY <1>3, <2>1 DEF FactorRow
  <2>3. x.step >= factor[f].step /\ x.count >= factor[f].count
    BY <1>3, <1>4, <1>5, <2>2
  <2>4. RowKept(factor[f], x)
    BY <2>2, <2>3 DEF RowKept
  <2>5. QED
    BY <1>3, <1>5, <2>1, <2>2, <2>4, OneRowKept
<1>6. QED
  BY <1>1, <1>5, SameRows DEF UpdatePasskeyCounter

LEMMA CheckBackupCodeWrites ==
  ASSUME StoresInv, NEW c \in Clients, CheckBackupCode(c)
  PROVE  \/ factor' = factor /\ Goto(c, "void") /\ pledge' = pledge
         \/ \E f \in DOMAIN factor :
              /\ factor[f].type = "backup_codes" /\ factor[f].status = "active" /\ req[c].code \in factor[f].codes
              /\ factor' = [factor EXCEPT ![f] = CodeUsed(f, req[c].code)]
              /\ Spent("backup", f, req[c].code, req[c].read.login) /\ Goto(c, "consume")
<1>1. PICK k : k = req[c].code
  OBVIOUS
<1>2. ASSUME NEW f \in OfType(ActiveFactors(req[c].read.user), {"backup_codes"}),
             factor' = [factor EXCEPT ![f].codes = factor[f].codes \ {k},
                                      ![f].status = IF factor[f].codes \ {k} = {} THEN "revoked" ELSE @]
      PROVE  /\ f \in DOMAIN factor /\ factor[f].type = "backup_codes" /\ factor[f].status = "active"
             /\ factor' = [factor EXCEPT ![f] = CodeUsed(f, k)]
  <2>1. f \in DOMAIN factor /\ factor[f].type = "backup_codes" /\ factor[f].status = "active"
    BY DEF OfType, ActiveFactors
  <2>2. factor[f] \in FactorRow
    BY <2>1, StoresAre
  <2>3. factor' = [factor EXCEPT ![f] = CodeUsed(f, k)]
    BY <1>2, <2>1, <2>2 DEF CodeUsed, FactorRow
  <2>4. QED
    BY <2>1, <2>3
<1>3. CASE Goto(c, "void") /\ UNCHANGED <<factor, pledge>>
  BY <1>3
<1>4. CASE \E f \in OfType(ActiveFactors(req[c].read.user), {"backup_codes"}) :
             /\ k \in factor[f].codes
             /\ factor' = [factor EXCEPT ![f].codes = factor[f].codes \ {k},
                                         ![f].status = IF factor[f].codes \ {k} = {} THEN "revoked" ELSE @]
             /\ Spent("backup", f, k, req[c].read.login)
             /\ Goto(c, "consume")
  BY <1>1, <1>2, <1>4
<1>5. QED
  BY <1>1, <1>3, <1>4 DEF CheckBackupCode

LEMMA CodeUsedKept ==
  ASSUME StoresInv, NEW f \in DOMAIN factor, factor[f].status = "active", NEW k,
         factor' = [factor EXCEPT ![f] = CodeUsed(f, k)]
  PROVE  RowsKept
<1>1. PICK x : x = CodeUsed(f, k)
  OBVIOUS
<1>2. /\ x.status \in {"active", "revoked"} /\ x.user = factor[f].user /\ x.type = factor[f].type
      /\ x.step = factor[f].step /\ x.count = factor[f].count
  BY <1>1, CodeUsedIs
<1>3. factor[f].step \in Nat /\ factor[f].count \in Nat
  BY StoresAre DEF FactorRow
<1>4. RowKept(factor[f], x)
  BY <1>2, <1>3 DEF RowKept
<1>5. QED
  BY <1>1, <1>4, OneRowKept

LEMMA ReplaceBackupCodesWrites ==
  ASSUME StoresInv, NEW c \in Clients, ReplaceBackupCodes(c)
  PROVE  \/ /\ UNCHANGED <<factor, fresh, raced>> /\ Goto(c, "insert codes")
            /\ OfType(ActiveFactors(req[c].pay.user), {"backup_codes"}) = {}
         \/ /\ raced' = raced \cup {"codes"} /\ Goto(c, "complete") /\ fresh' = fresh + BackupCount
            /\ \E f \in DOMAIN factor :
                 factor[f].status = "active" /\ factor' = [factor EXCEPT ![f].codes = fresh + 1 .. fresh + BackupCount]
BY DEF ReplaceBackupCodes, OfType, ActiveFactors

LEMMA CodesReplaced ==
  ASSUME StoresInv, NEW f \in DOMAIN factor, factor[f].status = "active", NEW s,
         factor' = [factor EXCEPT ![f].codes = s]
  PROVE  /\ RowsKept /\ DOMAIN factor' = DOMAIN factor /\ factor'[f].codes = s
         /\ \A g \in DOMAIN factor : g # f => factor'[g] = factor[g]
         /\ \A g \in DOMAIN factor : factor'[g].status = factor[g].status /\ factor'[g].type = factor[g].type
<1>1. PICK x : x = [factor[f] EXCEPT !.codes = s]
  OBVIOUS
<1>2. factor[f] \in FactorRow /\ RowKept(factor[f], factor[f])
  BY StoresAre, SameRow
<1>3. /\ x.status = factor[f].status /\ x.user = factor[f].user /\ x.type = factor[f].type
      /\ x.step = factor[f].step /\ x.count = factor[f].count /\ x.codes = s
  BY <1>1, <1>2 DEF FactorRow
<1>4. RowKept(factor[f], x)
  BY <1>2, <1>3 DEF RowKept
<1>5. factor' = [factor EXCEPT ![f] = x]
  BY <1>1
<1>6. DOMAIN factor' = DOMAIN factor /\ factor'[f] = x /\ \A g \in DOMAIN factor : g # f => factor'[g] = factor[g]
  BY <1>5
<1>7. RowsKept
  BY <1>4, <1>5, OneRowKept
<1>8. QED
  BY <1>3, <1>6, <1>7

LEMMA SelectPendingWrites ==
  ASSUME StoresInv, NEW c \in Clients, SelectPending(c)
  PROVE  /\ RowsKept /\ DOMAIN factor' = DOMAIN factor
         /\ \A f \in DOMAIN factor : factor[f].status # "pending" => factor'[f] = factor[f]
         /\ \A f \in DOMAIN factor : factor[f].status = "pending" => factor'[f].status \in {"pending", "revoked"}
<1>1. PICK u : factor' = Supersede(u)
  BY DEF SelectPending
<1>2. UNCHANGED <<fails, lock, load, fresh>>
  BY DEF SelectPending, redis, world, observers
<1>3. /\ DOMAIN factor' = DOMAIN factor
      /\ \A f \in DOMAIN factor : /\ f \in PendingTotp(u) => factor'[f] = [factor[f] EXCEPT !.status = "revoked"]
                                  /\ f \notin PendingTotp(u) => factor'[f] = factor[f]
  BY <1>1, <1>2, SupersedeIs
<1>4. ASSUME NEW f \in DOMAIN factor
      PROVE  /\ RowKept(factor[f], factor'[f]) /\ (factor[f].status # "pending" => factor'[f] = factor[f])
             /\ factor[f].status = "pending" => factor'[f].status \in {"pending", "revoked"}
  <2>1. CASE f \notin PendingTotp(u)
    BY <1>3, <2>1, SameRow
  <2>2. CASE f \in PendingTotp(u)
    <3>1. factor[f] \in FactorRow /\ factor[f].status = "pending" /\ RowKept(factor[f], factor[f])
      BY <2>2, StoresAre, SameRow DEF PendingTotp
    <3>2. PICK x : x = [factor[f] EXCEPT !.status = "revoked"]
      OBVIOUS
    <3>3. /\ x.status = "revoked" /\ x.user = factor[f].user /\ x.type = factor[f].type
          /\ x.step = factor[f].step /\ x.count = factor[f].count /\ factor'[f] = x
      BY <1>3, <2>2, <3>1, <3>2 DEF FactorRow
    <3>4. RowKept(factor[f], x)
      BY <3>1, <3>3 DEF RowKept
    <3>5. QED
      BY <3>1, <3>3, <3>4
  <2>3. QED
    BY <2>1, <2>2
<1>5. QED
  BY <1>3, <1>4 DEF RowsKept

\* A row is inserted, and the others stay.
LEMMA AddsRow ==
  ASSUME StoresInv, NEW x, factor' = Append(factor, x), NEW n, n = Len(factor) + 1
  PROVE  /\ RowsKept /\ DOMAIN factor' = DOMAIN factor \cup {n} /\ n \notin DOMAIN factor
         /\ factor'[n] = x /\ \A f \in DOMAIN factor : factor'[f] = factor[f]
<1>1. factor \in Seq(FactorRow)
  BY DEF StoresInv, FactorTables
<1>2. DOMAIN factor' = DOMAIN factor \cup {n} /\ n \notin DOMAIN factor /\ factor'[n] = x
  BY <1>1
<1>3. \A f \in DOMAIN factor : factor'[f] = factor[f]
  BY <1>1
<1>4. RowsKept
  BY <1>2, <1>3, SameRow DEF RowsKept
<1>5. QED
  BY <1>2, <1>3, <1>4

LEMMA WritesKeepRows ==
  ASSUME StoresInv, NEW c \in Clients, Writes(c)
  PROVE  RowsKept
<1>1. CASE RevokeRow(c)
  <2>1. PICK f : f = req[c].fac
    OBVIOUS
  <2>2. CASE factor' = factor
    BY <2>2, SameRows
  <2>3. CASE /\ f \in DOMAIN factor /\ RowKept(factor[f], factor'[f]) /\ DOMAIN factor' = DOMAIN factor
             /\ \A g \in DOMAIN factor : g # f => factor'[g] = factor[g]
    BY <2>3, SameRow DEF RowsKept
  <2>4. QED
    BY <1>1, <2>1, <2>2, <2>3, RevokeRowWrites
<1>2. CASE AdvanceTotpStep(c)
  BY <1>2, AdvanceTotpStepWrites
<1>3. CASE CheckBackupCode(c)
  <2>1. CASE factor' = factor
    BY <2>1, SameRows
  <2>2. QED
    BY <1>3, <2>1, CheckBackupCodeWrites, CodeUsedKept
<1>4. CASE SelectPending(c)
  BY <1>4, SelectPendingWrites
<1>5. CASE InsertPending(c)
  BY <1>5, AddsRow DEF InsertPending, AddFactor
<1>6. CASE ActivateTotp(c)
  BY <1>6, ActivateTotpWrites
<1>7. CASE ReplaceBackupCodes(c)
  <2>1. CASE factor' = factor
    BY <2>1, SameRows
  <2>2. CASE \E f \in DOMAIN factor :
               factor[f].status = "active" /\ factor' = [factor EXCEPT ![f].codes = fresh + 1 .. fresh + BackupCount]
    BY <2>2, CodesReplaced
  <2>3. QED
    BY <1>7, <2>1, <2>2, ReplaceBackupCodesWrites
<1>8. CASE InsertBackupCodes(c)
  BY <1>8, AddsRow DEF InsertBackupCodes, AddFactor
<1>9. CASE CreatePasskey(c)
  BY <1>9, AddsRow DEF CreatePasskey, AddFactor
<1>10. CASE UpdatePasskeyCounter(c)
  BY <1>10, UpdatePasskeyCounterWrites
<1>11. QED
  BY <1>1, <1>2, <1>3, <1>4, <1>5, <1>6, <1>7, <1>8, <1>9, <1>10 DEF Writes

LEMMA OnlyWritersWrite ==
  ASSUME NEW c \in Clients, ClientStep(c)
  PROVE  UNCHANGED <<factor, raced>> \/ Writes(c)
<1>1. CASE TakeWorkflow(c)
  BY <1>1 DEF TakeWorkflow, observers
<1>2. CASE StoreOtp(c)
  BY <1>2 DEF StoreOtp, observers
<1>3. CASE Deliver(c)
  BY <1>3 DEF Deliver, observers
<1>4. CASE DeliveryFails(c)
  BY <1>4 DEF DeliveryFails, observers
<1>5. CASE StoreChallenge(c)
  BY <1>5 DEF StoreChallenge, observers
<1>6. CASE CompareTotp(c)
  BY <1>6 DEF CompareTotp, observers
<1>7. CASE CheckOtp(c)
  BY <1>7 DEF CheckOtp, observers
<1>8. CASE CountFactorFailure(c)
  BY <1>8 DEF CountFactorFailure, observers
<1>9. CASE LockFactor(c)
  BY <1>9 DEF LockFactor, observers
<1>10. CASE CountChallengeFailure(c)
  BY <1>10 DEF CountChallengeFailure, observers
<1>11. CASE DeleteChallenge(c)
  BY <1>11 DEF DeleteChallenge, observers
<1>12. CASE TakeChallenge(c)
  BY <1>12 DEF TakeChallenge, observers
<1>13. CASE Complete(c)
  BY <1>13 DEF Complete, observers
<1>14. CASE EnsureBackupCodes(c)
  BY <1>14 DEF EnsureBackupCodes, observers
<1>15. CASE CheckAssertion(c)
  BY <1>15 DEF CheckAssertion, observers
<1>16. CASE Stop(c)
  BY <1>16 DEF Stop, observers
<1>17. CASE PasskeyPrimaryOptions(c)
  BY <1>17 DEF PasskeyPrimaryOptions, observers
<1>18. ASSUME NEW t, NEW m, IssueChallenge(c, t, m) PROVE UNCHANGED <<factor, raced>>
  BY <1>18 DEF IssueChallenge, OpenWorkflow, observers
<1>19. ASSUME NEW t, SetupTotp(c, t) PROVE UNCHANGED <<factor, raced>>
  BY <1>19 DEF SetupTotp, OpenWorkflow, observers
<1>20. ASSUME NEW t, PasskeyRegistrationOptions(c, t) PROVE UNCHANGED <<factor, raced>>
  BY <1>20 DEF PasskeyRegistrationOptions, OpenWorkflow, observers
<1>21. ASSUME NEW t, PasskeyAuthenticationOptions(c, t) PROVE UNCHANGED <<factor, raced>>
  BY <1>21 DEF PasskeyAuthenticationOptions, OpenWorkflow, observers
<1>22. ASSUME NEW t, ProveCollisionPassword(c, t) PROVE UNCHANGED <<factor, raced>>
  BY <1>22 DEF ProveCollisionPassword, OpenWorkflow, observers
<1>23. ASSUME NEW t, ResendChallenge(c, t) PROVE UNCHANGED <<factor, raced>>
  BY <1>23 DEF ResendChallenge, observers
<1>24. ASSUME NEW t, ConfirmPasskeyRegistration(c, t) PROVE UNCHANGED <<factor, raced>>
  BY <1>24 DEF ConfirmPasskeyRegistration, TakeWebAuthn, observers
<1>25. ASSUME NEW t, NEW f, RevokeFactor(c, t, f) PROVE UNCHANGED <<factor, raced>>
  BY <1>25 DEF RevokeFactor, OpenWorkflow, observers
<1>26. ASSUME NEW t, NEW f, NEW k, VerifyPasskey(c, t, f, k) PROVE UNCHANGED <<factor, raced>>
  BY <1>26 DEF VerifyPasskey, TakeWebAuthn, observers
<1>27. ASSUME NEW t, NEW code, VerifyChallenge(c, t, code) PROVE UNCHANGED <<factor, raced>>
  BY <1>27 DEF VerifyChallenge, observers
<1>28. ASSUME NEW t, NEW code, ConfirmTotp(c, t, code) PROVE UNCHANGED <<factor, raced>>
  BY <1>28 DEF ConfirmTotp, observers
<1>29. QED
  BY <1>1, <1>2, <1>3, <1>4, <1>5, <1>6, <1>7, <1>8, <1>9, <1>10, <1>11, <1>12, <1>13, <1>14, <1>15, <1>16, <1>17, <1>18, <1>19, <1>20, <1>21, <1>22, <1>23, <1>24, <1>25, <1>26, <1>27, <1>28 DEF ClientStep, Writes

LEMMA RowsStep ==
  ASSUME StoresInv, [MfaNext]_vars
  PROVE  RowsKept
<1>1. ASSUME NEW c \in Clients, ClientStep(c) PROVE RowsKept
  BY <1>1, OnlyWritersWrite, WritesKeepRows, SameRows
<1>2. CASE factor' = factor
  BY <1>2, SameRows
<1>3. QED
  BY <1>1, <1>2 DEF MfaNext, vars, PrimaryLogin, ExpireUserCounters, Deactivate, CreateSession, ExpireToken, ExpireOtp,
                    ExpireFactorCounter, ExpireLock, NextTotpStep

\* update_passkey_counter and advance_totp_step write only past what they read, however the
\* requests interleave.  The row of a factor that was removed stays removed, and no time step
\* or backup code of it is spent afterwards; only the counter of a passkey can still move.
THEOREM FactorsNeverRewind == MfaSpec => NothingRewinds
<1>1. StoresInv /\ [MfaNext]_vars =>
        [\A f \in DOMAIN factor :
           /\ factor'[f].step >= factor[f].step
           /\ factor'[f].count >= factor[f].count
           /\ factor[f].status = "revoked" => /\ factor'[f].status = "revoked"
                                              /\ factor'[f].step = factor[f].step
                                              /\ factor'[f].codes = factor[f].codes]_vars
  BY RowsStep DEF RowsKept, RowKept
<1>2. QED
  BY <1>1, LoginsAreInOnePlace, PTL DEF MfaSpec, NothingRewinds
-----------------------------------------------------------------------------
(***************************************************************************)
(* Who gets where: the steps at which a request matters to the others.     *)
(***************************************************************************)
Watched == {"revoke", "revoke row", "insert codes", "totp", "advance", "count", "lock"}

Elsewhere == \A d \in Clients : req'[d] = req[d] \/ req'[d].at \notin Watched

LEMMA GotoIs ==
  ASSUME StoresInv, NEW c \in Clients, NEW label, Goto(c, label)
  PROVE  /\ req'[c].at = label /\ req'[c].tok = req[c].tok /\ req'[c].new = req[c].new /\ req'[c].fac = req[c].fac
         /\ req'[c].kind = req[c].kind /\ req'[c].method = req[c].method /\ req'[c].code = req[c].code
         /\ req'[c].seen = req[c].seen /\ req'[c].read = req[c].read /\ req'[c].pay = req[c].pay
         /\ \A d \in Clients : d # c => req'[d] = req[d]
<1>1. PICK r : r = [req[c] EXCEPT !.at = label]
  OBVIOUS
<1>2. req[c] \in RequestState /\ Requests
  BY StoresAre DEF StoresInv
<1>3. req'[c] = r /\ \A d \in Clients : d # c => req'[d] = req[d]
  BY <1>1, <1>2, StepMoves DEF Goto
<1>4. QED
  BY <1>1, <1>2, <1>3 DEF RequestState

LEMMA RefuseIs ==
  ASSUME StoresInv, NEW c \in Clients, Refuse(c)
  PROVE  req'[c] = Idle /\ req'[c].at = "idle" /\ req'[c].pay = None /\ \A d \in Clients : d # c => req'[d] = req[d]
BY StepMoves, IdleIs DEF Refuse, StoresInv

LEMMA GoesElsewhere ==
  ASSUME StoresInv, NEW c \in Clients, NEW label, Goto(c, label), label \notin Watched
  PROVE  Elsewhere
BY GotoIs DEF Elsewhere

LEMMA GivesUpElsewhere ==
  ASSUME StoresInv, NEW c \in Clients, Refuse(c)
  PROVE  Elsewhere
BY RefuseIs DEF Elsewhere, Watched

LEMMA StepsElsewhere ==
  ASSUME StoresInv, NEW c \in Clients, NEW r, Step(c, r), r.at \notin Watched
  PROVE  Elsewhere
<1>1. Requests
  BY DEF StoresInv
<1>2. QED
  BY <1>1, StepMoves DEF Elsewhere

LEMMA StaysElsewhere ==
  ASSUME req' = req
  PROVE  Elsewhere
BY DEF Elsewhere

\* Which steps lead to one of them.
LEMMA OtherSteps ==
  ASSUME StoresInv, NEW c \in Clients, ClientStep(c)
  PROVE  \/ Elsewhere
         \/ TakeWorkflow(c) \/ ReplaceBackupCodes(c) \/ CompareTotp(c) \/ AdvanceTotpStep(c) \/ CountFactorFailure(c)
         \/ \E t \in DOMAIN token : \/ \E f \in DOMAIN factor : RevokeFactor(c, t, f)
                                    \/ \E code \in Codes(t) : VerifyChallenge(c, t, code)
                                    \/ \E code \in {0, now, now + 1} : ConfirmTotp(c, t, code)
<1>1. CASE RevokeRow(c)
  <2>1. ASSUME NEW l \in {"complete"}, Goto(c, l) PROVE Elsewhere
    BY <2>1, GoesElsewhere DEF Watched
  <2>2. CASE Refuse(c)
    BY <2>2, GivesUpElsewhere
  <2>3. QED
    BY <1>1, <2>1, <2>2 DEF RevokeRow
<1>2. CASE StoreOtp(c)
  <2>1. ASSUME NEW l \in {"deliver"}, Goto(c, l) PROVE Elsewhere
    BY <2>1, GoesElsewhere DEF Watched
  <2>2. CASE Refuse(c)
    BY <2>2, GivesUpElsewhere
  <2>3. CASE Step(c, [req[c] EXCEPT !.at = "deliver", !.new = Len(token) + 1])
    <3>1. req[c] \in RequestState
      BY StoresAre
    <3>2. PICK r : r = [req[c] EXCEPT !.at = "deliver", !.new = Len(token) + 1]
      OBVIOUS
    <3>3. r.at \notin Watched
      BY <3>1, <3>2 DEF RequestState, Watched
    <3>4. QED
      BY <2>3, <3>2, <3>3, StepsElsewhere
  <2>4. QED
    BY <1>2, <2>1, <2>2, <2>3 DEF StoreOtp
<1>3. CASE Deliver(c)
  <2>1. ASSUME NEW l \in {"store"}, Goto(c, l) PROVE Elsewhere
    BY <2>1, GoesElsewhere DEF Watched
  <2>2. CASE Refuse(c)
    BY <2>2, GivesUpElsewhere
  <2>3. QED
    BY <1>3, <2>1, <2>2 DEF Deliver
<1>4. CASE DeliveryFails(c)
  BY <1>4, GivesUpElsewhere DEF DeliveryFails
<1>5. CASE StoreChallenge(c)
  BY <1>5, GivesUpElsewhere DEF StoreChallenge
<1>6. CASE CheckOtp(c)
  <2>1. ASSUME NEW l \in {"consume", "void"}, Goto(c, l) PROVE Elsewhere
    BY <2>1, GoesElsewhere DEF Watched
  <2>2. QED
    BY <1>6, <2>1 DEF CheckOtp
<1>7. CASE CheckBackupCode(c)
  <2>1. ASSUME NEW l \in {"void", "consume"}, Goto(c, l) PROVE Elsewhere
    BY <2>1, GoesElsewhere DEF Watched
  <2>2. QED
    BY <1>7, <2>1 DEF CheckBackupCode
<1>8. CASE LockFactor(c)
  BY <1>8, GivesUpElsewhere DEF LockFactor
<1>9. CASE CountChallengeFailure(c)
  <2>1. ASSUME NEW l \in {"delete"}, Goto(c, l) PROVE Elsewhere
    BY <2>1, GoesElsewhere DEF Watched
  <2>2. CASE Refuse(c)
    BY <2>2, GivesUpElsewhere
  <2>3. QED
    BY <1>9, <2>1, <2>2 DEF CountChallengeFailure
<1>10. CASE DeleteChallenge(c)
  BY <1>10, GivesUpElsewhere DEF DeleteChallenge
<1>11. CASE TakeChallenge(c)
  <2>1. CASE Refuse(c)
    BY <2>1, GivesUpElsewhere
  <2>2. CASE Step(c, [req[c] EXCEPT !.pay = token[req[c].tok].pay,
             !.at = IF token[req[c].tok].kind = "enroll" THEN "codes" ELSE "complete"])
    <3>1. req[c] \in RequestState
      BY StoresAre
    <3>2. PICK r : r = [req[c] EXCEPT !.pay = token[req[c].tok].pay,
                          !.at = IF token[req[c].tok].kind = "enroll" THEN "codes" ELSE "complete"]
      OBVIOUS
    <3>3. r.at \notin Watched
      BY <3>1, <3>2 DEF RequestState, Watched
    <3>4. QED
      BY <2>2, <3>2, <3>3, StepsElsewhere
  <2>3. QED
    BY <1>11, <2>1, <2>2 DEF TakeChallenge
<1>12. CASE Complete(c)
  BY <1>12, GivesUpElsewhere DEF Complete
<1>13. CASE SelectPending(c)
  <2>1. ASSUME NEW l \in {"insert totp"}, Goto(c, l) PROVE Elsewhere
    BY <2>1, GoesElsewhere DEF Watched
  <2>2. QED
    BY <1>13, <2>1 DEF SelectPending
<1>14. CASE InsertPending(c)
  <2>1. CASE Step(c, [req[c] EXCEPT !.at = "store", !.fac = Len(factor) + 1])
    <3>1. req[c] \in RequestState
      BY StoresAre
    <3>2. PICK r : r = [req[c] EXCEPT !.at = "store", !.fac = Len(factor) + 1]
      OBVIOUS
    <3>3. r.at \notin Watched
      BY <3>1, <3>2 DEF RequestState, Watched
    <3>4. QED
      BY <2>1, <3>2, <3>3, StepsElsewhere
  <2>2. QED
    BY <1>14, <2>1 DEF InsertPending
<1>15. CASE ActivateTotp(c)
  <2>1. ASSUME NEW l \in {"consume"}, Goto(c, l) PROVE Elsewhere
    BY <2>1, GoesElsewhere DEF Watched
  <2>2. CASE Refuse(c)
    BY <2>2, GivesUpElsewhere
  <2>3. QED
    BY <1>15, <2>1, <2>2 DEF ActivateTotp
<1>16. CASE EnsureBackupCodes(c)
  <2>1. ASSUME NEW l \in {"new codes", "complete"}, Goto(c, l) PROVE Elsewhere
    BY <2>1, GoesElsewhere DEF Watched
  <2>2. QED
    BY <1>16, <2>1 DEF EnsureBackupCodes
<1>17. CASE InsertBackupCodes(c)
  <2>1. ASSUME NEW l \in {"complete"}, Goto(c, l) PROVE Elsewhere
    BY <2>1, GoesElsewhere DEF Watched
  <2>2. QED
    BY <1>17, <2>1 DEF InsertBackupCodes
<1>18. CASE CreatePasskey(c)
  <2>1. ASSUME NEW l \in {"codes"}, Goto(c, l) PROVE Elsewhere
    BY <2>1, GoesElsewhere DEF Watched
  <2>2. QED
    BY <1>18, <2>1 DEF CreatePasskey
<1>19. CASE CheckAssertion(c)
  <2>1. CASE Refuse(c)
    BY <2>1, GivesUpElsewhere
  <2>2. CASE Step(c, [req[c] EXCEPT !.at = "counter", !.seen = factor[req[c].fac].count, !.pay.user = factor[req[c].fac].user])
    <3>1. req[c] \in RequestState
      BY StoresAre
    <3>2. PICK r : r = [req[c] EXCEPT !.at = "counter", !.seen = factor[req[c].fac].count, !.pay.user = factor[req[c].fac].user]
      OBVIOUS
    <3>3. r.at \notin Watched
      BY <3>1, <3>2 DEF RequestState, Watched
    <3>4. QED
      BY <2>2, <3>2, <3>3, StepsElsewhere
  <2>3. QED
    BY <1>19, <2>1, <2>2 DEF CheckAssertion
<1>20. CASE UpdatePasskeyCounter(c)
  <2>1. ASSUME NEW l \in {"complete"}, Goto(c, l) PROVE Elsewhere
    BY <2>1, GoesElsewhere DEF Watched
  <2>2. CASE Refuse(c)
    BY <2>2, GivesUpElsewhere
  <2>3. QED
    BY <1>20, <2>1, <2>2 DEF UpdatePasskeyCounter
<1>21. CASE Stop(c)
  BY <1>21, GivesUpElsewhere DEF Stop
<1>22. CASE PasskeyPrimaryOptions(c)
  BY <1>22, StaysElsewhere DEF PasskeyPrimaryOptions
<1>23. ASSUME NEW t, SetupTotp(c, t) PROVE Elsewhere
  <2>1. PICK r : r = [Reading(t) EXCEPT !.at = "setup", !.kind = "enroll"]
    OBVIOUS
  <2>2. r.at \notin Watched
    BY <2>1 DEF Reading, Idle, Watched
  <2>3. QED
    BY <1>23, <2>1, <2>2, StepsElsewhere DEF SetupTotp
<1>24. ASSUME NEW t, PasskeyRegistrationOptions(c, t) PROVE Elsewhere
  <2>1. PICK r : r = [Reading(t) EXCEPT !.at = "register", !.kind = "register"]
    OBVIOUS
  <2>2. r.at \notin Watched
    BY <2>1 DEF Reading, Idle, Watched
  <2>3. QED
    BY <1>24, <2>1, <2>2, StepsElsewhere DEF PasskeyRegistrationOptions
<1>25. ASSUME NEW t, PasskeyAuthenticationOptions(c, t) PROVE Elsewhere
  <2>1. PICK r : r = [Reading(t) EXCEPT !.at = "authenticate", !.kind = "authenticate"]
    OBVIOUS
  <2>2. r.at \notin Watched
    BY <2>1 DEF Reading, Idle, Watched
  <2>3. QED
    BY <1>25, <2>1, <2>2, StepsElsewhere DEF PasskeyAuthenticationOptions
<1>26. ASSUME NEW t, ProveCollisionPassword(c, t) PROVE Elsewhere
  <2>1. PICK r : r = [Reading(t) EXCEPT !.at = "prove"]
    OBVIOUS
  <2>2. r.at \notin Watched
    BY <2>1 DEF Reading, Idle, Watched
  <2>3. QED
    BY <1>26, <2>1, <2>2, StepsElsewhere DEF ProveCollisionPassword
<1>27. ASSUME NEW t, ResendChallenge(c, t) PROVE Elsewhere
  <2>1. PICK r : r = [Reading(t) EXCEPT !.at = "send", !.new = t]
    OBVIOUS
  <2>2. r.at \notin Watched
    BY <2>1 DEF Reading, Idle, Watched
  <2>3. QED
    BY <1>27, <2>1, <2>2, StepsElsewhere DEF ResendChallenge
<1>28. ASSUME NEW t, NEW m, IssueChallenge(c, t, m) PROVE Elsewhere
  <2>1. PICK f : Step(c, [Reading(t) EXCEPT !.at = "challenge", !.fac = f, !.method = m])
    BY <1>28 DEF IssueChallenge
  <2>2. PICK r : r = [Reading(t) EXCEPT !.at = "challenge", !.fac = f, !.method = m]
    OBVIOUS
  <2>3. r.at \notin Watched
    BY <2>2 DEF Reading, Idle, Watched
  <2>4. QED
    BY <2>1, <2>2, <2>3, StepsElsewhere
<1>29. ASSUME NEW t, ConfirmPasskeyRegistration(c, t) PROVE Elsewhere
  <2>1. PICK r : r = [[Idle EXCEPT !.at = "attestation"] EXCEPT !.tok = t, !.pay = token[t].pay]
    OBVIOUS
  <2>2. r.at \notin Watched
    BY <2>1 DEF Idle, Watched
  <2>3. QED
    BY <1>29, <2>1, <2>2, StepsElsewhere, StaysElsewhere DEF ConfirmPasskeyRegistration, TakeWebAuthn
<1>30. ASSUME NEW t, NEW f, NEW k, VerifyPasskey(c, t, f, k) PROVE Elsewhere
  <2>1. PICK r : r = [[Idle EXCEPT !.at = "assertion", !.fac = f, !.code = k] EXCEPT !.tok = t, !.pay = token[t].pay]
    OBVIOUS
  <2>2. r.at \notin Watched
    BY <2>1 DEF Idle, Watched
  <2>3. QED
    BY <1>30, <2>1, <2>2, StepsElsewhere, StaysElsewhere DEF VerifyPasskey, TakeWebAuthn
<1>31. QED
  BY <1>1, <1>2, <1>3, <1>4, <1>5, <1>6, <1>7, <1>8, <1>9, <1>10, <1>11, <1>12, <1>13, <1>14, <1>15, <1>16, <1>17, <1>18, <1>19, <1>20, <1>21, <1>22, <1>23, <1>24, <1>25, <1>26, <1>27, <1>28, <1>29, <1>30 DEF ClientStep
-----------------------------------------------------------------------------
(***************************************************************************)
(* A user keeps a strong factor, and has one set of backup codes.          *)
(***************************************************************************)
\* Removals under way are those that were.
SameRemovals ==
  \A d \in Clients : req'[d].at \in {"revoke", "revoke row"}
                       => req[d].at \in {"revoke", "revoke row"} /\ req'[d].fac = req[d].fac
SameInserts ==
  \A d \in Clients : req'[d].at = "insert codes" => req[d].at = "insert codes" /\ req'[d].pay = req[d].pay

LEMMA ElsewhereIsSame ==
  ASSUME Elsewhere
  PROVE  SameRemovals /\ SameInserts
BY DEF Elsewhere, Watched, SameRemovals, SameInserts

\* The row of a removal.
LEMMA RemovesRow ==
  ASSUME StoresInv, NEW d \in Clients, req[d].at \in {"revoke", "revoke row"}
  PROVE  req[d].fac \in DOMAIN factor
BY StoresAre DEF Placed, OnFactor

LEMMA RemovalsStay ==
  ASSUME StoresInv, RemovalsLeaveOne, RowsKept, raced \subseteq raced', SameRemovals,
         \A u : StrongFactors(u) \subseteq StrongFactors(u)'
  PROVE  RemovalsLeaveOne'
<1>1. ASSUME "factors" \notin raced', NEW d \in Clients, req'[d].at \in {"revoke", "revoke row"},
             factor'[req'[d].fac].type \in Strong
      PROVE  (StrongFactors(factor[req[d].fac].user) \ {req[d].fac})' # {}
  <2>1. PICK f : f = req[d].fac
    OBVIOUS
  <2>2. req[d].at \in {"revoke", "revoke row"} /\ req'[d].fac = f /\ f \in DOMAIN factor
    BY <1>1, <2>1, RemovesRow DEF SameRemovals
  <2>3. factor'[f].type = factor[f].type /\ factor'[f].user = factor[f].user
    BY <2>2 DEF RowsKept, RowKept
  <2>4. PICK u : u = factor[f].user
    OBVIOUS
  <2>5. StrongFactors(u) \ {f} # {}
    BY <1>1, <2>1, <2>2, <2>3, <2>4 DEF RemovalsLeaveOne
  <2>6. StrongFactors(u)' \ {f} # {}
    BY <2>5
  <2>7. QED
    BY <2>2, <2>3, <2>4, <2>6
<1>2. QED
  BY <1>1 DEF RemovalsLeaveOne

LEMMA CodeSetStays ==
  ASSUME StoresInv, OneCodeSet, raced \subseteq raced', SameInserts,
         \A u \in Users : CodeRows(u)' \subseteq CodeRows(u)
  PROVE  OneCodeSet'
<1>1. ASSUME "codes" \notin raced', NEW u \in Users PROVE \A f, g \in CodeRows(u)' : f = g
  BY <1>1 DEF OneCodeSet
<1>2. ASSUME "codes" \notin raced', NEW d \in Clients, req'[d].at = "insert codes"
      PROVE  CodeRows(req[d].pay.user)' = {}
  <2>1. PICK u : u = req[d].pay.user
    OBVIOUS
  <2>2. req[d].at = "insert codes" /\ req'[d].pay = req[d].pay
    BY <1>2 DEF SameInserts
  <2>3. u \in Users
    BY <2>1, <2>2, StoresAre DEF Placed, Carries
  <2>4. CodeRows(u) = {}
    BY <1>2, <2>1, <2>2 DEF OneCodeSet
  <2>5. CodeRows(u)' = {}
    BY <2>3, <2>4
  <2>6. QED
    BY <2>1, <2>2, <2>5
<1>3. QED
  BY <1>1, <1>2 DEF OneCodeSet

\* What a change of rows does to the sets.
LEMMA RowsSame ==
  ASSUME factor' = factor
  PROVE  \A u : StrongFactors(u)' = StrongFactors(u) /\ CodeRows(u)' = CodeRows(u)
BY DEF StrongFactors, CodeRows, OfType, ActiveFactors

LEMMA StatusSame ==
  ASSUME StoresInv, RowsKept, StatusKept
  PROVE  \A u : StrongFactors(u)' = StrongFactors(u) /\ CodeRows(u)' = CodeRows(u)
BY DEF StrongFactors, CodeRows, OfType, ActiveFactors, RowsKept, RowKept, StatusKept

LEMMA RowComes ==
  ASSUME StoresInv, NEW n, DOMAIN factor' = DOMAIN factor \cup {n}, n \notin DOMAIN factor,
         \A f \in DOMAIN factor : factor'[f] = factor[f]
  PROVE  \A u : /\ StrongFactors(u) \subseteq StrongFactors(u)'
                /\ CodeRows(u)' \subseteq CodeRows(u) \cup {n}
                /\ factor'[n].type # "backup_codes" => CodeRows(u)' \subseteq CodeRows(u)
                /\ factor'[n].user # u => CodeRows(u)' \subseteq CodeRows(u)
BY DEF StrongFactors, CodeRows, OfType, ActiveFactors

LEMMA ActivateTotpSets ==
  ASSUME StoresInv, NEW c \in Clients, ActivateTotp(c), NEW u
  PROVE  StrongFactors(u) \subseteq StrongFactors(u)' /\ CodeRows(u)' \subseteq CodeRows(u)
<1>1. /\ RowsKept /\ DOMAIN factor' = DOMAIN factor
      /\ \A g \in DOMAIN factor :
           \/ factor'[g].status = factor[g].status
           \/ factor[g].status = "pending" /\ factor'[g].status = "active" /\ factor[g].type = "totp"
  BY ActivateTotpWrites
<1>2. QED
  BY <1>1 DEF StrongFactors, CodeRows, OfType, ActiveFactors, RowsKept, RowKept

LEMMA SelectPendingSets ==
  ASSUME StoresInv, NEW c \in Clients, SelectPending(c), NEW u
  PROVE  StrongFactors(u) \subseteq StrongFactors(u)' /\ CodeRows(u)' \subseteq CodeRows(u)
<1>1. /\ DOMAIN factor' = DOMAIN factor
      /\ \A f \in DOMAIN factor : factor[f].status # "pending" => factor'[f] = factor[f]
      /\ \A f \in DOMAIN factor : factor[f].status = "pending" => factor'[f].status \in {"pending", "revoked"}
  BY SelectPendingWrites
<1>2. QED
  BY <1>1 DEF StrongFactors, CodeRows, OfType, ActiveFactors

LEMMA CheckBackupCodeSets ==
  ASSUME StoresInv, NEW c \in Clients, CheckBackupCode(c), NEW u
  PROVE  StrongFactors(u) \subseteq StrongFactors(u)' /\ CodeRows(u)' \subseteq CodeRows(u)
<1>1. CASE factor' = factor
  BY <1>1, RowsSame
<1>2. ASSUME NEW f \in DOMAIN factor, factor[f].type = "backup_codes", factor[f].status = "active",
             factor' = [factor EXCEPT ![f] = CodeUsed(f, req[c].code)]
      PROVE  StrongFactors(u) \subseteq StrongFactors(u)' /\ CodeRows(u)' \subseteq CodeRows(u)
  <2>1. /\ DOMAIN factor' = DOMAIN factor /\ factor'[f] = CodeUsed(f, req[c].code)
        /\ \A g \in DOMAIN factor : g # f => factor'[g] = factor[g]
    BY <1>2
  <2>2. factor'[f].user = factor[f].user /\ factor'[f].type = "backup_codes"
    BY <1>2, <2>1, CodeUsedIs
  <2>3. QED
    BY <1>2, <2>1, <2>2 DEF StrongFactors, CodeRows, OfType, ActiveFactors, Strong
<1>3. QED
  BY <1>1, <1>2, CheckBackupCodeWrites

LEMMA ReplaceBackupCodesSets ==
  ASSUME StoresInv, NEW c \in Clients, ReplaceBackupCodes(c), NEW u
  PROVE  StrongFactors(u)' = StrongFactors(u) /\ CodeRows(u)' = CodeRows(u)
<1>1. CASE factor' = factor
  BY <1>1, RowsSame
<1>2. ASSUME NEW f \in DOMAIN factor, factor[f].status = "active",
             factor' = [factor EXCEPT ![f].codes = fresh + 1 .. fresh + BackupCount]
      PROVE  StrongFactors(u)' = StrongFactors(u) /\ CodeRows(u)' = CodeRows(u)
  <2>1. PICK s : s = fresh + 1 .. fresh + BackupCount
    OBVIOUS
  <2>2. RowsKept /\ StatusKept
    BY <1>2, <2>1, CodesReplaced DEF StatusKept
  <2>3. QED
    BY <2>2, StatusSame
<1>3. QED
  BY <1>1, <1>2, ReplaceBackupCodesWrites

\* Only revoke_factor removes a strong factor, and only store_backup_codes adds codes.
LEMMA WritersSets ==
  ASSUME StoresInv, NEW c \in Clients, Writes(c), NEW u
  PROVE  /\ ~RevokeRow(c) => StrongFactors(u) \subseteq StrongFactors(u)'
         /\ ~InsertBackupCodes(c) => CodeRows(u)' \subseteq CodeRows(u)
<1>1. CASE RevokeRow(c)
  <2>1. PICK f : f = req[c].fac
    OBVIOUS
  <2>2. CASE factor' = factor
    BY <1>1, <2>2, RowsSame
  <2>3. CASE /\ f \in DOMAIN factor /\ factor'[f].status = "revoked" /\ DOMAIN factor' = DOMAIN factor
             /\ \A g \in DOMAIN factor : g # f => factor'[g] = factor[g]
    BY <1>1, <2>3 DEF CodeRows, OfType, ActiveFactors
  <2>4. QED
    BY <1>1, <2>1, <2>2, <2>3, RevokeRowWrites
<1>2. CASE AdvanceTotpStep(c)
  BY <1>2, AdvanceTotpStepWrites, StatusSame
<1>3. CASE CheckBackupCode(c)
  BY <1>3, CheckBackupCodeSets
<1>4. CASE SelectPending(c)
  BY <1>4, SelectPendingSets
<1>5. CASE InsertPending(c)
  <2>1. PICK n : n = Len(factor) + 1
    OBVIOUS
  <2>2. /\ DOMAIN factor' = DOMAIN factor \cup {n} /\ n \notin DOMAIN factor
        /\ \A f \in DOMAIN factor : factor'[f] = factor[f]
        /\ factor'[n].type = "totp"
    <3>1. PICK x : x.type = "totp" /\ factor' = Append(factor, x)
      BY <1>5 DEF InsertPending, AddFactor
    <3>2. QED
      BY <2>1, <3>1, AddsRow
  <2>3. QED
    BY <2>2, RowComes
<1>6. CASE ActivateTotp(c)
  BY <1>6, ActivateTotpSets
<1>7. CASE ReplaceBackupCodes(c)
  BY <1>7, ReplaceBackupCodesSets
<1>8. CASE InsertBackupCodes(c)
  <2>1. PICK n : n = Len(factor) + 1
    OBVIOUS
  <2>2. /\ DOMAIN factor' = DOMAIN factor \cup {n} /\ n \notin DOMAIN factor
        /\ \A f \in DOMAIN factor : factor'[f] = factor[f]
    BY <1>8, <2>1, AddsRow DEF InsertBackupCodes, AddFactor
  <2>3. QED
    BY <1>8, <2>2, RowComes
<1>9. CASE CreatePasskey(c)
  <2>1. PICK n : n = Len(factor) + 1
    OBVIOUS
  <2>2. /\ DOMAIN factor' = DOMAIN factor \cup {n} /\ n \notin DOMAIN factor
        /\ \A f \in DOMAIN factor : factor'[f] = factor[f]
        /\ factor'[n].type = "passkey"
    <3>1. PICK x : x.type = "passkey" /\ factor' = Append(factor, x)
      BY <1>9 DEF CreatePasskey, AddFactor
    <3>2. QED
      BY <2>1, <3>1, AddsRow
  <2>3. QED
    BY <2>2, RowComes
<1>10. CASE UpdatePasskeyCounter(c)
  BY <1>10, UpdatePasskeyCounterWrites, StatusSame
<1>11. QED
  BY <1>1, <1>2, <1>3, <1>4, <1>5, <1>6, <1>7, <1>8, <1>9, <1>10 DEF Writes
LEMMA RacedGrows ==
  ASSUME NEW c \in Clients, ClientStep(c)
  PROVE  raced \subseteq raced'
BY OnlyWritersWrite DEF Writes, RevokeRow, AdvanceTotpStep, CheckBackupCode, SelectPending, InsertPending, ActivateTotp,
                        ReplaceBackupCodes, InsertBackupCodes, CreatePasskey, UpdatePasskeyCounter, observers

\* A row that is revoked leaves only the sets of its user.
LEMMA RevokedSets ==
  ASSUME NEW f \in DOMAIN factor, factor[f].status = "active", RowKept(factor[f], factor'[f]),
         DOMAIN factor' = DOMAIN factor, \A g \in DOMAIN factor : g # f => factor'[g] = factor[g], NEW u
  PROVE  /\ StrongFactors(u) \ {f} \subseteq StrongFactors(u)'
         /\ factor[f].user # u \/ factor[f].type \notin Strong => StrongFactors(u) \subseteq StrongFactors(u)'
BY DEF StrongFactors, OfType, ActiveFactors, RowKept

LEMMA RevokeRowLeaves ==
  ASSUME StoresInv, RemovalsLeaveOne, NEW c \in Clients, RevokeRow(c)
  PROVE  /\ RemovalsLeaveOne'
         /\ \A u : StrongFactors(u) # {} => StrongFactors(u)' # {} \/ "factors" \in raced'
<1>1. PICK f : f = req[c].fac
  OBVIOUS
<1>2. CASE Refuse(c) /\ UNCHANGED <<factor, raced>>
  <2>1. SameRemovals
    BY <1>2, GivesUpElsewhere, ElsewhereIsSame
  <2>2. \A u : StrongFactors(u)' = StrongFactors(u)
    BY <1>2, RowsSame
  <2>3. RowsKept
    BY <1>2, SameRows
  <2>4. RemovalsLeaveOne'
    BY <1>2, <2>1, <2>2, <2>3, RemovalsStay
  <2>5. QED
    BY <2>2, <2>4
<1>3. CASE /\ f \in DOMAIN factor /\ factor[f].status = "active" /\ RowKept(factor[f], factor'[f])
           /\ factor'[f].status = "revoked" /\ Goto(c, "complete")
           /\ DOMAIN factor' = DOMAIN factor /\ \A g \in DOMAIN factor : g # f => factor'[g] = factor[g]
  <2>1. /\ raced' = raced \/ raced' = raced \cup {"factors"}
        /\ "factors" \in raced' \/ \A d \in Clients \ {c} : req[d].at \in {"revoke", "revoke row"}
                                                             => factor[req[d].fac].user # factor[f].user
    BY <1>1, <1>3 DEF RevokeRow
  <2>2. req'[c].at = "complete" /\ \A d \in Clients : d # c => req'[d] = req[d]
    BY <1>3, GotoIs
  <2>3. req[c].at = "revoke row"
    BY DEF RevokeRow
  <2>4. ASSUME "factors" \notin raced', NEW d \in Clients, req'[d].at \in {"revoke", "revoke row"},
               factor'[req'[d].fac].type \in Strong
        PROVE  (StrongFactors(factor[req[d].fac].user) \ {req[d].fac})' # {}
    <3>1. d # c /\ req'[d] = req[d]
      BY <2>2, <2>4
    <3>2. PICK g : g = req[d].fac
      OBVIOUS
    <3>3. g \in DOMAIN factor
      BY <2>4, <3>1, <3>2, RemovesRow
    <3>4. PICK u : u = factor[g].user
      OBVIOUS
    <3>5. u # factor[f].user
      BY <2>1, <2>4, <3>1, <3>2, <3>4
    <3>6. factor'[g] = factor[g]
      BY <1>3, <3>3, <3>4, <3>5
    <3>7. StrongFactors(u) \ {g} # {}
      BY <2>1, <2>4, <3>1, <3>2, <3>4, <3>6 DEF RemovalsLeaveOne
    <3>8. StrongFactors(u) \subseteq StrongFactors(u)'
      BY <1>3, <3>5, RevokedSets
    <3>9. StrongFactors(u)' \ {g} # {}
      BY <3>7, <3>8
    <3>10. QED
      BY <3>1, <3>2, <3>4, <3>6, <3>9
  <2>5. ASSUME "factors" \notin raced', NEW u, StrongFactors(u) # {} PROVE StrongFactors(u)' # {}
    <3>1. CASE factor[f].user # u \/ factor[f].type \notin Strong
      BY <1>3, <2>5, <3>1, RevokedSets
    <3>2. CASE factor[f].user = u /\ factor[f].type \in Strong
      <4>1. StrongFactors(u) \ {f} # {}
        BY <1>1, <2>1, <2>3, <2>5, <3>2 DEF RemovalsLeaveOne
      <4>2. StrongFactors(u) \ {f} \subseteq StrongFactors(u)'
        BY <1>3, RevokedSets
      <4>3. QED
        BY <4>1, <4>2
    <3>3. QED
      BY <3>1, <3>2
  <2>6. RemovalsLeaveOne'
    BY <2>4 DEF RemovalsLeaveOne
  <2>7. QED
    BY <2>5, <2>6
<1>4. QED
  BY <1>1, <1>2, <1>3, RevokeRowWrites

\* revoke_factor counted the strong factors it saw, and there are more than the one it removes.
LEMMA RevokeFactorLeaves ==
  ASSUME StoresInv, RemovalsLeaveOne, NEW c \in Clients, NEW t \in DOMAIN token, NEW f \in DOMAIN factor,
         RevokeFactor(c, t, f)
  PROVE  RemovalsLeaveOne'
<1>1. UNCHANGED <<factor, raced>> /\ Removable(Holder(t), f) /\ Step(c, [Reading(t) EXCEPT !.at = "revoke", !.fac = f])
  BY DEF RevokeFactor, OpenWorkflow, observers
<1>2. PICK r : r = [Reading(t) EXCEPT !.at = "revoke", !.fac = f]
  OBVIOUS
<1>3. r.at = "revoke" /\ r.fac = f
  BY <1>2 DEF Reading, Idle
<1>4. req'[c] = r /\ \A d \in Clients : d # c => req'[d] = req[d]
  BY <1>1, <1>2, StepMoves DEF StoresInv
<1>5. PICK u : u = factor[f].user
  OBVIOUS
<1>6. factor[f].type \in Strong => Cardinality(StrongFactors(u)) > 1
  BY <1>1, <1>5 DEF Removable, ActiveFactors
<1>7. ASSUME factor[f].type \in Strong PROVE StrongFactors(u) \ {f} # {}
  <2>1. IsFiniteSet({f}) /\ Cardinality({f}) = 1
    BY FS_Singleton
  <2>2. ASSUME StrongFactors(u) \ {f} = {} PROVE FALSE
    <3>1. StrongFactors(u) \subseteq {f}
      BY <2>2
    <3>2. IsFiniteSet(StrongFactors(u)) /\ Cardinality(StrongFactors(u)) <= Cardinality({f})
      BY <2>1, <3>1, FS_Subset
    <3>3. Cardinality(StrongFactors(u)) \in Nat
      BY <3>2, FS_CardinalityType
    <3>4. QED
      BY <1>6, <1>7, <2>1, <3>2, <3>3
  <2>3. QED
    BY <2>2
<1>8. \A v : StrongFactors(v)' = StrongFactors(v)
  BY <1>1, RowsSame
<1>9. ASSUME "factors" \notin raced', NEW d \in Clients, req'[d].at \in {"revoke", "revoke row"},
             factor'[req'[d].fac].type \in Strong
      PROVE  (StrongFactors(factor[req[d].fac].user) \ {req[d].fac})' # {}
  <2>1. CASE d = c
    <3>1. req'[d].fac = f
      BY <1>3, <1>4, <2>1
    <3>2. QED
      BY <1>1, <1>5, <1>7, <1>8, <1>9, <3>1
  <2>2. CASE d # c
    <3>1. req'[d] = req[d] /\ "factors" \notin raced
      BY <1>1, <1>4, <1>9, <2>2
    <3>2. PICK v : v = factor[req[d].fac].user
      OBVIOUS
    <3>3. StrongFactors(v) \ {req[d].fac} # {}
      BY <1>1, <1>9, <3>1, <3>2 DEF RemovalsLeaveOne
    <3>4. QED
      BY <1>1, <1>8, <3>1, <3>2, <3>3
  <2>3. QED
    BY <2>1, <2>2
<1>10. QED
  BY <1>9 DEF RemovalsLeaveOne
\* Who decides on a removal, and who is about to insert codes.
LEMMA StepsSame ==
  ASSUME StoresInv, NEW c \in Clients, NEW r, Step(c, r), r.at \notin {"revoke", "revoke row", "insert codes"}
  PROVE  SameRemovals /\ SameInserts
<1>1. req'[c] = r /\ \A d \in Clients : d # c => req'[d] = req[d]
  BY StepMoves DEF StoresInv
<1>2. QED
  BY <1>1 DEF SameRemovals, SameInserts

LEMMA GoesSame ==
  ASSUME StoresInv, NEW c \in Clients, NEW label, Goto(c, label)
  PROVE  /\ label \notin {"revoke", "revoke row"} => SameRemovals
         /\ label # "insert codes" => SameInserts
BY GotoIs DEF SameRemovals, SameInserts

LEMMA TakeWorkflowSame ==
  ASSUME StoresInv, NEW c \in Clients, TakeWorkflow(c)
  PROVE  SameRemovals /\ SameInserts
<1>1. CASE Refuse(c)
  BY <1>1, GivesUpElsewhere, ElsewhereIsSame
<1>2. CASE Step(c, [req[c] EXCEPT !.at = NextAfter(c), !.pay = token[req[c].tok].pay])
  <2>1. PICK r : r = [req[c] EXCEPT !.at = NextAfter(c), !.pay = token[req[c].tok].pay]
    OBVIOUS
  <2>2. req[c] \in RequestState /\ req[c].at \in Taking
    BY StoresAre DEF TakeWorkflow
  <2>3. r.at = NextAfter(c) /\ r.fac = req[c].fac
    BY <2>1, <2>2 DEF RequestState
  <2>4. r.at # "insert codes" /\ r.at # "revoke" /\ (r.at = "revoke row" => req[c].at = "revoke")
    <3>1. PICK l, n : l = req[c].at /\ n = NextAfter(c)
      OBVIOUS
    <3>2. /\ l = "revoke" => n = "revoke row"
          /\ l = "setup" => n = "pending row"
          /\ l = "challenge" => n \in {"send", "store"}
          /\ l \in {"register", "authenticate"} => n = "store"
          /\ l = "prove" => n = "complete"
      BY <2>2, <3>1, NextAfterIs
    <3>3. l \in {"revoke", "setup", "challenge", "register", "authenticate", "prove"}
      BY <2>2, <3>1 DEF Taking
    <3>4. QED
      BY <2>3, <3>1, <3>2, <3>3
  <2>5. req'[c] = r /\ \A d \in Clients : d # c => req'[d] = req[d]
    BY <1>2, <2>1, StepMoves DEF StoresInv
  <2>6. QED
    BY <2>3, <2>4, <2>5 DEF SameRemovals, SameInserts
<1>3. QED
  BY <1>1, <1>2 DEF TakeWorkflow

LEMMA VerifyChallengeSame ==
  ASSUME StoresInv, NEW c \in Clients, NEW t \in DOMAIN token, NEW code, VerifyChallenge(c, t, code)
  PROVE  SameRemovals /\ SameInserts
<1>1. PICK r : r = [Reading(t) EXCEPT !.at = token[t].method, !.fac = token[t].fac, !.code = code]
  OBVIOUS
<1>2. token[t].method \in VerifyMethods
  BY StoresAre DEF VerifyChallenge, Live, GoodToken
<1>3. r.at = token[t].method
  BY <1>1 DEF Reading, Idle
<1>4. r.at \notin {"revoke", "revoke row", "insert codes"}
  BY <1>2, <1>3 DEF VerifyMethods
<1>5. QED
  BY <1>1, <1>4, StepsSame DEF VerifyChallenge

LEMMA ConfirmTotpSame ==
  ASSUME StoresInv, NEW c \in Clients, NEW t \in DOMAIN token, NEW code, ConfirmTotp(c, t, code)
  PROVE  SameRemovals /\ SameInserts
<1>1. PICK r : r = [Reading(t) EXCEPT !.at = IF AcceptsStep(0, code) THEN "activate" ELSE "count",
                             !.fac = token[t].fac, !.code = code]
  OBVIOUS
<1>2. r.at \in {"activate", "count"}
  BY <1>1 DEF Reading, Idle
<1>3. QED
  BY <1>1, <1>2, StepsSame DEF ConfirmTotp

LEMMA CompareTotpSame ==
  ASSUME StoresInv, NEW c \in Clients, CompareTotp(c)
  PROVE  SameRemovals /\ SameInserts
<1>1. PICK r, x, n : /\ x \in {"advance", "count"} /\ r = [req[c] EXCEPT !.at = x, !.seen = n] /\ Step(c, r)
  BY DEF CompareTotp
<1>2. req[c] \in RequestState
  BY StoresAre
<1>3. r.at \in {"advance", "count"}
  BY <1>1, <1>2 DEF RequestState
<1>4. QED
  BY <1>1, <1>3, StepsSame

LEMMA SameSteps ==
  ASSUME StoresInv, NEW c \in Clients, ClientStep(c)
  PROVE  /\ SameRemovals \/ \E t \in DOMAIN token, f \in DOMAIN factor : RevokeFactor(c, t, f)
         /\ SameInserts \/ ReplaceBackupCodes(c)
<1>1. CASE Elsewhere
  BY <1>1, ElsewhereIsSame
<1>2. CASE TakeWorkflow(c)
  BY <1>2, TakeWorkflowSame
<1>3. CASE CompareTotp(c)
  BY <1>3, CompareTotpSame
<1>4. CASE AdvanceTotpStep(c)
  <2>1. ASSUME NEW l \in {"consume", "count"}, Goto(c, l) PROVE SameRemovals /\ SameInserts
    BY <2>1, GoesSame
  <2>2. QED
    BY <1>4, <2>1 DEF AdvanceTotpStep
<1>5. CASE CountFactorFailure(c)
  <2>1. ASSUME NEW l \in {"lock"}, Goto(c, l) PROVE SameRemovals /\ SameInserts
    BY <2>1, GoesSame
  <2>2. CASE Refuse(c)
    BY <2>2, GivesUpElsewhere, ElsewhereIsSame
  <2>3. QED
    BY <1>5, <2>1, <2>2 DEF CountFactorFailure
<1>6. CASE ReplaceBackupCodes(c)
  <2>1. ASSUME NEW l \in {"insert codes", "complete"}, Goto(c, l) PROVE SameRemovals
    BY <2>1, GoesSame
  <2>2. QED
    BY <1>6, <2>1, ReplaceBackupCodesWrites
<1>7. ASSUME NEW t \in DOMAIN token, NEW f \in DOMAIN factor, RevokeFactor(c, t, f) PROVE SameInserts
  <2>1. PICK r : r = [Reading(t) EXCEPT !.at = "revoke", !.fac = f]
    OBVIOUS
  <2>2. r.at = "revoke"
    BY <2>1 DEF Reading, Idle
  <2>3. req'[c] = r /\ \A d \in Clients : d # c => req'[d] = req[d]
    BY <1>7, <2>1, StepMoves DEF StoresInv, RevokeFactor
  <2>4. QED
    BY <2>2, <2>3 DEF SameInserts
<1>8. QED
  BY <1>1, <1>2, <1>3, <1>4, <1>5, <1>6, <1>7, OtherSteps, VerifyChallengeSame, ConfirmTotpSame

\* Every other step leaves the removals as they were decided.
LEMMA RemovalsStep ==
  ASSUME StoresInv, RemovalsLeaveOne, NEW c \in Clients, ClientStep(c)
  PROVE  /\ RemovalsLeaveOne'
         /\ \A u : StrongFactors(u) # {} => StrongFactors(u)' # {} \/ "factors" \in raced'
<1>1. CASE RevokeRow(c)
  BY <1>1, RevokeRowLeaves
<1>2. ASSUME NEW t \in DOMAIN token, NEW f \in DOMAIN factor, RevokeFactor(c, t, f)
      PROVE  /\ RemovalsLeaveOne'
             /\ \A u : StrongFactors(u) # {} => StrongFactors(u)' # {} \/ "factors" \in raced'
  <2>1. factor' = factor
    BY <1>2 DEF RevokeFactor, OpenWorkflow
  <2>2. QED
    BY <1>2, <2>1, RevokeFactorLeaves, RowsSame
<1>3. CASE ~RevokeRow(c) /\ SameRemovals
  <2>1. \A u : StrongFactors(u) \subseteq StrongFactors(u)'
    BY <1>3, OnlyWritersWrite, RowsSame, WritersSets
  <2>2. RowsKept
    BY RowsStep DEF MfaNext
  <2>3. raced \subseteq raced'
    BY RacedGrows
  <2>4. RemovalsLeaveOne'
    BY <1>3, <2>1, <2>2, <2>3, RemovalsStay
  <2>5. QED
    BY <2>1, <2>4
<1>4. QED
  BY <1>1, <1>2, <1>3, SameSteps
\* store_backup_codes inserts for a user who has none, and nobody else is about to.
LEMMA InsertBackupCodesSet ==
  ASSUME StoresInv, OneCodeSet, NEW c \in Clients, InsertBackupCodes(c)
  PROVE  OneCodeSet'
<1>1. PICK n : n = Len(factor) + 1
  OBVIOUS
<1>2. PICK w : w = req[c].pay.user
  OBVIOUS
<1>3. /\ DOMAIN factor' = DOMAIN factor \cup {n} /\ n \notin DOMAIN factor
      /\ \A f \in DOMAIN factor : factor'[f] = factor[f]
      /\ factor'[n].user = w
  <2>1. PICK x : x.user = w /\ factor' = Append(factor, x)
    BY <1>2 DEF InsertBackupCodes, AddFactor
  <2>2. QED
    BY <1>1, <2>1, AddsRow
<1>4. \A u : /\ CodeRows(u)' \subseteq CodeRows(u) \cup {n}
             /\ w # u => CodeRows(u)' \subseteq CodeRows(u)
  BY <1>3, RowComes
<1>5. req'[c].at = "complete" /\ \A d \in Clients : d # c => req'[d] = req[d]
  BY GotoIs DEF InsertBackupCodes
<1>6. ASSUME "codes" \notin raced' PROVE "codes" \notin raced /\ ~RacesForCodes(c) /\ CodeRows(w) = {}
  <2>1. "codes" \notin raced /\ ~RacesForCodes(c) /\ req[c].at = "insert codes"
    BY <1>6 DEF InsertBackupCodes
  <2>2. QED
    BY <1>2, <2>1 DEF OneCodeSet
<1>7. ASSUME "codes" \notin raced', NEW u \in Users PROVE \A f, g \in CodeRows(u)' : f = g
  <2>1. CASE u = w
    BY <1>4, <1>6, <1>7, <2>1
  <2>2. CASE u # w
    <3>1. \A f, g \in CodeRows(u) : f = g
      BY <1>6, <1>7 DEF OneCodeSet
    <3>2. QED
      BY <1>4, <2>2, <3>1
  <2>3. QED
    BY <2>1, <2>2
<1>8. ASSUME "codes" \notin raced', NEW d \in Clients, req'[d].at = "insert codes"
      PROVE  CodeRows(req[d].pay.user)' = {}
  <2>1. d # c /\ req'[d] = req[d] /\ req[d].at = "insert codes"
    BY <1>5, <1>8
  <2>2. PICK u : u = req[d].pay.user
    OBVIOUS
  <2>3. u # w
    BY <1>2, <1>6, <1>8, <2>1, <2>2 DEF RacesForCodes
  <2>4. CodeRows(u) = {}
    BY <1>6, <1>8, <2>1, <2>2 DEF OneCodeSet
  <2>5. CodeRows(u)' = {}
    BY <1>4, <2>3, <2>4
  <2>6. QED
    BY <2>1, <2>2, <2>5
<1>9. QED
  BY <1>7, <1>8 DEF OneCodeSet

LEMMA ReplaceBackupCodesSet ==
  ASSUME StoresInv, OneCodeSet, NEW c \in Clients, ReplaceBackupCodes(c)
  PROVE  OneCodeSet'
<1>1. CASE raced' = raced \cup {"codes"}
  BY <1>1 DEF OneCodeSet
<1>2. CASE /\ UNCHANGED <<factor, fresh, raced>> /\ Goto(c, "insert codes")
           /\ OfType(ActiveFactors(req[c].pay.user), {"backup_codes"}) = {}
  <2>1. \A u : CodeRows(u)' = CodeRows(u)
    BY <1>2, RowsSame
  <2>2. req'[c].pay = req[c].pay /\ \A d \in Clients : d # c => req'[d] = req[d]
    BY <1>2, GotoIs
  <2>3. ASSUME "codes" \notin raced', NEW d \in Clients, req'[d].at = "insert codes"
        PROVE  CodeRows(req[d].pay.user)' = {}
    <3>1. PICK u : u = req[d].pay.user
      OBVIOUS
    <3>2. req'[d].pay.user = u
      BY <2>2, <3>1
    <3>3. CodeRows(u) = {}
      <4>1. CASE d = c
        BY <1>2, <3>1, <4>1 DEF CodeRows
      <4>2. CASE d # c
        BY <1>2, <2>2, <2>3, <3>1, <4>2 DEF OneCodeSet
      <4>3. QED
        BY <4>1, <4>2
    <3>4. QED
      BY <2>1, <3>2, <3>3
  <2>4. QED
    BY <1>2, <2>1, <2>3 DEF OneCodeSet
<1>3. QED
  BY <1>1, <1>2, ReplaceBackupCodesWrites

LEMMA CodeSetStep ==
  ASSUME StoresInv, OneCodeSet, NEW c \in Clients, ClientStep(c)
  PROVE  OneCodeSet'
<1>1. CASE InsertBackupCodes(c)
  BY <1>1, InsertBackupCodesSet
<1>2. CASE ReplaceBackupCodes(c)
  BY <1>2, ReplaceBackupCodesSet
<1>3. CASE ~InsertBackupCodes(c) /\ ~ReplaceBackupCodes(c)
  <2>1. \A u : CodeRows(u)' \subseteq CodeRows(u)
    BY <1>3, OnlyWritersWrite, RowsSame, WritersSets
  <2>2. raced \subseteq raced' /\ SameInserts
    BY <1>3, RacedGrows, SameSteps
  <2>3. QED
    BY <2>1, <2>2, CodeSetStays
<1>4. QED
  BY <1>1, <1>2, <1>3

LEMMA FactorStep ==
  ASSUME StoresInv, FactorInv, [MfaNext]_vars
  PROVE  /\ FactorInv'
         /\ \A u : StrongFactors(u) # {} => StrongFactors(u)' # {} \/ "factors" \in raced'
<1>1. ASSUME NEW c \in Clients, ClientStep(c)
      PROVE  /\ FactorInv'
             /\ \A u : StrongFactors(u) # {} => StrongFactors(u)' # {} \/ "factors" \in raced'
  BY <1>1, RemovalsStep, CodeSetStep DEF FactorInv
<1>2. CASE UNCHANGED <<factor, raced, req>>
  <2>1. SameRemovals /\ SameInserts
    BY <1>2, StaysElsewhere, ElsewhereIsSame
  <2>2. RowsKept /\ \A u : StrongFactors(u)' = StrongFactors(u) /\ CodeRows(u)' = CodeRows(u)
    BY <1>2, SameRows, RowsSame
  <2>3. RemovalsLeaveOne'
    BY <1>2, <2>1, <2>2, RemovalsStay DEF FactorInv
  <2>4. OneCodeSet'
    BY <1>2, <2>1, <2>2, CodeSetStays DEF FactorInv
  <2>5. QED
    BY <2>2, <2>3, <2>4 DEF FactorInv
<1>3. QED
  BY <1>1, <1>2 DEF MfaNext, vars, observers, PrimaryLogin, ExpireUserCounters, Deactivate, CreateSession, ExpireToken,
                    ExpireOtp, ExpireFactorCounter, ExpireLock, NextTotpStep

LEMMA FactorStart ==
  ASSUME MfaInit
  PROVE  FactorInv
<1>1. load \in Workloads /\ load.enrolled \in Seq(Users \X {"totp", "passkey", "backup_codes"})
  BY MfaAssumption DEF MfaInit
<1>2. \A i, j \in DOMAIN load.enrolled :
        load.enrolled[i] = load.enrolled[j] /\ load.enrolled[i][2] = "backup_codes" => i = j
  BY <1>1, MfaAssumption
<1>3. /\ DOMAIN factor = DOMAIN load.enrolled
      /\ \A f \in DOMAIN factor : factor[f].user = load.enrolled[f][1] /\ factor[f].type = load.enrolled[f][2]
  BY DEF MfaInit
<1>4. \A u \in Users : \A f, g \in CodeRows(u) : f = g
  <2>1. ASSUME NEW u \in Users, NEW f \in CodeRows(u), NEW g \in CodeRows(u) PROVE f = g
    <3>1. /\ f \in DOMAIN load.enrolled /\ g \in DOMAIN load.enrolled
          /\ load.enrolled[f][1] = u /\ load.enrolled[g][1] = u
          /\ load.enrolled[f][2] = "backup_codes" /\ load.enrolled[g][2] = "backup_codes"
      BY <1>3 DEF CodeRows, OfType, ActiveFactors
    <3>2. load.enrolled[f] = <<u, "backup_codes">> /\ load.enrolled[g] = <<u, "backup_codes">>
      BY <1>1, <3>1
    <3>3. QED
      BY <1>2, <3>1, <3>2
  <2>2. QED
    BY <2>1
<1>5. \A c \in Clients : req[c].at = "idle"
  BY IdleIs DEF MfaInit
<1>6. QED
  BY <1>4, <1>5 DEF FactorInv, RemovalsLeaveOne, OneCodeSet

LEMMA FactorsHold == MfaSpec => [](StoresInv /\ FactorInv)
<1>1. MfaInit => StoresInv /\ FactorInv
  BY StoresStart, FactorStart
<1>2. StoresInv /\ FactorInv /\ [MfaNext]_vars => (StoresInv /\ FactorInv)'
  BY StoresStep, FactorStep
<1>3. QED
  BY <1>1, <1>2, PTL DEF MfaSpec

LEMMA OneAtMost ==
  ASSUME NEW S, \A f, g \in S : f = g
  PROVE  Cardinality(S) <= 1
<1>1. CASE S = {}
  BY <1>1, FS_EmptySet
<1>2. ASSUME NEW x \in S PROVE Cardinality(S) <= 1
  <2>1. S = {x}
    OBVIOUS
  <2>2. QED
    BY <2>1, FS_Singleton
<1>3. QED
  BY <1>1, <1>2

\* revoke_factor leaves a user with an authenticator or a passkey another one, and
\* _ensure_backup_codes leaves nobody with two sets of backup codes, for any number of
\* requests, unless two of them decided on what they had read before: the rows are not locked
\* between the reading and the writing.
THEOREM UsersKeepAFactor == MfaSpec => FactorsUnlessRaced
<1>1. ASSUME StoresInv, FactorInv, [MfaNext]_vars, FactorInv', NEW u \in Users
      PROVE  /\ StrongFactors(u) # {} => StrongFactors(u)' # {} \/ "factors" \in raced'
             /\ Cardinality(OfType(ActiveFactors(u), {"backup_codes"})') <= 1 \/ "codes" \in raced'
  <2>1. CASE "codes" \in raced'
    BY <1>1, <2>1, FactorStep
  <2>2. CASE "codes" \notin raced'
    <3>1. \A f, g \in CodeRows(u)' : f = g
      BY <1>1, <2>2 DEF FactorInv, OneCodeSet
    <3>2. Cardinality(CodeRows(u)') <= 1
      BY <3>1, OneAtMost
    <3>3. QED
      BY <1>1, <3>2, FactorStep DEF CodeRows
  <2>3. QED
    BY <2>1, <2>2
<1>2. StoresInv /\ FactorInv /\ [MfaNext]_vars /\ (StoresInv /\ FactorInv)' =>
        [\A u \in Users :
           /\ StrongFactors(u) # {} => StrongFactors(u)' # {} \/ "factors" \in raced'
           /\ Cardinality(OfType(ActiveFactors(u), {"backup_codes"})') <= 1 \/ "codes" \in raced']_vars
  BY <1>1
<1>3. QED
  BY <1>2, FactorsHold, PTL DEF MfaSpec, FactorsUnlessRaced
-----------------------------------------------------------------------------
(***************************************************************************)
(* The counters of wrong codes.                                            *)
(***************************************************************************)
\* A step of c that neither counts nor locks, nor leaves a lock undone.
Uncounted(c) ==
  /\ req[c].at # "lock"
  /\ \A f \in DOMAIN factor : fails'[f] = fails[f] /\ lock'[f] = lock[f]
Moves(c) == req' = req \/ \E r : Step(c, r)

LEMMA OthersStay ==
  ASSUME StoresInv, NEW c \in Clients, Moves(c)
  PROVE  \A d \in Clients : d # c => req'[d] = req[d]
BY StepMoves DEF Moves, StoresInv

LEMMA AddsCounter ==
  ASSUME StoresInv, fails' = Append(fails, 0), lock' = Append(lock, "open")
  PROVE  \A f \in DOMAIN factor : fails'[f] = fails[f] /\ lock'[f] = lock[f]
<1>1. DOMAIN fails = DOMAIN factor /\ DOMAIN lock = DOMAIN factor
  BY StoresAre
<1>2. fails \in Seq(Nat) /\ lock \in Seq({"open", "locked", "fading"})
  BY DEF StoresInv, FactorTables
<1>3. \A f \in DOMAIN fails : fails'[f] = fails[f]
  BY <1>2
<1>4. \A f \in DOMAIN lock : lock'[f] = lock[f]
  BY <1>2
<1>5. QED
  BY <1>1, <1>3, <1>4

LEMMA OthersDoNotCount ==
  ASSUME StoresInv, NEW c \in Clients, ClientStep(c)
  PROVE  /\ load' = load /\ Moves(c)
         /\ CountFactorFailure(c) \/ LockFactor(c) \/ Stop(c) \/ Uncounted(c)
<1>1. CASE TakeWorkflow(c)
  BY <1>1 DEF TakeWorkflow, Taking, Uncounted, Moves, Refuse, Goto, redis, observers
<1>2. CASE RevokeRow(c)
  BY <1>2 DEF RevokeRow, Uncounted, Moves, Refuse, Goto, redis, observers
<1>3. CASE StoreOtp(c)
  BY <1>3 DEF StoreOtp, Uncounted, Moves, Refuse, Goto, redis, observers
<1>4. CASE Deliver(c)
  BY <1>4 DEF Deliver, Uncounted, Moves, Refuse, Goto, redis, observers
<1>5. CASE DeliveryFails(c)
  BY <1>5 DEF DeliveryFails, Uncounted, Moves, Refuse, Goto, redis, observers
<1>6. CASE StoreChallenge(c)
  BY <1>6 DEF StoreChallenge, Uncounted, Moves, Refuse, Goto, redis, observers
<1>7. CASE CompareTotp(c)
  BY <1>7 DEF CompareTotp, Uncounted, Moves, Refuse, Goto, redis, observers
<1>8. CASE AdvanceTotpStep(c)
  BY <1>8 DEF AdvanceTotpStep, Uncounted, Moves, Refuse, Goto, redis, observers
<1>9. CASE CheckOtp(c)
  BY <1>9 DEF CheckOtp, Uncounted, Moves, Refuse, Goto, redis, observers
<1>10. CASE CheckBackupCode(c)
  BY <1>10 DEF CheckBackupCode, Uncounted, Moves, Refuse, Goto, redis, observers
<1>11. CASE CountFactorFailure(c)
  BY <1>11 DEF CountFactorFailure, Moves, Refuse, Goto, observers
<1>12. CASE LockFactor(c)
  BY <1>12 DEF LockFactor, Moves, Refuse, Goto, observers
<1>13. CASE CountChallengeFailure(c)
  BY <1>13 DEF CountChallengeFailure, Uncounted, Moves, Refuse, Goto, redis, observers
<1>14. CASE DeleteChallenge(c)
  BY <1>14 DEF DeleteChallenge, Uncounted, Moves, Refuse, Goto, redis, observers
<1>15. CASE TakeChallenge(c)
  BY <1>15 DEF TakeChallenge, Uncounted, Moves, Refuse, Goto, redis, observers
<1>16. CASE Complete(c)
  BY <1>16 DEF Complete, Uncounted, Moves, Refuse, Goto, redis, observers
<1>17. CASE SelectPending(c)
  BY <1>17 DEF SelectPending, Uncounted, Moves, Refuse, Goto, redis, observers
<1>18. CASE InsertPending(c)
  BY <1>18, AddsCounter DEF InsertPending, AddFactor, Uncounted, Moves, Refuse, Goto, observers
<1>19. CASE ActivateTotp(c)
  BY <1>19 DEF ActivateTotp, Uncounted, Moves, Refuse, Goto, redis, observers
<1>20. CASE EnsureBackupCodes(c)
  BY <1>20 DEF EnsureBackupCodes, Uncounted, Moves, Refuse, Goto, redis, observers
<1>21. CASE ReplaceBackupCodes(c)
  BY <1>21 DEF ReplaceBackupCodes, Uncounted, Moves, Refuse, Goto, redis, observers
<1>22. CASE InsertBackupCodes(c)
  BY <1>22, AddsCounter DEF InsertBackupCodes, AddFactor, Uncounted, Moves, Refuse, Goto, observers
<1>23. CASE CreatePasskey(c)
  BY <1>23, AddsCounter DEF CreatePasskey, AddFactor, Uncounted, Moves, Refuse, Goto, observers
<1>24. CASE CheckAssertion(c)
  BY <1>24 DEF CheckAssertion, Uncounted, Moves, Refuse, Goto, redis, observers
<1>25. CASE UpdatePasskeyCounter(c)
  BY <1>25 DEF UpdatePasskeyCounter, Uncounted, Moves, Refuse, Goto, redis, observers
<1>26. CASE Stop(c)
  BY <1>26 DEF Stop, Moves, Refuse, Goto, observers
<1>27. CASE PasskeyPrimaryOptions(c)
  BY <1>27, IdleIs DEF PasskeyPrimaryOptions, Uncounted, Moves, Refuse, Goto, redis, observers
<1>28. ASSUME NEW t, SetupTotp(c, t) PROVE load' = load /\ Moves(c) /\ Uncounted(c)
  BY <1>28, IdleIs DEF SetupTotp, OpenWorkflow, Uncounted, Moves, redis, observers
<1>29. ASSUME NEW t, PasskeyRegistrationOptions(c, t) PROVE load' = load /\ Moves(c) /\ Uncounted(c)
  BY <1>29, IdleIs DEF PasskeyRegistrationOptions, OpenWorkflow, Uncounted, Moves, redis, observers
<1>30. ASSUME NEW t, PasskeyAuthenticationOptions(c, t) PROVE load' = load /\ Moves(c) /\ Uncounted(c)
  BY <1>30, IdleIs DEF PasskeyAuthenticationOptions, OpenWorkflow, Uncounted, Moves, redis, observers
<1>31. ASSUME NEW t, ProveCollisionPassword(c, t) PROVE load' = load /\ Moves(c) /\ Uncounted(c)
  BY <1>31, IdleIs DEF ProveCollisionPassword, OpenWorkflow, Uncounted, Moves, redis, observers
<1>32. ASSUME NEW t, ResendChallenge(c, t) PROVE load' = load /\ Moves(c) /\ Uncounted(c)
  BY <1>32, IdleIs DEF ResendChallenge, Uncounted, Moves, redis, observers
<1>33. ASSUME NEW t, ConfirmPasskeyRegistration(c, t) PROVE load' = load /\ Moves(c) /\ Uncounted(c)
  BY <1>33, IdleIs DEF ConfirmPasskeyRegistration, TakeWebAuthn, Uncounted, Moves, redis, observers
<1>34. ASSUME NEW t, NEW m, IssueChallenge(c, t, m) PROVE load' = load /\ Moves(c) /\ Uncounted(c)
  BY <1>34, IdleIs DEF IssueChallenge, OpenWorkflow, Uncounted, Moves, redis, observers
<1>35. ASSUME NEW t, NEW f, RevokeFactor(c, t, f) PROVE load' = load /\ Moves(c) /\ Uncounted(c)
  BY <1>35, IdleIs DEF RevokeFactor, OpenWorkflow, Uncounted, Moves, redis, observers
<1>36. ASSUME NEW t, NEW f, NEW k, VerifyPasskey(c, t, f, k) PROVE load' = load /\ Moves(c) /\ Uncounted(c)
  BY <1>36, IdleIs DEF VerifyPasskey, TakeWebAuthn, Uncounted, Moves, redis, observers
<1>37. ASSUME NEW t, NEW code, VerifyChallenge(c, t, code) PROVE load' = load /\ Moves(c) /\ Uncounted(c)
  BY <1>37, IdleIs DEF VerifyChallenge, Uncounted, Moves, redis, observers
<1>38. ASSUME NEW t, NEW code, ConfirmTotp(c, t, code) PROVE load' = load /\ Moves(c) /\ Uncounted(c)
  BY <1>38, IdleIs DEF ConfirmTotp, Uncounted, Moves, redis, observers
<1>39. QED
  BY <1>1, <1>2, <1>3, <1>4, <1>5, <1>6, <1>7, <1>8, <1>9, <1>10, <1>11, <1>12, <1>13, <1>14, <1>15, <1>16, <1>17, <1>18, <1>19, <1>20, <1>21, <1>22, <1>23, <1>24, <1>25, <1>26, <1>27, <1>28, <1>29, <1>30, <1>31, <1>32, <1>33, <1>34, <1>35, <1>36, <1>37, <1>38 DEF ClientStep

LEMMA Sizes ==
  ASSUME IsFiniteSet(Clients), NEW S \in SUBSET Clients
  PROVE  /\ IsFiniteSet(S) /\ Cardinality(S) \in Nat /\ Cardinality(Clients) \in Nat
         /\ Cardinality(S) <= Cardinality(Clients)
<1>1. IsFiniteSet(S) /\ Cardinality(S) <= Cardinality(Clients)
  BY FS_Subset
<1>2. QED
  BY <1>1, FS_CardinalityType

LEMMA SubSizes ==
  ASSUME IsFiniteSet(Clients), NEW S \in SUBSET Clients, NEW T \in SUBSET S
  PROVE  Cardinality(T) <= Cardinality(S)
<1>1. IsFiniteSet(S)
  BY Sizes
<1>2. QED
  BY <1>1, FS_Subset

LEMMA LimitIs == FailureLimit \in Nat /\ FailureLimit - 1 \in Nat
<1>1. FailureLimit \in Nat \ {0}
  BY MfaAssumption
<1>2. QED
  BY <1>1

\* Nobody less will lock, and while there is a lock nobody more will count.
LEMMA CounterStays ==
  ASSUME IsFiniteSet(Clients), StoresInv, NEW f \in DOMAIN factor, CounterHolds(f), factor'[f].status # "pending",
         fails'[f] = fails[f], lock'[f] = "locked" <=> lock[f] = "locked",
         lock[f] = "locked" => \A d \in Clients : Counts(req[d], f)' => Counts(req[d], f),
         \A d \in Clients : Locks(req[d], f) => Locks(req[d], f)'
  PROVE  CounterHolds(f)'
<1>1. PICK C, D, L, M : C = WillCount(f) /\ D = WillCount(f)' /\ L = WillLock(f) /\ M = WillLock(f)'
  OBVIOUS
<1>2. C \in SUBSET Clients /\ D \in SUBSET Clients /\ M \in SUBSET Clients /\ L \in SUBSET M
  BY <1>1 DEF WillCount, WillLock
<1>3. Cardinality(L) <= Cardinality(M)
  BY <1>2, SubSizes
<1>4. /\ Cardinality(C) \in Nat /\ Cardinality(D) \in Nat /\ Cardinality(L) \in Nat /\ Cardinality(M) \in Nat
      /\ Cardinality(Clients) \in Nat
  BY <1>2, Sizes
<1>5. fails[f] \in Nat /\ FailureLimit - 1 \in Nat
  BY StoresAre, LimitIs
<1>6. CASE lock[f] # "locked"
  <2>1. fails[f] <= FailureLimit - 1 + Cardinality(L)
    BY <1>1, <1>6 DEF CounterHolds
  <2>2. fails'[f] <= FailureLimit - 1 + Cardinality(M)
    BY <1>3, <1>4, <1>5, <2>1
  <2>3. QED
    BY <1>1, <1>6, <2>2 DEF CounterHolds
<1>7. CASE lock[f] = "locked"
  <2>1. fails[f] + Cardinality(C) <= FailureLimit - 1 + Cardinality(Clients)
    BY <1>1, <1>7 DEF CounterHolds
  <2>2. D \in SUBSET C
    BY <1>1, <1>7 DEF WillCount
  <2>3. Cardinality(D) <= Cardinality(C)
    BY <1>2, <2>2, SubSizes
  <2>4. fails'[f] + Cardinality(D) <= FailureLimit - 1 + Cardinality(Clients)
    BY <1>4, <1>5, <2>1, <2>3
  <2>5. QED
    BY <1>1, <1>7, <2>4 DEF CounterHolds
<1>8. QED
  BY <1>6, <1>7

\* A counter that starts again holds.
LEMMA CounterForgotten ==
  ASSUME IsFiniteSet(Clients), NEW f, factor'[f].status # "pending", fails'[f] = 0, lock'[f] # "locked"
  PROVE  CounterHolds(f)'
<1>1. PICK M : M = WillLock(f)'
  OBVIOUS
<1>2. M \in SUBSET Clients
  BY <1>1 DEF WillLock
<1>3. Cardinality(M) \in Nat /\ FailureLimit - 1 \in Nat
  BY <1>2, Sizes, LimitIs
<1>4. fails'[f] <= FailureLimit - 1 + Cardinality(M)
  BY <1>3
<1>5. QED
  BY <1>1, <1>4 DEF CounterHolds

\* The request c counts for f once, and will lock it if the limit is reached.
LEMMA CounterRises ==
  ASSUME IsFiniteSet(Clients), StoresInv, NEW f \in DOMAIN factor, CounterHolds(f), NEW c \in Clients,
         factor'[f].status # "pending", fails'[f] = fails[f] + 1, lock'[f] = lock[f],
         Counts(req[c], f), ~Counts(req[c], f)', ~Locks(req[c], f),
         fails[f] + 1 >= FailureLimit => Locks(req[c], f)',
         \A d \in Clients : d # c => req'[d] = req[d]
  PROVE  CounterHolds(f)'
<1>1. PICK C, D, L, M : C = WillCount(f) /\ D = WillCount(f)' /\ L = WillLock(f) /\ M = WillLock(f)'
  OBVIOUS
<1>2. \A d \in Clients : d # c => (Counts(req[d], f)' <=> Counts(req[d], f)) /\ (Locks(req[d], f)' <=> Locks(req[d], f))
  BY DEF Counts, Locks
<1>3. C \in SUBSET Clients /\ M \in SUBSET Clients /\ L \in SUBSET Clients /\ c \in C /\ D = C \ {c}
  BY <1>1, <1>2 DEF WillCount, WillLock
<1>4. /\ IsFiniteSet(C) /\ IsFiniteSet(L) /\ Cardinality(C) \in Nat /\ Cardinality(L) \in Nat
      /\ Cardinality(M) \in Nat /\ Cardinality(Clients) \in Nat
  BY <1>3, Sizes
<1>5. Cardinality(D) = Cardinality(C) - 1
  BY <1>3, <1>4, FS_RemoveElement
<1>6. fails[f] \in Nat /\ FailureLimit - 1 \in Nat /\ FailureLimit \in Nat
  BY StoresAre, LimitIs
<1>7. CASE lock[f] = "locked"
  <2>1. fails[f] + Cardinality(C) <= FailureLimit - 1 + Cardinality(Clients)
    BY <1>1, <1>7 DEF CounterHolds
  <2>2. fails'[f] + Cardinality(D) <= FailureLimit - 1 + Cardinality(Clients)
    BY <1>4, <1>5, <1>6, <2>1
  <2>3. QED
    BY <1>1, <1>7, <2>2 DEF CounterHolds
<1>8. CASE lock[f] # "locked"
  <2>1. fails[f] <= FailureLimit - 1 + Cardinality(L)
    BY <1>1, <1>8 DEF CounterHolds
  <2>2. fails'[f] <= FailureLimit - 1 + Cardinality(M)
    <3>1. CASE fails[f] + 1 >= FailureLimit
      <4>1. M = L \cup {c} /\ c \notin L
        BY <1>1, <1>2, <3>1 DEF WillLock
      <4>2. Cardinality(M) = Cardinality(L) + 1
        BY <1>4, <4>1, FS_AddElement
      <4>3. QED
        BY <1>4, <1>6, <2>1, <4>2
    <3>2. CASE ~(fails[f] + 1 >= FailureLimit)
      BY <1>4, <1>6, <3>2
    <3>3. QED
      BY <3>1, <3>2
  <2>3. QED
    BY <1>1, <1>8, <2>2 DEF CounterHolds
<1>9. QED
  BY <1>7, <1>8

\* Those who will count and those who will lock are different requests.
LEMMA CountOrLock ==
  ASSUME IsFiniteSet(Clients), NEW f
  PROVE  Cardinality(WillCount(f)) + Cardinality(WillLock(f)) <= Cardinality(Clients)
<1>1. PICK C, L : C = WillCount(f) /\ L = WillLock(f)
  OBVIOUS
<1>2. C \in SUBSET Clients /\ L \in SUBSET Clients /\ C \cup L \in SUBSET Clients /\ C \cap L = {}
  BY <1>1 DEF WillCount, WillLock, Counts, Locks
<1>3. IsFiniteSet(C) /\ IsFiniteSet(L) /\ Cardinality(C) \in Nat /\ Cardinality(L) \in Nat
  BY <1>2, Sizes
<1>4. Cardinality(C \cup L) <= Cardinality(Clients) /\ Cardinality(Clients) \in Nat
  BY <1>2, Sizes
<1>5. Cardinality(C \cup L) = Cardinality(C) + Cardinality(L) - Cardinality(C \cap L)
  BY <1>3, FS_Union
<1>6. Cardinality(C \cap L) = 0
  BY <1>2, FS_EmptySet
<1>7. QED
  BY <1>1, <1>3, <1>4, <1>5, <1>6
LEMMA CountFactorFailureCounts ==
  ASSUME IsFiniteSet(Clients), StoresInv, NEW c \in Clients, CountFactorFailure(c), NEW f \in DOMAIN factor,
         CounterHolds(f), factor'[f].status # "pending"
  PROVE  CounterHolds(f)'
<1>1. PICK g : g = req[c].fac
  OBVIOUS
<1>2. req[c].at = "count" /\ fails' = [fails EXCEPT ![g] = fails[g] + 1] /\ lock' = lock
  BY <1>1 DEF CountFactorFailure
<1>3. f \in DOMAIN fails
  BY StoresAre
<1>4. /\ \A d \in Clients : d # c => req'[d] = req[d]
      /\ IF fails[g] + 1 >= FailureLimit THEN req'[c].at = "lock" /\ req'[c].fac = g ELSE req'[c].at = "idle"
  <2>1. ASSUME Goto(c, "lock")
        PROVE  req'[c].at = "lock" /\ req'[c].fac = g /\ \A d \in Clients : d # c => req'[d] = req[d]
    BY <1>1, <2>1, GotoIs
  <2>2. ASSUME Refuse(c) PROVE req'[c].at = "idle" /\ \A d \in Clients : d # c => req'[d] = req[d]
    BY <2>2, RefuseIs
  <2>3. QED
    BY <1>1, <2>1, <2>2 DEF CountFactorFailure
<1>5. ~Counts(req[c], f)' /\ ~Locks(req[c], f)
  BY <1>2, <1>4 DEF Counts, Locks
<1>6. CASE g = f
  <2>1. fails'[f] = fails[f] + 1 /\ lock'[f] = lock[f]
    BY <1>2, <1>3, <1>6
  <2>2. Counts(req[c], f)
    BY <1>1, <1>2, <1>6 DEF Counts
  <2>3. fails[f] + 1 >= FailureLimit => Locks(req[c], f)'
    BY <1>4, <1>6 DEF Locks
  <2>4. QED
    BY <1>4, <1>5, <2>1, <2>2, <2>3, CounterRises
<1>7. CASE g # f
  <2>1. fails'[f] = fails[f] /\ (lock'[f] = "locked" <=> lock[f] = "locked")
    BY <1>2, <1>3, <1>7
  <2>2. \A d \in Clients : Counts(req[d], f)' => Counts(req[d], f)
    BY <1>4, <1>5 DEF Counts
  <2>3. \A d \in Clients : Locks(req[d], f) => Locks(req[d], f)'
    BY <1>4, <1>5 DEF Locks
  <2>4. QED
    BY <2>1, <2>2, <2>3, CounterStays
<1>8. QED
  BY <1>6, <1>7

LEMMA LockFactorCounts ==
  ASSUME IsFiniteSet(Clients), StoresInv, NEW c \in Clients, LockFactor(c), NEW f \in DOMAIN factor,
         CounterHolds(f), factor'[f].status # "pending"
  PROVE  CounterHolds(f)'
<1>1. PICK g, l : g = req[c].fac /\ l = (IF fails[g] = 0 THEN "fading" ELSE "locked")
  OBVIOUS
<1>2. req[c].at = "lock" /\ lock' = [lock EXCEPT ![g] = l] /\ fails' = fails
  BY <1>1 DEF LockFactor
<1>3. f \in DOMAIN lock
  BY StoresAre
<1>4. req'[c].at = "idle" /\ \A d \in Clients : d # c => req'[d] = req[d]
  BY RefuseIs DEF LockFactor
<1>5. \A d \in Clients : Counts(req[d], f)' => Counts(req[d], f)
  BY <1>4 DEF Counts
<1>6. CASE g # f
  <2>1. fails'[f] = fails[f] /\ (lock'[f] = "locked" <=> lock[f] = "locked")
    BY <1>2, <1>3, <1>6
  <2>2. \A d \in Clients : Locks(req[d], f) => Locks(req[d], f)'
    BY <1>1, <1>4, <1>6 DEF Locks
  <2>3. QED
    BY <1>5, <2>1, <2>2, CounterStays
<1>7. CASE g = f /\ fails[f] = 0
  <2>1. fails'[f] = 0 /\ lock'[f] # "locked"
    BY <1>1, <1>2, <1>3, <1>7
  <2>2. QED
    BY <2>1, CounterForgotten
<1>8. CASE g = f /\ fails[f] # 0
  <2>1. fails'[f] = fails[f] /\ lock'[f] = "locked"
    BY <1>1, <1>2, <1>3, <1>8
  <2>2. PICK C, D, L : C = WillCount(f) /\ D = WillCount(f)' /\ L = WillLock(f)
    OBVIOUS
  <2>3. C \in SUBSET Clients /\ D \in SUBSET C /\ D \in SUBSET Clients /\ L \in SUBSET Clients
    BY <1>5, <2>2 DEF WillCount, WillLock
  <2>4. /\ Cardinality(D) <= Cardinality(C) /\ Cardinality(C) \in Nat /\ Cardinality(D) \in Nat
        /\ Cardinality(L) \in Nat /\ Cardinality(Clients) \in Nat
    BY <2>3, Sizes, SubSizes
  <2>5. Cardinality(C) + Cardinality(L) <= Cardinality(Clients)
    BY <2>2, CountOrLock
  <2>6. fails[f] \in Nat /\ FailureLimit - 1 \in Nat
    BY StoresAre, LimitIs
  <2>7. fails[f] + Cardinality(C) <= FailureLimit - 1 + Cardinality(Clients)
    <3>1. CASE lock[f] = "locked"
      BY <2>2, <3>1 DEF CounterHolds
    <3>2. CASE lock[f] # "locked"
      <4>1. fails[f] <= FailureLimit - 1 + Cardinality(L)
        BY <2>2, <3>2 DEF CounterHolds
      <4>2. QED
        BY <2>4, <2>5, <2>6, <4>1
    <3>3. QED
      BY <3>1, <3>2
  <2>8. fails'[f] + Cardinality(D) <= FailureLimit - 1 + Cardinality(Clients)
    BY <2>1, <2>4, <2>6, <2>7
  <2>9. QED
    BY <2>1, <2>2, <2>8 DEF CounterHolds
<1>9. QED
  BY <1>6, <1>7, <1>8

\* A request joins those that will count only for an authenticator that is not locked: the
\* lock is asked for before the code is compared.
LEMMA NobodyJoins ==
  ASSUME StoresInv, NEW c \in Clients, ClientStep(c), NEW f \in DOMAIN factor, factor[f].status # "pending",
         lock[f] = "locked", Counts(req[c], f)', ~CountFactorFailure(c)
  PROVE  Counts(req[c], f)
<1>1. req'[c].at \in {"totp", "advance", "count"} /\ req'[c].fac = f
  BY DEF Counts
<1>2. req[c] \in RequestState /\ Requests
  BY StoresAre DEF StoresInv
<1>3. CASE Elsewhere
  BY <1>1, <1>3 DEF Elsewhere, Watched, Counts
<1>4. CASE TakeWorkflow(c)
  <2>1. CASE Refuse(c)
    BY <1>1, <2>1, RefuseIs
  <2>2. CASE Step(c, [req[c] EXCEPT !.at = NextAfter(c), !.pay = token[req[c].tok].pay])
    <3>1. PICK r : r = [req[c] EXCEPT !.at = NextAfter(c), !.pay = token[req[c].tok].pay]
      OBVIOUS
    <3>2. r.at = NextAfter(c) /\ req'[c] = r
      BY <1>2, <2>2, <3>1, StepMoves DEF RequestState
    <3>3. PICK l, n : l = req[c].at /\ n = NextAfter(c)
      OBVIOUS
    <3>4. l \in {"revoke", "setup", "challenge", "register", "authenticate", "prove"}
      BY <1>4, <3>3 DEF Taking, TakeWorkflow
    <3>5. n \in {"revoke row", "pending row", "send", "store", "complete"}
      <4>1. req[c].at \in Taking
        BY <1>4 DEF TakeWorkflow
      <4>2. /\ l = "revoke" => n = "revoke row"
            /\ l = "setup" => n = "pending row"
            /\ l = "challenge" => n \in {"send", "store"}
            /\ l \in {"register", "authenticate"} => n = "store"
            /\ l = "prove" => n = "complete"
        BY <3>3, <4>1, NextAfterIs
      <4>3. QED
        BY <3>4, <4>2
    <3>6. QED
      BY <1>1, <3>2, <3>3, <3>5
  <2>3. QED
    BY <1>4, <2>1, <2>2 DEF TakeWorkflow
<1>5. CASE ReplaceBackupCodes(c)
  <2>1. ASSUME NEW l \in {"insert codes", "complete"}, Goto(c, l) PROVE FALSE
    <3>1. req'[c].at = l
      BY <2>1, GotoIs
    <3>2. QED
      BY <1>1, <2>1, <3>1
  <2>2. QED
    BY <1>5, <2>1, ReplaceBackupCodesWrites
<1>6. CASE CompareTotp(c)
  <2>1. req[c].at = "totp"
    BY <1>6 DEF CompareTotp
  <2>2. PICK r, x, n : x \in {"advance", "count"} /\ r = [req[c] EXCEPT !.at = x, !.seen = n] /\ Step(c, r)
    BY <1>6 DEF CompareTotp
  <2>3. r.fac = req[c].fac /\ req'[c] = r
    BY <1>2, <2>2, StepMoves DEF RequestState
  <2>4. QED
    BY <1>1, <2>1, <2>3 DEF Counts
<1>7. CASE AdvanceTotpStep(c)
  <2>1. req[c].at = "advance"
    BY <1>7 DEF AdvanceTotpStep
  <2>2. req'[c].fac = req[c].fac
    BY <1>7, GotoIs DEF AdvanceTotpStep
  <2>3. QED
    BY <1>1, <2>1, <2>2 DEF Counts
<1>8. ASSUME NEW t \in DOMAIN token, NEW g \in DOMAIN factor, RevokeFactor(c, t, g) PROVE FALSE
  <2>1. PICK r : r = [Reading(t) EXCEPT !.at = "revoke", !.fac = g]
    OBVIOUS
  <2>2. r.at = "revoke"
    BY <2>1 DEF Reading, Idle
  <2>3. req'[c] = r
    BY <1>2, <1>8, <2>1, StepMoves DEF RevokeFactor
  <2>4. QED
    BY <1>1, <2>2, <2>3
<1>9. ASSUME NEW t \in DOMAIN token, NEW code, VerifyChallenge(c, t, code) PROVE FALSE
  <2>1. PICK r : r = [Reading(t) EXCEPT !.at = token[t].method, !.fac = token[t].fac, !.code = code]
    OBVIOUS
  <2>2. r.at = token[t].method /\ r.fac = token[t].fac
    BY <2>1 DEF Reading, Idle
  <2>3. req'[c] = r
    BY <1>2, <1>9, <2>1, StepMoves DEF VerifyChallenge
  <2>4. token[t].method \in VerifyMethods
    BY <1>9, StoresAre DEF VerifyChallenge, Live, GoodToken
  <2>5. token[t].method = "totp" /\ token[t].fac = f
    BY <1>1, <2>2, <2>3, <2>4 DEF VerifyMethods
  <2>6. QED
    BY <1>9, <2>5 DEF VerifyChallenge
<1>10. ASSUME NEW t \in DOMAIN token, NEW code, ConfirmTotp(c, t, code) PROVE FALSE
  <2>1. PICK r : r = [Reading(t) EXCEPT !.at = IF AcceptsStep(0, code) THEN "activate" ELSE "count",
                               !.fac = token[t].fac, !.code = code]
    OBVIOUS
  <2>2. r.fac = token[t].fac
    BY <2>1 DEF Reading, Idle
  <2>3. req'[c] = r
    BY <1>2, <1>10, <2>1, StepMoves DEF ConfirmTotp
  <2>4. QED
    BY <1>1, <1>10, <2>2, <2>3 DEF ConfirmTotp
<1>11. QED
  BY <1>3, <1>4, <1>5, <1>6, <1>7, <1>8, <1>9, <1>10, OtherSteps

LEMMA EnrolledAreRows ==
  ASSUME StoresInv, NEW f \in DOMAIN load.enrolled
  PROVE  f \in DOMAIN factor
<1>1. load.enrolled \in Seq(Users \X {"totp", "passkey", "backup_codes"}) /\ Len(load.enrolled) <= Len(factor)
  BY MfaAssumption DEF StoresInv, FactorTables
<1>2. DOMAIN factor = 1..Len(factor) /\ Len(factor) \in Nat
  BY StoresAre
<1>3. QED
  BY <1>1, <1>2

LEMMA CountersClientStep ==
  ASSUME IsFiniteSet(Clients), StoresInv, CountersInv, NEW c \in Clients, ClientStep(c)
  PROVE  CountersInv'
<1>1. load' = load /\ Moves(c) /\ (CountFactorFailure(c) \/ LockFactor(c) \/ Stop(c) \/ Uncounted(c))
  BY OthersDoNotCount
<1>2. RowsKept
  BY RowsStep DEF MfaNext
<1>3. ASSUME "stop" \notin load.requests, NEW f \in DOMAIN load.enrolled PROVE CounterHolds(f)'
  <2>1. f \in DOMAIN factor /\ CounterHolds(f)
    BY <1>3, EnrolledAreRows DEF CountersInv
  <2>2. factor[f].status # "pending" /\ factor'[f].status # "pending"
    <3>1. factor[f].status # "pending"
      BY <2>1 DEF CounterHolds
    <3>2. factor[f] \in FactorRow
      BY <2>1, StoresAre
    <3>3. factor[f].status \in {"active", "revoked"}
      BY <3>1, <3>2 DEF FactorRow
    <3>4. QED
      BY <1>2, <2>1, <3>1, <3>3 DEF RowsKept, RowKept
  <2>3. CASE CountFactorFailure(c)
    BY <2>1, <2>2, <2>3, CountFactorFailureCounts
  <2>4. CASE LockFactor(c)
    BY <2>1, <2>2, <2>4, LockFactorCounts
  <2>5. CASE Uncounted(c) /\ ~CountFactorFailure(c)
    <3>1. \A d \in Clients : d # c => req'[d] = req[d]
      BY <1>1, OthersStay
    <3>2. fails'[f] = fails[f] /\ lock'[f] = lock[f] /\ req[c].at # "lock"
      BY <2>1, <2>5 DEF Uncounted
    <3>3. \A d \in Clients : Locks(req[d], f) => Locks(req[d], f)'
      BY <3>1, <3>2 DEF Locks
    <3>4. ASSUME lock[f] = "locked", NEW d \in Clients, Counts(req[d], f)' PROVE Counts(req[d], f)
      <4>1. CASE d = c
        BY <2>1, <2>2, <2>5, <3>4, <4>1, NobodyJoins
      <4>2. CASE d # c
        BY <3>1, <3>4, <4>2 DEF Counts
      <4>3. QED
        BY <4>1, <4>2
    <3>5. QED
      BY <2>1, <2>2, <3>2, <3>3, <3>4, CounterStays
  <2>6. CASE Stop(c)
    BY <1>3, <2>6 DEF Stop
  <2>7. QED
    BY <1>1, <2>3, <2>4, <2>5, <2>6
<1>4. QED
  BY <1>1, <1>3 DEF CountersInv
\* Time takes counters and locks away, and nothing else touches them.
LEMMA CountersElsewhere ==
  ASSUME IsFiniteSet(Clients), StoresInv, CountersInv, UNCHANGED <<factor, load, req>>,
         \A f \in DOMAIN factor :
           \/ fails'[f] = fails[f] /\ (lock'[f] = "locked" <=> lock[f] = "locked")
           \/ fails'[f] = 0 /\ lock'[f] # "locked"
  PROVE  CountersInv'
<1>1. ASSUME "stop" \notin load.requests, NEW f \in DOMAIN load.enrolled PROVE CounterHolds(f)'
  <2>1. f \in DOMAIN factor /\ CounterHolds(f)
    BY <1>1, EnrolledAreRows DEF CountersInv
  <2>2. factor'[f].status # "pending"
    BY <2>1 DEF CounterHolds
  <2>3. CASE fails'[f] = 0 /\ lock'[f] # "locked"
    BY <2>2, <2>3, CounterForgotten
  <2>4. CASE fails'[f] = fails[f] /\ (lock'[f] = "locked" <=> lock[f] = "locked")
    <3>1. \A d \in Clients : /\ Counts(req[d], f)' => Counts(req[d], f)
                             /\ Locks(req[d], f) => Locks(req[d], f)'
      BY DEF Counts, Locks
    <3>2. QED
      BY <2>1, <2>2, <2>4, <3>1, CounterStays
  <2>5. QED
    BY <2>1, <2>3, <2>4
<1>2. QED
  BY <1>1 DEF CountersInv

LEMMA CountersStep ==
  ASSUME IsFiniteSet(Clients), StoresInv, CountersInv, [MfaNext]_vars
  PROVE  CountersInv'
<1>1. ASSUME NEW c \in Clients, ClientStep(c) PROVE CountersInv'
  BY <1>1, CountersClientStep
<1>2. ASSUME NEW f \in DOMAIN factor, ExpireFactorCounter(f) PROVE CountersInv'
  <2>1. /\ UNCHANGED <<factor, load, req>> /\ fails' = [fails EXCEPT ![f] = 0]
        /\ lock' = [lock EXCEPT ![f] = IF lock[f] = "locked" THEN "fading" ELSE lock[f]]
    BY <1>2 DEF ExpireFactorCounter, observers
  <2>2. DOMAIN fails = DOMAIN factor /\ DOMAIN lock = DOMAIN factor
    BY StoresAre
  <2>3. \A g \in DOMAIN factor :
          \/ fails'[g] = fails[g] /\ (lock'[g] = "locked" <=> lock[g] = "locked")
          \/ fails'[g] = 0 /\ lock'[g] # "locked"
    BY <2>1, <2>2
  <2>4. QED
    BY <2>1, <2>3, CountersElsewhere
<1>3. ASSUME NEW f \in DOMAIN factor, ExpireLock(f) PROVE CountersInv'
  <2>1. UNCHANGED <<factor, load, req, fails>> /\ lock[f] = "fading" /\ lock' = [lock EXCEPT ![f] = "open"]
    BY <1>3 DEF ExpireLock, observers
  <2>2. DOMAIN fails = DOMAIN factor /\ DOMAIN lock = DOMAIN factor
    BY StoresAre
  <2>3. \A g \in DOMAIN factor : fails'[g] = fails[g] /\ (lock'[g] = "locked" <=> lock[g] = "locked")
    BY <2>1, <2>2
  <2>4. QED
    BY <2>1, <2>3, CountersElsewhere
<1>4. CASE UNCHANGED <<factor, load, req, fails, lock>>
  BY <1>4, CountersElsewhere
<1>5. QED
  BY <1>1, <1>2, <1>3, <1>4 DEF MfaNext, vars, redis, observers, PrimaryLogin, ExpireUserCounters, Deactivate,
                               CreateSession, ExpireToken, ExpireOtp, NextTotpStep

LEMMA CountersStart ==
  ASSUME IsFiniteSet(Clients), MfaInit
  PROVE  CountersInv
<1>1. ASSUME NEW f \in DOMAIN load.enrolled PROVE CounterHolds(f)
  <2>1. factor[f].status = "active" /\ fails[f] = 0 /\ lock[f] = "open"
    BY <1>1 DEF MfaInit
  <2>2. PICK L : L = WillLock(f)
    OBVIOUS
  <2>3. L \in SUBSET Clients
    BY <2>2 DEF WillLock
  <2>4. Cardinality(L) \in Nat /\ FailureLimit - 1 \in Nat
    BY <2>3, Sizes, LimitIs
  <2>5. fails[f] <= FailureLimit - 1 + Cardinality(L)
    BY <2>1, <2>4
  <2>6. QED
    BY <2>1, <2>2, <2>5 DEF CounterHolds
<1>2. QED
  BY <1>1 DEF CountersInv

LEMMA CountersBound ==
  ASSUME IsFiniteSet(Clients), StoresInv, CountersInv
  PROVE  GuessesBounded
<1>1. ASSUME "stop" \notin load.requests, NEW f \in DOMAIN load.enrolled
      PROVE  fails[f] <= FailureLimit - 1 + Cardinality(Clients)
  <2>1. CounterHolds(f)
    BY <1>1 DEF CountersInv
  <2>2. f \in DOMAIN factor
    BY <1>1, EnrolledAreRows
  <2>3. PICK C, L : C = WillCount(f) /\ L = WillLock(f)
    OBVIOUS
  <2>4. C \in SUBSET Clients /\ L \in SUBSET Clients
    BY <2>3 DEF WillCount, WillLock
  <2>5. /\ Cardinality(C) \in Nat /\ Cardinality(L) \in Nat /\ Cardinality(Clients) \in Nat
        /\ Cardinality(L) <= Cardinality(Clients)
    BY <2>4, Sizes
  <2>6. fails[f] \in Nat /\ FailureLimit - 1 \in Nat
    BY <2>2, StoresAre, LimitIs
  <2>7. \/ fails[f] <= FailureLimit - 1 + Cardinality(L)
        \/ fails[f] + Cardinality(C) <= FailureLimit - 1 + Cardinality(Clients)
    BY <2>1, <2>3 DEF CounterHolds
  <2>8. QED
    BY <2>5, <2>6, <2>7
<1>2. QED
  BY <1>1 DEF GuessesBounded

\* _record_factor_failure counts after the code was compared and locks in a second call, so
\* parallel guesses pass the limit; but only those that asked for the lock before it was
\* there, for any limit and any finite number of requests, as long as none stops in between.
THEOREM GuessesAreBounded ==
  ASSUME IsFiniteSet(Clients)
  PROVE  MfaSpec => []GuessesBounded
<1>1. MfaInit => StoresInv /\ CountersInv
  BY StoresStart, CountersStart
<1>2. StoresInv /\ CountersInv /\ [MfaNext]_vars => (StoresInv /\ CountersInv)'
  BY StoresStep, CountersStep
<1>3. StoresInv /\ CountersInv => GuessesBounded
  BY CountersBound
<1>4. QED
  BY <1>1, <1>2, <1>3, PTL DEF MfaSpec
-----------------------------------------------------------------------------
(***************************************************************************)
(* What the stores never undo.                                             *)
(***************************************************************************)
TokensEnd ==
  /\ DOMAIN token \subseteq DOMAIN token'
  /\ \A t \in DOMAIN token : token[t].state = "gone" => token'[t].state = "gone"
OtpsMoveOn ==
  /\ DOMAIN otp \subseteq DOMAIN otp'
  /\ \A t \in DOMAIN otp : otp'[t].gen \in {0, otp[t].gen} \/ otp'[t].gen > fresh
CodesMoveOn == \A f \in DOMAIN factor : \A k \in factor'[f].codes : k \in factor[f].codes \/ k > fresh
LoginsStay == DOMAIN began \subseteq DOMAIN began' /\ \A l \in DOMAIN began : began'[l] = began[l]
History == RowsKept /\ CodesMoveOn /\ TokensEnd /\ OtpsMoveOn /\ LoginsStay /\ fresh <= fresh'

\* How a step may write tokens, hashes, logins and the count of codes.
TokenWrites ==
  \/ token' = token \/ \E t : token' = [token EXCEPT ![t] = Gone] \/ \E row : token' = Append(token, row)
  \/ \E t : token[t].state = "drawn" /\ token' = [token EXCEPT ![t].state = "live"]
OtpWrites ==
  \/ otp' = otp \/ \E row : otp' = Append(otp, row)
  \/ \E t, row : (row.gen \in {0, otp[t].gen} \/ row.gen = fresh + 1) /\ otp' = [otp EXCEPT ![t] = row]
LoginWrites == began' = began \/ \E o : began' = Append(began, o)
FreshWrites == fresh' \in {fresh, fresh + 1, fresh + BackupCount}
StoreWrites == TokenWrites /\ OtpWrites /\ LoginWrites /\ FreshWrites

LEMMA AppendsOne ==
  ASSUME NEW S, NEW s \in Seq(S), NEW x
  PROVE  DOMAIN s \subseteq DOMAIN Append(s, x) /\ \A i \in DOMAIN s : Append(s, x)[i] = s[i]
OBVIOUS

LEMMA WritesEnd ==
  ASSUME StoresInv, StoreWrites
  PROVE  TokensEnd /\ OtpsMoveOn /\ LoginsStay /\ fresh <= fresh'
<1>1. token \in Seq(TokenRow) /\ otp \in Seq(OtpRow) /\ began \in Seq({"low", "guarded"}) /\ fresh \in Nat
  BY DEF StoresInv, TokenTables, WorldTables
<1>2. TokensEnd
  <2>1. CASE \E row : token' = Append(token, row)
    BY <1>1, <2>1, AppendsOne DEF TokensEnd
  <2>2. ASSUME NEW t, token[t].state = "drawn", token' = [token EXCEPT ![t].state = "live"] PROVE TokensEnd
    <3>1. DOMAIN token' = DOMAIN token /\ \A s \in DOMAIN token : s # t => token'[s] = token[s]
      BY <2>2
    <3>2. QED
      BY <2>2, <3>1 DEF TokensEnd
  <2>3. ASSUME NEW t, token' = [token EXCEPT ![t] = Gone] PROVE TokensEnd
    <3>1. /\ DOMAIN token' = DOMAIN token /\ \A s \in DOMAIN token : s # t => token'[s] = token[s]
          /\ t \in DOMAIN token => token'[t] = Gone
      BY <2>3
    <3>2. QED
      BY <3>1, GoneIs DEF TokensEnd
  <2>4. CASE token' = token
    BY <2>4 DEF TokensEnd
  <2>5. QED
    BY <2>1, <2>2, <2>3, <2>4 DEF StoreWrites, TokenWrites
<1>3. OtpsMoveOn
  <2>1. CASE \E row : otp' = Append(otp, row)
    BY <1>1, <2>1, AppendsOne DEF OtpsMoveOn
  <2>2. CASE otp' = otp
    BY <2>2 DEF OtpsMoveOn
  <2>3. ASSUME NEW t, NEW row, row.gen \in {0, otp[t].gen} \/ row.gen = fresh + 1, otp' = [otp EXCEPT ![t] = row]
        PROVE  OtpsMoveOn
    <3>1. /\ DOMAIN otp' = DOMAIN otp /\ \A s \in DOMAIN otp : s # t => otp'[s] = otp[s]
          /\ t \in DOMAIN otp => otp'[t] = row
      BY <2>3
    <3>2. row.gen \in {0, otp[t].gen} \/ row.gen > fresh
      BY <1>1, <2>3
    <3>3. QED
      BY <3>1, <3>2 DEF OtpsMoveOn
  <2>4. QED
    BY <2>1, <2>2, <2>3 DEF StoreWrites, OtpWrites
<1>4. LoginsStay
  <2>1. CASE \E o : began' = Append(began, o)
    BY <1>1, <2>1, AppendsOne DEF LoginsStay
  <2>2. CASE began' = began
    BY <2>2 DEF LoginsStay
  <2>3. QED
    BY <2>1, <2>2 DEF StoreWrites, LoginWrites
<1>5. fresh <= fresh'
  <2>1. BackupCount \in Nat
    BY MfaAssumption
  <2>2. QED
    BY <1>1, <2>1 DEF StoreWrites, FreshWrites
<1>6. QED
  BY <1>2, <1>3, <1>4, <1>5

LEMMA CheckOtpStores ==
  ASSUME StoresInv, NEW c \in Clients, CheckOtp(c)
  PROVE  StoreWrites
<1>1. PICK t, a : t = req[c].tok /\ a = otp[t].attempts + 1
  OBVIOUS
<1>2. req[c].at = "otp" /\ UNCHANGED <<token, began, fresh>>
  BY DEF CheckOtp, world
<1>3. t \in DOMAIN otp /\ otp[t] \in OtpRow
  BY <1>1, <1>2, StoresAre DEF Placed, Reads, Saw
<1>4. OtpWrites
  <2>1. CASE otp' = otp
    BY <2>1 DEF OtpWrites
  <2>2. CASE otp' = [otp EXCEPT ![t] = NoOtp]
    BY <2>2, NoOtpIs DEF OtpWrites
  <2>3. CASE otp' = [otp EXCEPT ![t] = [otp[t] EXCEPT !.attempts = a]]
    <3>1. PICK row : row = [otp[t] EXCEPT !.attempts = a]
      OBVIOUS
    <3>2. row.gen = otp[t].gen
      BY <1>3, <3>1 DEF OtpRow
    <3>3. QED
      BY <2>3, <3>1, <3>2 DEF OtpWrites
  <2>4. QED
    BY <1>1, <2>1, <2>2, <2>3 DEF CheckOtp
<1>5. QED
  BY <1>2, <1>4 DEF StoreWrites, TokenWrites, LoginWrites, FreshWrites

LEMMA StoreOtpStores ==
  ASSUME StoresInv, NEW c \in Clients, StoreOtp(c)
  PROVE  StoreWrites
<1>1. PICK hash : hash = [gen |-> fresh + 1, attempts |-> 0]
  OBVIOUS
<1>2. hash.gen = fresh + 1
  BY <1>1
<1>3. OtpWrites
  BY <1>1, <1>2 DEF StoreOtp, OtpWrites
<1>4. TokenWrites /\ LoginWrites /\ FreshWrites
  BY DEF StoreOtp, TokenWrites, LoginWrites, FreshWrites
<1>5. QED
  BY <1>3, <1>4 DEF StoreWrites

LEMMA StoreChallengeStores ==
  ASSUME StoresInv, NEW c \in Clients, StoreChallenge(c)
  PROVE  StoreWrites
<1>1. req[c].at = "store" /\ req[c].pay # None /\ UNCHANGED <<began, fresh>>
  BY StoresAre DEF StoreChallenge, Placed, Carries, world
<1>2. CASE req[c].new = 0
  BY <1>1, <1>2 DEF StoreChallenge, Draw, StoreWrites, TokenWrites, OtpWrites, LoginWrites, FreshWrites
<1>3. CASE req[c].new # 0
  <2>1. token[req[c].new].state = "drawn"
    BY <1>1, <1>3, StoresAre DEF Placed
  <2>2. otp' = otp /\ token' = [token EXCEPT ![req[c].new].state = "live"]
    BY <1>3 DEF StoreChallenge
  <2>3. QED
    BY <1>1, <2>1, <2>2 DEF StoreWrites, TokenWrites, OtpWrites, LoginWrites, FreshWrites
<1>4. QED
  BY <1>2, <1>3

LEMMA ClientStores ==
  ASSUME StoresInv, NEW c \in Clients, ClientStep(c)
  PROVE  StoreWrites
<1>1. CASE TakeWorkflow(c)
  BY <1>1 DEF TakeWorkflow, StoreWrites, TokenWrites, OtpWrites, LoginWrites, FreshWrites, redis, world
<1>2. CASE RevokeRow(c)
  BY <1>2 DEF RevokeRow, StoreWrites, TokenWrites, OtpWrites, LoginWrites, FreshWrites, redis, world
<1>3. CASE StoreOtp(c)
  BY <1>3, StoreOtpStores
<1>4. CASE Deliver(c)
  BY <1>4 DEF Deliver, StoreWrites, TokenWrites, OtpWrites, LoginWrites, FreshWrites, redis, world
<1>5. CASE DeliveryFails(c)
  BY <1>5, NoOtpIs DEF DeliveryFails, StoreWrites, TokenWrites, OtpWrites, LoginWrites, FreshWrites, redis, world
<1>6. CASE StoreChallenge(c)
  BY <1>6, StoreChallengeStores
<1>7. CASE CompareTotp(c)
  BY <1>7 DEF CompareTotp, StoreWrites, TokenWrites, OtpWrites, LoginWrites, FreshWrites, redis, world
<1>8. CASE AdvanceTotpStep(c)
  BY <1>8 DEF AdvanceTotpStep, StoreWrites, TokenWrites, OtpWrites, LoginWrites, FreshWrites, redis, world
<1>9. CASE CheckOtp(c)
  BY <1>9, CheckOtpStores
<1>10. CASE CheckBackupCode(c)
  BY <1>10 DEF CheckBackupCode, StoreWrites, TokenWrites, OtpWrites, LoginWrites, FreshWrites, redis, world
<1>11. CASE CountFactorFailure(c)
  BY <1>11 DEF CountFactorFailure, StoreWrites, TokenWrites, OtpWrites, LoginWrites, FreshWrites, redis, world
<1>12. CASE LockFactor(c)
  BY <1>12 DEF LockFactor, StoreWrites, TokenWrites, OtpWrites, LoginWrites, FreshWrites, redis, world
<1>13. CASE CountChallengeFailure(c)
  BY <1>13 DEF CountChallengeFailure, StoreWrites, TokenWrites, OtpWrites, LoginWrites, FreshWrites, redis, world
<1>14. CASE DeleteChallenge(c)
  BY <1>14 DEF DeleteChallenge, StoreWrites, TokenWrites, OtpWrites, LoginWrites, FreshWrites, redis, world
<1>15. CASE TakeChallenge(c)
  BY <1>15 DEF TakeChallenge, StoreWrites, TokenWrites, OtpWrites, LoginWrites, FreshWrites, redis, world
<1>16. CASE Complete(c)
  BY <1>16 DEF Complete, Draw, StoreWrites, TokenWrites, OtpWrites, LoginWrites, FreshWrites, redis, world
<1>17. CASE SelectPending(c)
  BY <1>17 DEF SelectPending, StoreWrites, TokenWrites, OtpWrites, LoginWrites, FreshWrites, redis, world
<1>18. CASE InsertPending(c)
  BY <1>18 DEF InsertPending, StoreWrites, TokenWrites, OtpWrites, LoginWrites, FreshWrites, redis, world
<1>19. CASE ActivateTotp(c)
  BY <1>19 DEF ActivateTotp, StoreWrites, TokenWrites, OtpWrites, LoginWrites, FreshWrites, redis, world
<1>20. CASE EnsureBackupCodes(c)
  BY <1>20 DEF EnsureBackupCodes, StoreWrites, TokenWrites, OtpWrites, LoginWrites, FreshWrites, redis, world
<1>21. CASE ReplaceBackupCodes(c)
  BY <1>21 DEF ReplaceBackupCodes, StoreWrites, TokenWrites, OtpWrites, LoginWrites, FreshWrites, redis, world
<1>22. CASE InsertBackupCodes(c)
  BY <1>22 DEF InsertBackupCodes, StoreWrites, TokenWrites, OtpWrites, LoginWrites, FreshWrites, redis, world
<1>23. CASE CreatePasskey(c)
  BY <1>23 DEF CreatePasskey, StoreWrites, TokenWrites, OtpWrites, LoginWrites, FreshWrites, redis, world
<1>24. CASE CheckAssertion(c)
  BY <1>24 DEF CheckAssertion, StoreWrites, TokenWrites, OtpWrites, LoginWrites, FreshWrites, redis, world
<1>25. CASE UpdatePasskeyCounter(c)
  BY <1>25 DEF UpdatePasskeyCounter, StoreWrites, TokenWrites, OtpWrites, LoginWrites, FreshWrites, redis, world
<1>26. CASE Stop(c)
  BY <1>26 DEF Stop, StoreWrites, TokenWrites, OtpWrites, LoginWrites, FreshWrites, redis, world
<1>27. CASE PasskeyPrimaryOptions(c)
  BY <1>27 DEF PasskeyPrimaryOptions, Draw, StoreWrites, TokenWrites, OtpWrites, LoginWrites, FreshWrites, redis, world
<1>28. ASSUME NEW t, SetupTotp(c, t) PROVE StoreWrites
  BY <1>28 DEF SetupTotp, OpenWorkflow, StoreWrites, TokenWrites, OtpWrites, LoginWrites, FreshWrites, redis, world
<1>29. ASSUME NEW t, PasskeyRegistrationOptions(c, t) PROVE StoreWrites
  BY <1>29 DEF PasskeyRegistrationOptions, OpenWorkflow, StoreWrites, TokenWrites, OtpWrites, LoginWrites, FreshWrites, redis, world
<1>30. ASSUME NEW t, PasskeyAuthenticationOptions(c, t) PROVE StoreWrites
  BY <1>30 DEF PasskeyAuthenticationOptions, OpenWorkflow, StoreWrites, TokenWrites, OtpWrites, LoginWrites, FreshWrites, redis, world
<1>31. ASSUME NEW t, ProveCollisionPassword(c, t) PROVE StoreWrites
  BY <1>31 DEF ProveCollisionPassword, OpenWorkflow, StoreWrites, TokenWrites, OtpWrites, LoginWrites, FreshWrites, redis, world
<1>32. ASSUME NEW t, ResendChallenge(c, t) PROVE StoreWrites
  BY <1>32 DEF ResendChallenge, StoreWrites, TokenWrites, OtpWrites, LoginWrites, FreshWrites, redis, world
<1>33. ASSUME NEW t, ConfirmPasskeyRegistration(c, t) PROVE StoreWrites
  BY <1>33 DEF ConfirmPasskeyRegistration, TakeWebAuthn, StoreWrites, TokenWrites, OtpWrites, LoginWrites, FreshWrites, redis, world
<1>34. ASSUME NEW t, NEW m, IssueChallenge(c, t, m) PROVE StoreWrites
  BY <1>34 DEF IssueChallenge, OpenWorkflow, StoreWrites, TokenWrites, OtpWrites, LoginWrites, FreshWrites, redis, world
<1>35. ASSUME NEW t, NEW f, RevokeFactor(c, t, f) PROVE StoreWrites
  BY <1>35 DEF RevokeFactor, OpenWorkflow, StoreWrites, TokenWrites, OtpWrites, LoginWrites, FreshWrites, redis, world
<1>36. ASSUME NEW t, NEW f, NEW k, VerifyPasskey(c, t, f, k) PROVE StoreWrites
  BY <1>36 DEF VerifyPasskey, TakeWebAuthn, StoreWrites, TokenWrites, OtpWrites, LoginWrites, FreshWrites, redis, world
<1>37. ASSUME NEW t, NEW code, VerifyChallenge(c, t, code) PROVE StoreWrites
  BY <1>37 DEF VerifyChallenge, StoreWrites, TokenWrites, OtpWrites, LoginWrites, FreshWrites, redis, world
<1>38. ASSUME NEW t, NEW code, ConfirmTotp(c, t, code) PROVE StoreWrites
  BY <1>38 DEF ConfirmTotp, StoreWrites, TokenWrites, OtpWrites, LoginWrites, FreshWrites, redis, world
<1>39. QED
  BY <1>1, <1>2, <1>3, <1>4, <1>5, <1>6, <1>7, <1>8, <1>9, <1>10, <1>11, <1>12, <1>13, <1>14, <1>15, <1>16, <1>17, <1>18, <1>19, <1>20, <1>21, <1>22, <1>23, <1>24, <1>25, <1>26, <1>27, <1>28, <1>29, <1>30, <1>31, <1>32, <1>33, <1>34, <1>35, <1>36, <1>37, <1>38 DEF ClientStep

LEMMA WritersCodes ==
  ASSUME StoresInv, NEW c \in Clients, Writes(c)
  PROVE  CodesMoveOn
<1>1. CASE \A f \in DOMAIN factor : factor'[f].codes = factor[f].codes
  BY <1>1 DEF CodesMoveOn
<1>2. CASE CheckBackupCode(c)
  <2>1. CASE factor' = factor
    BY <2>1 DEF CodesMoveOn
  <2>2. ASSUME NEW f \in DOMAIN factor, factor' = [factor EXCEPT ![f] = CodeUsed(f, req[c].code)] PROVE CodesMoveOn
    <3>1. factor'[f] = CodeUsed(f, req[c].code) /\ \A g \in DOMAIN factor : g # f => factor'[g] = factor[g]
      BY <2>2
    <3>2. factor'[f].codes \subseteq factor[f].codes
      BY <3>1, CodeUsedIs
    <3>3. QED
      BY <3>1, <3>2 DEF CodesMoveOn
  <2>3. QED
    BY <1>2, <2>1, <2>2, CheckBackupCodeWrites
<1>3. CASE ReplaceBackupCodes(c)
  <2>1. CASE factor' = factor
    BY <2>1 DEF CodesMoveOn
  <2>2. ASSUME NEW f \in DOMAIN factor, factor[f].status = "active",
               factor' = [factor EXCEPT ![f].codes = fresh + 1 .. fresh + BackupCount]
        PROVE  CodesMoveOn
    <3>1. PICK s : s = fresh + 1 .. fresh + BackupCount
      OBVIOUS
    <3>2. factor'[f].codes = s /\ \A g \in DOMAIN factor : g # f => factor'[g] = factor[g]
      BY <2>2, <3>1, CodesReplaced
    <3>3. fresh \in Nat /\ BackupCount \in Nat
      BY StoresAre, MfaAssumption
    <3>4. \A k \in s : k > fresh
      BY <3>1, <3>3
    <3>5. QED
      BY <3>2, <3>4 DEF CodesMoveOn
  <2>3. QED
    BY <1>3, <2>1, <2>2, ReplaceBackupCodesWrites
<1>4. CASE RevokeRow(c) \/ AdvanceTotpStep(c) \/ UpdatePasskeyCounter(c) \/ ActivateTotp(c)
  <2>1. ASSUME NEW f, NEW x, factor' = [factor EXCEPT ![f] = x], f \in DOMAIN factor => x.codes = factor[f].codes
        PROVE  CodesMoveOn
    <3>1. /\ \A g \in DOMAIN factor : g # f => factor'[g] = factor[g]
          /\ f \in DOMAIN factor => factor'[f] = x
      BY <2>1
    <3>2. QED
      BY <2>1, <3>1 DEF CodesMoveOn
  <2>2. PICK f : f = req[c].fac
    OBVIOUS
  <2>3. CASE factor' = factor
    BY <2>3 DEF CodesMoveOn
  <2>4. f \in DOMAIN factor => factor[f] \in FactorRow
    BY StoresAre
  <2>5. CASE factor' = [factor EXCEPT ![f].status = "revoked"]
    BY <2>1, <2>4, <2>5 DEF FactorRow
  <2>6. CASE factor' = [factor EXCEPT ![f].step = req[c].code]
    BY <2>1, <2>4, <2>6 DEF FactorRow
  <2>7. CASE factor' = [factor EXCEPT ![f].count = req[c].code]
    BY <2>1, <2>4, <2>7 DEF FactorRow
  <2>8. CASE factor' = [factor EXCEPT ![f].status = "active", ![f].step = req[c].code]
    <3>1. PICK x : x = [factor[f] EXCEPT !.status = "active", !.step = req[c].code]
      OBVIOUS
    <3>2. factor' = [factor EXCEPT ![f] = x]
      BY <2>4, <2>8, <3>1
    <3>3. f \in DOMAIN factor => x.codes = factor[f].codes
      BY <2>4, <3>1 DEF FactorRow
    <3>4. QED
      BY <2>1, <3>2, <3>3
  <2>9. QED
    BY <1>4, <2>2, <2>3, <2>5, <2>6, <2>7, <2>8 DEF RevokeRow, AdvanceTotpStep, UpdatePasskeyCounter, ActivateTotp
<1>5. CASE SelectPending(c)
  <2>1. PICK u : factor' = Supersede(u)
    BY <1>5 DEF SelectPending
  <2>2. UNCHANGED <<fails, lock, load, fresh>>
    BY <1>5 DEF SelectPending, redis, world, observers
  <2>3. \A f \in DOMAIN factor : factor'[f] = [factor[f] EXCEPT !.status = "revoked"] \/ factor'[f] = factor[f]
    BY <2>1, <2>2, SupersedeIs
  <2>4. ASSUME NEW f \in DOMAIN factor PROVE factor'[f].codes = factor[f].codes
    <3>1. factor[f] \in FactorRow
      BY StoresAre
    <3>2. QED
      BY <2>3, <3>1 DEF FactorRow
  <2>5. QED
    BY <1>1, <2>4
<1>6. CASE InsertPending(c) \/ InsertBackupCodes(c) \/ CreatePasskey(c)
  <2>1. \E x : factor' = Append(factor, x)
    BY <1>6 DEF InsertPending, InsertBackupCodes, CreatePasskey, AddFactor
  <2>2. \A f \in DOMAIN factor : factor'[f] = factor[f]
    BY <2>1, AddsRow
  <2>3. QED
    BY <1>1, <2>2
<1>7. QED
  BY <1>2, <1>3, <1>4, <1>5, <1>6 DEF Writes

LEMMA HistoryStep ==
  ASSUME StoresInv, [MfaNext]_vars
  PROVE  History
<1>1. RowsKept
  BY RowsStep
<1>2. CodesMoveOn
  <2>1. ASSUME NEW c \in Clients, ClientStep(c) PROVE CodesMoveOn
    <3>1. CASE factor' = factor
      BY <3>1 DEF CodesMoveOn
    <3>2. QED
      BY <2>1, <3>1, OnlyWritersWrite, WritersCodes
  <2>2. CASE factor' = factor
    BY <2>2 DEF CodesMoveOn
  <2>3. QED
    BY <2>1, <2>2 DEF MfaNext, vars, PrimaryLogin, ExpireUserCounters, Deactivate, CreateSession, ExpireToken, ExpireOtp,
                      ExpireFactorCounter, ExpireLock, NextTotpStep
<1>3. StoreWrites
  <2>1. ASSUME NEW c \in Clients, ClientStep(c) PROVE StoreWrites
    BY <2>1, ClientStores
  <2>2. ASSUME NEW u, NEW d, NEW s, PrimaryLogin(u, d, s) PROVE StoreWrites
    BY <2>2 DEF PrimaryLogin, Draw, StoreWrites, TokenWrites, OtpWrites, LoginWrites, FreshWrites
  <2>3. ASSUME NEW t, ExpireOtp(t) PROVE StoreWrites
    BY <2>3, NoOtpIs DEF ExpireOtp, StoreWrites, TokenWrites, OtpWrites, LoginWrites, FreshWrites, world
  <2>4. ASSUME NEW t, CreateSession(t) \/ ExpireToken(t) PROVE StoreWrites
    BY <2>4 DEF CreateSession, ExpireToken, StoreWrites, TokenWrites, OtpWrites, LoginWrites, FreshWrites, redis, world
  <2>5. CASE UNCHANGED <<token, otp, began, fresh>>
    BY <2>5 DEF StoreWrites, TokenWrites, OtpWrites, LoginWrites, FreshWrites
  <2>6. QED
    BY <2>1, <2>2, <2>3, <2>4, <2>5 DEF MfaNext, vars, redis, world, ExpireUserCounters, Deactivate, ExpireFactorCounter,
                                       ExpireLock, NextTotpStep
<1>4. QED
  BY <1>1, <1>2, <1>3, WritesEnd DEF History
-----------------------------------------------------------------------------
(***************************************************************************)
(* What is held, and how LoginTicket sees it.                              *)
(***************************************************************************)
OriginBar == [l \in Logins |-> IF l \in DOMAIN began THEN began[l] ELSE "none"]
HoldersBar == [l \in Logins |-> Cardinality(HeldTokens(l)) + Cardinality(HeldRequests(l))]
LinksBar == {i[3] : i \in linked}
AssuredBar == {l \in Logins : \/ \E t \in HeldTokens(l) : token[t].pay.assured
                              \/ \E c \in HeldRequests(l) : req[c].pay.assured}

Holds(l) == \E p \in Held : p.login = l
Assured(l) == \E p \in Held : p.login = l /\ p.assured

LEMMA SizeIs ==
  ASSUME NEW S, \A x, y \in S : x = y
  PROVE  Cardinality(S) = IF S = {} THEN 0 ELSE 1
<1>1. CASE S = {}
  BY <1>1, FS_EmptySet
<1>2. ASSUME NEW x \in S PROVE Cardinality(S) = 1
  <2>1. S = {x}
    OBVIOUS
  <2>2. QED
    BY <2>1, FS_Singleton
<1>3. QED
  BY <1>1, <1>2

\* A login that is in one place has one holder, which its payload describes.
OneHolder ==
  /\ HoldersBar = [l \in Logins |-> IF Holds(l) THEN 1 ELSE 0]
  /\ AssuredBar = {l \in Logins : Assured(l)}

LEMMA BarsAre ==
  ASSUME StoresInv
  PROVE  OneHolder
<1>1. ASSUME NEW l \in Logins
      PROVE  Cardinality(HeldTokens(l)) + Cardinality(HeldRequests(l)) = IF Holds(l) THEN 1 ELSE 0
  <2>1. PICK S, T : S = HeldTokens(l) /\ T = HeldRequests(l)
    OBVIOUS
  <2>2. (\A x, y \in S : x = y) /\ (\A x, y \in T : x = y) /\ (S = {} \/ T = {})
    BY <2>1 DEF StoresInv, Exclusive, HeldTokens, HeldRequests
  <2>3. Cardinality(S) = (IF S = {} THEN 0 ELSE 1) /\ Cardinality(T) = (IF T = {} THEN 0 ELSE 1)
    BY <2>2, SizeIs
  <2>4. Holds(l) <=> S # {} \/ T # {}
    BY <2>1 DEF Holds, Held, HeldTokens, HeldRequests
  <2>5. QED
    BY <2>1, <2>2, <2>3, <2>4
<1>2. HoldersBar = [l \in Logins |-> IF Holds(l) THEN 1 ELSE 0]
  BY <1>1 DEF HoldersBar
<1>3. ASSUME NEW l \in Logins
      PROVE  (\/ \E t \in HeldTokens(l) : token[t].pay.assured
              \/ \E c \in HeldRequests(l) : req[c].pay.assured) <=> Assured(l)
  BY DEF Assured, Held, HeldTokens, HeldRequests
<1>4. AssuredBar = {l \in Logins : Assured(l)}
  BY <1>3 DEF AssuredBar
<1>5. QED
  BY <1>2, <1>4 DEF OneHolder

LEMMA BarsWillBe == StoresInv' => OneHolder'
<1>1. StoresInv => OneHolder
  BY BarsAre
<1>2. QED
  BY <1>1, PTL
\* What each kind of step does to what is held.
LEMMA IsHeld ==
  ASSUME NEW p
  PROVE  /\ p \in Held <=> (\E t : LiveAt(t) /\ token[t].pay = p) \/ (p # None /\ \E c \in Clients : req[c].pay = p)
         /\ p \in Held' <=> (\E t : LiveAt(t)' /\ token'[t].pay = p) \/ (p # None /\ \E c \in Clients : req'[c].pay = p)
BY DEF Held, LiveAt

LEMMA LivePay ==
  ASSUME StoresInv, NEW t, LiveAt(t)
  PROVE  token[t].pay \in Payload /\ token[t].pay # None /\ token[t].pay.login \in DOMAIN began /\ token[t].pay \in Held
<1>1. token[t] \in TokenRow /\ GoodToken(token[t]) /\ token[t].state = "live"
  BY StoresAre DEF LiveAt
<1>2. QED
  BY <1>1, IsHeld DEF TokenRow, GoodToken

LEMMA RequestPay ==
  ASSUME StoresInv, NEW c \in Clients, req[c].pay # None
  PROVE  req[c].pay \in Payload /\ req[c].pay.login \in DOMAIN began /\ req[c].pay \in Held
<1>1. req[c] \in RequestState /\ Placed(req[c])
  BY StoresAre
<1>2. QED
  BY <1>1, IsHeld DEF RequestState, Placed

LEMMA HeldAre ==
  ASSUME StoresInv, NEW p \in Held
  PROVE  p \in Payload /\ p.login \in DOMAIN began /\ p.login \in Logins
<1>1. p \in Payload /\ p.login \in DOMAIN began
  BY IsHeld, LivePay, RequestPay
<1>2. began \in Seq({"low", "guarded"}) /\ Len(began) <= MaxLogins
  BY DEF StoresInv, WorldTables
<1>3. MaxLogins \in Nat
  BY MfaAssumption
<1>4. p.login \in 1..MaxLogins
  BY <1>1, <1>2, <1>3
<1>5. QED
  BY <1>1, <1>4 DEF Logins

\* A payload is held in one place, and no other payload of its login is.
LEMMA HeldOnce ==
  ASSUME StoresInv, NEW p \in Held, NEW q \in Held, p.login = q.login
  PROVE  p = q
<1>1. ASSUME NEW s, NEW t, LiveAt(s), LiveAt(t), token[s].pay.login = token[t].pay.login PROVE s = t
  BY <1>1 DEF StoresInv, Exclusive, LiveAt
<1>2. ASSUME NEW c \in Clients, NEW d \in Clients, req[c].pay # None, req[d].pay # None,
             req[c].pay.login = req[d].pay.login
      PROVE  c = d
  BY <1>2 DEF StoresInv, Exclusive
<1>3. ASSUME NEW t, NEW c \in Clients, LiveAt(t), req[c].pay # None PROVE token[t].pay.login # req[c].pay.login
  BY <1>3 DEF StoresInv, Exclusive, LiveAt
<1>4. QED
  BY <1>1, <1>2, <1>3, IsHeld

LEMMA QuietHeld ==
  ASSUME Quiet
  PROVE  Held' = Held
<1>1. ASSUME NEW p PROVE p \in Held' <=> p \in Held
  BY IsHeld DEF Quiet, SameTokens, SamePays, LiveAt
<1>2. QED
  BY <1>1

LEMMA TokenLostHeld ==
  ASSUME StoresInv, NEW t, TokenLost(t)
  PROVE  token[t].pay \in Held /\ Held' = Held \ {token[t].pay}
<1>1. LiveAt(t) /\ ~LiveAt(t)' /\ SameTokens({t}) /\ SamePays({})
  BY DEF TokenLost
<1>2. token[t].pay \in Held
  BY <1>1, LivePay
<1>3. \A s : LiveAt(s) /\ token[s].pay = token[t].pay => s = t
  BY <1>1 DEF StoresInv, Exclusive, LiveAt
<1>4. \A c \in Clients : req[c].pay # token[t].pay
  <2>1. token[t].pay # None
    BY <1>1, LivePay
  <2>2. QED
    BY <1>1, <2>1 DEF StoresInv, Exclusive, LiveAt
<1>5. ASSUME NEW p PROVE p \in Held' <=> p \in Held /\ p # token[t].pay
  <2>1. (\E s : LiveAt(s)' /\ token'[s].pay = p) <=> (\E s : LiveAt(s) /\ token[s].pay = p /\ s # t)
    BY <1>1 DEF SameTokens, LiveAt
  <2>2. \A c \in Clients : req'[c].pay = req[c].pay
    BY <1>1 DEF SamePays
  <2>3. QED
    BY <1>3, <1>4, <2>1, <2>2, IsHeld
<1>6. QED
  BY <1>2, <1>5

LEMMA PayLostHeld ==
  ASSUME StoresInv, NEW c \in Clients, PayLost(c)
  PROVE  req[c].pay \in Held /\ Held' = Held \ {req[c].pay}
<1>1. SameTokens({}) /\ SamePays({c}) /\ req[c].pay # None /\ req'[c].pay = None
  BY DEF PayLost
<1>2. req[c].pay \in Held
  BY <1>1, RequestPay
<1>3. \A d \in Clients : req[d].pay = req[c].pay => d = c
  BY <1>1 DEF StoresInv, Exclusive
<1>4. \A t : LiveAt(t) => token[t].pay # req[c].pay
  BY <1>1 DEF StoresInv, Exclusive, LiveAt
<1>5. ASSUME NEW p PROVE p \in Held' <=> p \in Held /\ p # req[c].pay
  <2>1. (\E s : LiveAt(s)' /\ token'[s].pay = p) <=> (\E s : LiveAt(s) /\ token[s].pay = p)
    BY <1>1 DEF SameTokens, LiveAt
  <2>2. \A d \in Clients : d # c => req'[d].pay = req[d].pay
    BY <1>1 DEF SamePays
  <2>3. QED
    BY <1>1, <1>3, <1>4, <2>1, <2>2, IsHeld
<1>6. QED
  BY <1>2, <1>5

LEMMA TakenHeld ==
  ASSUME StoresInv, NEW c \in Clients, NEW t, Taken(c, t)
  PROVE  Held' = Held
<1>1. /\ LiveAt(t) /\ ~LiveAt(t)' /\ SameTokens({t}) /\ SamePays({c})
      /\ req[c].pay = None /\ req'[c].pay = token[t].pay
  BY DEF Taken
<1>2. token[t].pay # None
  BY <1>1, LivePay
<1>3. ASSUME NEW p PROVE p \in Held' <=> p \in Held
  <2>1. (\E s : LiveAt(s)' /\ token'[s].pay = p) <=> (\E s : LiveAt(s) /\ token[s].pay = p /\ s # t)
    BY <1>1 DEF SameTokens, LiveAt
  <2>2. \A d \in Clients : d # c => req'[d].pay = req[d].pay
    BY <1>1 DEF SamePays
  <2>3. QED
    BY <1>1, <1>2, <2>1, <2>2, IsHeld
<1>4. QED
  BY <1>3

LEMMA PutHeld ==
  ASSUME StoresInv, NEW c \in Clients, NEW t, Put(c, t)
  PROVE  /\ req[c].pay \in Held /\ token'[t].pay.login = req[c].pay.login
         /\ Held' = (Held \ {req[c].pay}) \cup {token'[t].pay}
<1>1. /\ ~LiveAt(t) /\ LiveAt(t)' /\ SameTokens({t}) /\ SamePays({c})
      /\ req[c].pay # None /\ req'[c].pay = None /\ token'[t].pay.login = req[c].pay.login
  BY DEF Put
<1>2. req[c].pay \in Held
  BY <1>1, RequestPay
<1>3. \A d \in Clients : req[d].pay = req[c].pay => d = c
  BY <1>1 DEF StoresInv, Exclusive
<1>4. \A s : LiveAt(s) => token[s].pay # req[c].pay
  BY <1>1 DEF StoresInv, Exclusive, LiveAt
<1>5. ASSUME NEW p PROVE p \in Held' <=> (p \in Held /\ p # req[c].pay) \/ p = token'[t].pay
  <2>1. (\E s : LiveAt(s)' /\ token'[s].pay = p) <=> (\E s : LiveAt(s) /\ token[s].pay = p) \/ p = token'[t].pay
    BY <1>1 DEF SameTokens, LiveAt
  <2>2. \A d \in Clients : d # c => req'[d].pay = req[d].pay
    BY <1>1 DEF SamePays
  <2>3. QED
    BY <1>1, <1>3, <1>4, <2>1, <2>2, IsHeld
<1>6. QED
  BY <1>1, <1>2, <1>5

LEMMA DrawnHeld ==
  ASSUME NEW t, Drawn(t)
  PROVE  Held' = Held \cup {token'[t].pay}
<1>1. ~LiveAt(t) /\ LiveAt(t)' /\ SameTokens({t}) /\ SamePays({})
  BY DEF Drawn
<1>2. ASSUME NEW p PROVE p \in Held' <=> p \in Held \/ p = token'[t].pay
  <2>1. (\E s : LiveAt(s)' /\ token'[s].pay = p) <=> (\E s : LiveAt(s) /\ token[s].pay = p) \/ p = token'[t].pay
    BY <1>1 DEF SameTokens, LiveAt
  <2>2. \A d \in Clients : req'[d].pay = req[d].pay
    BY <1>1 DEF SamePays
  <2>3. QED
    BY <2>1, <2>2, IsHeld
<1>3. QED
  BY <1>2

LEMMA NamedHeld ==
  ASSUME StoresInv, NEW c \in Clients, Named(c)
  PROVE  req[c].pay \in Held /\ Held' = (Held \ {req[c].pay}) \cup {req'[c].pay}
<1>1. SameTokens({}) /\ SamePays({c}) /\ req[c].pay # None /\ req'[c].pay # None
  BY DEF Named
<1>2. req[c].pay \in Held
  BY <1>1, RequestPay
<1>3. \A d \in Clients : req[d].pay = req[c].pay => d = c
  BY <1>1 DEF StoresInv, Exclusive
<1>4. \A t : LiveAt(t) => token[t].pay # req[c].pay
  BY <1>1 DEF StoresInv, Exclusive, LiveAt
<1>5. ASSUME NEW p PROVE p \in Held' <=> (p \in Held /\ p # req[c].pay) \/ p = req'[c].pay
  <2>1. (\E s : LiveAt(s)' /\ token'[s].pay = p) <=> (\E s : LiveAt(s) /\ token[s].pay = p)
    BY <1>1 DEF SameTokens, LiveAt
  <2>2. \A d \in Clients : d # c => req'[d].pay = req[d].pay
    BY <1>1 DEF SamePays
  <2>3. QED
    BY <1>1, <1>3, <1>4, <2>1, <2>2, IsHeld
<1>6. QED
  BY <1>2, <1>5
\* How the bars follow what is held.
LEMMA BarsStay ==
  ASSUME StoresInv, StoresInv', Held' = Held
  PROVE  HoldersBar' = HoldersBar /\ AssuredBar' = AssuredBar
<1>1. \A l : (Holds(l)' <=> Holds(l)) /\ (Assured(l)' <=> Assured(l))
  BY DEF Holds, Assured
<1>2. OneHolder /\ OneHolder'
  BY BarsAre, BarsWillBe
<1>3. QED
  BY <1>1, <1>2 DEF OneHolder

LEMMA BarsLose ==
  ASSUME StoresInv, StoresInv', NEW p \in Held, NEW l, l = p.login, Held' = Held \ {p}
  PROVE  /\ l \in Logins /\ HoldersBar[l] = 1 /\ HoldersBar' = [HoldersBar EXCEPT ![l] = 0]
         /\ AssuredBar' = AssuredBar \ {l}
<1>1. l \in Logins /\ Holds(l)
  BY HeldAre DEF Holds
<1>2. ASSUME NEW q \in Held PROVE q \in Held' <=> q.login # l
  BY HeldOnce
<1>3. /\ ~Holds(l)' /\ ~Assured(l)'
      /\ \A k : k # l => (Holds(k)' <=> Holds(k)) /\ (Assured(k)' <=> Assured(k))
  BY <1>2 DEF Holds, Assured
<1>4. OneHolder /\ OneHolder'
  BY BarsAre, BarsWillBe
<1>5. HoldersBar[l] = 1 /\ HoldersBar' = [HoldersBar EXCEPT ![l] = 0]
  BY <1>1, <1>3, <1>4 DEF OneHolder
<1>6. AssuredBar' = AssuredBar \ {l}
  BY <1>3, <1>4 DEF OneHolder
<1>7. QED
  BY <1>1, <1>5, <1>6

Swapped(p, q) == p \in Held /\ q.login = p.login /\ Held' = (Held \ {p}) \cup {q}

LEMMA BarsSwap ==
  ASSUME StoresInv, StoresInv', NEW p, NEW q, Swapped(p, q), NEW l, l = p.login
  PROVE  /\ l \in Logins /\ HoldersBar[l] = 1 /\ HoldersBar' = HoldersBar
         /\ q.assured = p.assured => AssuredBar' = AssuredBar
         /\ q.assured = TRUE => AssuredBar' = AssuredBar \cup {l}
<1>0. p \in Held /\ q.login = l /\ Held' = (Held \ {p}) \cup {q}
  BY DEF Swapped
<1>1. l \in Logins /\ Holds(l) /\ Holds(l)'
  BY <1>0, HeldAre DEF Holds
<1>2. ASSUME NEW x \in Held PROVE x = p \/ x.login # l
  BY <1>0, HeldOnce
<1>3. \A k : k # l => (Holds(k)' <=> Holds(k)) /\ (Assured(k)' <=> Assured(k))
  BY <1>0, <1>2 DEF Holds, Assured
<1>4. (Assured(l) <=> p.assured) /\ (Assured(l)' <=> q.assured)
  BY <1>0, <1>2 DEF Assured
<1>5. OneHolder /\ OneHolder'
  BY BarsAre, BarsWillBe
<1>6. HoldersBar[l] = 1 /\ HoldersBar' = HoldersBar
  BY <1>1, <1>3, <1>5 DEF OneHolder
<1>7. q.assured = p.assured => AssuredBar' = AssuredBar
  BY <1>3, <1>4, <1>5 DEF OneHolder
<1>8. q.assured = TRUE => AssuredBar' = AssuredBar \cup {l}
  BY <1>1, <1>3, <1>4, <1>5 DEF OneHolder
<1>9. QED
  BY <1>1, <1>6, <1>7, <1>8

LEMMA BarsStart ==
  ASSUME StoresInv, StoresInv', NEW q, NEW l \in Logins, l = q.login, l \notin DOMAIN began, q.assured = FALSE,
         Held' = Held \cup {q}
  PROVE  HoldersBar' = [HoldersBar EXCEPT ![l] = 1] /\ AssuredBar' = AssuredBar
<1>1. ASSUME NEW x \in Held PROVE x.login # l
  BY HeldAre
<1>2. Holds(l)' /\ ~Assured(l) /\ ~Assured(l)'
  BY <1>1 DEF Holds, Assured
<1>3. \A k : k # l => (Holds(k)' <=> Holds(k)) /\ (Assured(k)' <=> Assured(k))
  BY DEF Holds, Assured
<1>4. OneHolder /\ OneHolder'
  BY BarsAre, BarsWillBe
<1>5. HoldersBar' = [HoldersBar EXCEPT ![l] = 1]
  BY <1>2, <1>3, <1>4 DEF OneHolder
<1>6. AssuredBar' = AssuredBar
  BY <1>2, <1>3, <1>4 DEF OneHolder
<1>7. QED
  BY <1>5, <1>6

\* What LoginTicket sees of a step.
Sees == Ticket!TicketNext \/ UNCHANGED Ticket!ticketVars

LEMMA OriginStays ==
  ASSUME began' = began
  PROVE  OriginBar' = OriginBar
BY DEF OriginBar

LEMMA SeesNothing ==
  ASSUME HoldersBar' = HoldersBar, AssuredBar' = AssuredBar, UNCHANGED <<began, linked, pledge, sessions>>
  PROVE  Sees
<1>1. OriginBar' = OriginBar /\ LinksBar' = LinksBar
  BY OriginStays DEF LinksBar
<1>2. UNCHANGED Ticket!ticketVars
  BY <1>1 DEF Ticket!ticketVars, OriginBar, HoldersBar, LinksBar, AssuredBar
<1>3. QED
  BY <1>2 DEF Sees

LEMMA SeesSpend ==
  ASSUME HoldersBar' = HoldersBar, AssuredBar' = AssuredBar, UNCHANGED <<began, linked, sessions>>,
         NEW e, e.login \in Logins, \A d \in pledge : d.proof # e.proof, pledge' = pledge \cup {e}
  PROVE  Sees
<1>1. OriginBar' = OriginBar /\ LinksBar' = LinksBar
  BY OriginStays DEF LinksBar
<1>2. PICK l \in Logins : l = e.login
  OBVIOUS
<1>3. Ticket!Spend(l)
  BY <1>1, <1>2, Zenon DEF Ticket!Spend, OriginBar, HoldersBar, LinksBar, AssuredBar
<1>4. QED
  BY <1>3, Zenon DEF Sees, Ticket!TicketNext

LEMMA SeesLose ==
  ASSUME NEW l \in Logins, HoldersBar[l] = 1, HoldersBar' = [HoldersBar EXCEPT ![l] = 0],
         AssuredBar' = AssuredBar \ {l}, UNCHANGED <<began, linked, pledge, sessions>>
  PROVE  Sees
<1>1. OriginBar' = OriginBar /\ LinksBar' = LinksBar
  BY OriginStays DEF LinksBar
<1>2. Ticket!Lose(l)
  BY <1>1, Zenon DEF Ticket!Lose, OriginBar, HoldersBar, LinksBar, AssuredBar
<1>3. QED
  BY <1>2, Zenon DEF Sees, Ticket!TicketNext

LEMMA SeesRedeem ==
  ASSUME NEW l \in Logins, HoldersBar[l] = 1, HoldersBar' = [HoldersBar EXCEPT ![l] = 0],
         AssuredBar' = AssuredBar \ {l}, sessions' = sessions \cup {l}, UNCHANGED <<began, linked, pledge>>,
         OriginBar[l] = "low" \/ l \in AssuredBar
  PROVE  Sees
<1>1. OriginBar' = OriginBar /\ LinksBar' = LinksBar
  BY OriginStays DEF LinksBar
<1>2. Ticket!Redeem(l)
  BY <1>1, Zenon DEF Ticket!Redeem, OriginBar, HoldersBar, LinksBar, AssuredBar
<1>3. QED
  BY <1>2, Zenon DEF Sees, Ticket!TicketNext

LEMMA SeesLink ==
  ASSUME NEW l \in Logins, HoldersBar[l] = 1, HoldersBar' = [HoldersBar EXCEPT ![l] = 0],
         AssuredBar' = AssuredBar \ {l}, LinksBar' = LinksBar \cup {l}, UNCHANGED <<began, sessions, pledge>>,
         \E e \in pledge : e.login = l
  PROVE  Sees
<1>1. OriginBar' = OriginBar
  BY OriginStays
<1>2. Ticket!Link(l)
  BY <1>1, Zenon DEF Ticket!Link, OriginBar, HoldersBar, LinksBar, AssuredBar
<1>3. QED
  BY <1>2, Zenon DEF Sees, Ticket!TicketNext

LEMMA SeesElevate ==
  ASSUME NEW l \in Logins, HoldersBar[l] = 1, HoldersBar' = HoldersBar, AssuredBar' = AssuredBar \cup {l},
         UNCHANGED <<began, linked, pledge, sessions>>, \E e \in pledge : e.login = l
  PROVE  Sees
<1>1. OriginBar' = OriginBar /\ LinksBar' = LinksBar
  BY OriginStays DEF LinksBar
<1>2. CASE l \in AssuredBar
  <2>1. AssuredBar' = AssuredBar
    BY <1>2
  <2>2. QED
    BY <2>1, SeesNothing
<1>3. CASE l \notin AssuredBar
  <2>1. Ticket!Elevate(l)
    BY <1>1, <1>3, Zenon DEF Ticket!Elevate, OriginBar, HoldersBar, LinksBar, AssuredBar
  <2>2. QED
    BY <2>1, Zenon DEF Sees, Ticket!TicketNext
<1>4. QED
  BY <1>2, <1>3

LEMMA SeesStart ==
  ASSUME NEW l \in Logins, OriginBar[l] = "none", NEW o \in {"low", "guarded"},
         OriginBar' = [OriginBar EXCEPT ![l] = o], HoldersBar' = [HoldersBar EXCEPT ![l] = 1],
         AssuredBar' = AssuredBar, UNCHANGED <<linked, pledge, sessions>>
  PROVE  Sees
<1>1. LinksBar' = LinksBar
  BY DEF LinksBar
<1>2. Ticket!Start(l)
  BY <1>1, Zenon DEF Ticket!Start, OriginBar, HoldersBar, LinksBar, AssuredBar
<1>3. QED
  BY <1>2, Zenon DEF Sees, Ticket!TicketNext
-----------------------------------------------------------------------------
(***************************************************************************)
(* What was proved stays proved, and what was spent stays spent.           *)
(***************************************************************************)
LEMMA ProofsStayUsed ==
  ASSUME StoresInv, StoresInv', History, NEW k, NEW i, NEW j, CannotRepeat(k, i, j)
  PROVE  CannotRepeat(k, i, j)'
<1>1. j \in Nat
  BY DEF CannotRepeat
<1>2. k \in {"password", "passkey"} => i \in DOMAIN token' /\ token'[i].state = "gone"
  BY DEF CannotRepeat, History, TokensEnd
<1>3. k = "enroll" /\ j = 0 => i \in DOMAIN token' /\ token'[i].state = "gone"
  BY DEF CannotRepeat, History, TokensEnd
<1>4. ASSUME k = "totp" PROVE i \in DOMAIN factor' /\ j <= factor'[i].step
  <2>1. i \in DOMAIN factor /\ j <= factor[i].step
    BY <1>4 DEF CannotRepeat
  <2>2. i \in DOMAIN factor' /\ factor'[i].step >= factor[i].step
    BY <2>1 DEF History, RowsKept, RowKept
  <2>3. factor[i].step \in Nat /\ factor'[i].step \in Nat
    <3>1. factor[i] \in FactorRow /\ factor'[i] \in FactorRow
      BY <2>1, <2>2 DEF StoresInv, FactorTables
    <3>2. QED
      BY <3>1 DEF FactorRow
  <2>4. QED
    BY <1>1, <2>1, <2>2, <2>3
<1>5. ASSUME k = "otp" PROVE i \in DOMAIN otp' /\ otp'[i].gen # j /\ j # 0 /\ j <= fresh'
  <2>1. i \in DOMAIN otp /\ otp[i].gen # j /\ j # 0 /\ j <= fresh
    BY <1>5 DEF CannotRepeat
  <2>2. i \in DOMAIN otp' /\ (otp'[i].gen \in {0, otp[i].gen} \/ otp'[i].gen > fresh) /\ fresh <= fresh'
    BY <2>1 DEF History, OtpsMoveOn
  <2>3. fresh \in Nat /\ fresh' \in Nat
    BY DEF StoresInv, WorldTables
  <2>4. QED
    BY <1>1, <2>1, <2>2, <2>3
<1>6. ASSUME k = "backup" PROVE i \in DOMAIN factor' /\ j \notin factor'[i].codes /\ j <= fresh'
  <2>1. i \in DOMAIN factor /\ j \notin factor[i].codes /\ j <= fresh
    BY <1>6 DEF CannotRepeat
  <2>2. i \in DOMAIN factor' /\ (\A x \in factor'[i].codes : x \in factor[i].codes \/ x > fresh) /\ fresh <= fresh'
    BY <2>1 DEF History, RowsKept, CodesMoveOn
  <2>3. fresh \in Nat /\ fresh' \in Nat
    BY DEF StoresInv, WorldTables
  <2>4. QED
    BY <1>1, <2>1, <2>2, <2>3
<1>7. ASSUME k = "enroll", j > 0 PROVE i \in DOMAIN factor' /\ factor'[i].status # "pending"
  <2>1. i \in DOMAIN factor /\ factor[i].status # "pending"
    BY <1>7 DEF CannotRepeat
  <2>2. factor[i].status \in {"active", "revoked"}
    <3>1. factor[i] \in FactorRow
      BY <2>1, StoresAre
    <3>2. QED
      BY <2>1, <3>1 DEF FactorRow
  <2>3. QED
    BY <2>1, <2>2 DEF History, RowsKept, RowKept
<1>8. QED
  BY <1>1, <1>2, <1>3, <1>4, <1>5, <1>6, <1>7 DEF CannotRepeat

LEMMA SpentStaysUsed ==
  ASSUME StoresInv, StoresInv', History, NEW e, Used(e)
  PROVE  Used(e)'
BY ProofsStayUsed DEF Used

LEMMA ProvedStays ==
  ASSUME History, pledge \subseteq pledge', NEW r, Proved(r)
  PROVE  Proved(r)'
<1>1. \A l : ProvedFor(l) => ProvedFor(l)'
  BY DEF ProvedFor
<1>2. QED
  BY <1>1 DEF Proved, History, TokensEnd

LEMMA PaysStayTrue ==
  ASSUME StoresInv, History, PaysTrue, pledge \subseteq pledge', \A p \in Held' : p \in Held \/ TruePay(p)'
  PROVE  PaysTrue'
<1>1. \A l : ProvedFor(l) => ProvedFor(l)'
  BY DEF ProvedFor
<1>2. ASSUME NEW p \in Held PROVE TruePay(p)'
  <2>1. p.login \in DOMAIN began
    BY HeldAre
  <2>2. began'[p.login] = began[p.login]
    BY <2>1 DEF History, LoginsStay
  <2>3. TruePay(p)
    BY DEF PaysTrue
  <2>4. QED
    BY <1>1, <2>2, <2>3 DEF TruePay
<1>3. QED
  BY <1>2 DEF PaysTrue

\* A step of c, of which the other requests see nothing.
LEMMA TicketMoves ==
  ASSUME StoresInv, TicketInv, History, NEW c \in Clients, Moves(c), pledge \subseteq pledge',
         PaysTrue', ProofsUsed', Proved(req[c])', Unspent(c)',
         \A e \in pledge' \ pledge : \A d \in Clients \ {c} :
            req[d].at \in OfPasskey => e.proof # <<"enroll", req[d].tok, 0>> /\ e.proof # <<"passkey", req[d].tok, 0>>
  PROVE  TicketInv'
<1>1. \A d \in Clients : d # c => req'[d] = req[d]
  BY OthersStay
<1>2. ASSUME NEW d \in Clients, d # c PROVE Proved(req[d])' /\ Unspent(d)'
  <2>1. PICK r : r = req[d] /\ r = req'[d]
    BY <1>1, <1>2
  <2>2. Proved(r)'
    BY <2>1, ProvedStays DEF TicketInv, RequestsProved
  <2>3. Unspent(d)
    BY DEF TicketInv, RequestsProved
  <2>4. ASSUME r.at \in OfPasskey, NEW e \in pledge'
        PROVE  /\ r.at = "attestation" => e.proof # <<"enroll", r.tok, 0>>
               /\ r.at \in {"assertion", "counter"} => e.proof # <<"passkey", r.tok, 0>>
    BY <1>2, <2>1, <2>3, <2>4 DEF Unspent
  <2>5. ASSUME r.at \in OfPasskey, NEW b \in Clients, req'[b].at \in OfPasskey, req'[b].tok = r.tok
        PROVE  d = b
    <3>1. CASE b = c
      BY <2>1, <2>5, <3>1 DEF Unspent
    <3>2. CASE b # c
      BY <1>1, <2>1, <2>3, <2>5, <3>2 DEF Unspent
    <3>3. QED
      BY <3>1, <3>2
  <2>6. QED
    BY <2>1, <2>2, <2>4, <2>5 DEF Unspent
<1>3. QED
  BY <1>2 DEF TicketInv, RequestsProved

\* A step of c that spends nothing.
LEMMA KeepsTickets ==
  ASSUME StoresInv, StoresInv', TicketInv, History, NEW c \in Clients, Moves(c), pledge' = pledge,
         \A p \in Held' : p \in Held \/ TruePay(p)', Proved(req[c])', Unspent(c)'
  PROVE  TicketInv'
<1>1. PaysTrue'
  BY PaysStayTrue DEF TicketInv
<1>2. ProofsUsed'
  BY SpentStaysUsed DEF TicketInv, ProofsUsed
<1>3. QED
  BY <1>1, <1>2, TicketMoves

\* A step of c that spends a proof that was not spent before.
LEMMA SpendsTicket ==
  ASSUME StoresInv, StoresInv', TicketInv, History, NEW c \in Clients, Moves(c), Held' = Held,
         UNCHANGED <<began, linked, sessions>>,
         NEW k, NEW i, NEW j, NEW l, l \in DOMAIN began, Spent(k, i, j, l), CannotRepeat(k, i, j)',
         \A e \in pledge : e.proof # <<k, i, j>>,
         k \in {"enroll", "passkey"} /\ j = 0 => req[c].at \in OfPasskey /\ req[c].tok = i,
         Proved(req[c])', req'[c].at \notin OfPasskey
  PROVE  TicketInv' /\ Sees
<1>1. PICK e : e = [proof |-> <<k, i, j>>, login |-> l]
  OBVIOUS
<1>2. pledge' = pledge \cup {e} /\ e.proof = <<k, i, j>> /\ e.login = l
  BY <1>1 DEF Spent
<1>3. PaysTrue'
  BY <1>2, PaysStayTrue DEF TicketInv
<1>4. Used(e)'
  <2>1. e.proof[1] = k /\ e.proof[2] = i /\ e.proof[3] = j
    BY <1>2
  <2>2. QED
    BY <2>1 DEF Used
<1>5. ProofsUsed'
  BY <1>2, <1>4, SpentStaysUsed DEF TicketInv, ProofsUsed
<1>6. Unspent(c)'
  BY DEF Unspent
<1>7. ASSUME NEW d \in Clients, d # c, req[d].at \in OfPasskey
      PROVE  e.proof # <<"enroll", req[d].tok, 0>> /\ e.proof # <<"passkey", req[d].tok, 0>>
  <2>1. Unspent(d)
    BY DEF TicketInv, RequestsProved
  <2>2. ~(req[c].at \in OfPasskey /\ req[c].tok = req[d].tok)
    BY <1>7, <2>1 DEF Unspent
  <2>3. QED
    BY <1>2, <2>2
<1>8. TicketInv'
  BY <1>2, <1>3, <1>5, <1>6, <1>7, TicketMoves
<1>9. l \in Logins
  <2>1. began \in Seq({"low", "guarded"}) /\ Len(began) <= MaxLogins
    BY DEF StoresInv, WorldTables
  <2>2. MaxLogins \in Nat
    BY MfaAssumption
  <2>3. l \in 1..MaxLogins
    BY <2>1, <2>2
  <2>4. QED
    BY <2>3 DEF Logins
<1>10. HoldersBar' = HoldersBar /\ AssuredBar' = AssuredBar
  BY BarsStay
<1>11. Sees
  BY <1>2, <1>9, <1>10, SeesSpend
<1>12. QED
  BY <1>8, <1>11
Before == StoresInv /\ StoresInv' /\ TicketInv /\ History
Follows == TicketInv' /\ Sees
Settled(c) == Proved(req[c]) /\ Unspent(c)
SameLogins == UNCHANGED <<began, linked, pledge, sessions>>

\* The steps of a request that has proved something.
Marked == {"consume", "complete", "codes", "new codes", "insert codes", "revoke", "revoke row"} \cup OfPasskey

LEMMA UnmarkedSettled ==
  ASSUME NEW c, req'[c].at \notin Marked
  PROVE  Settled(c)'
BY DEF Settled, Proved, Unspent, Marked, OfPasskey

LEMMA GotoSettled ==
  ASSUME StoresInv, NEW c \in Clients, NEW label, Goto(c, label), label \notin Marked
  PROVE  Settled(c)'
BY GotoIs, UnmarkedSettled

LEMMA RefuseSettled ==
  ASSUME StoresInv, NEW c \in Clients, Refuse(c)
  PROVE  Settled(c)'
<1>1. req'[c].at = "idle"
  BY RefuseIs
<1>2. QED
  BY <1>1, UnmarkedSettled DEF Marked, OfPasskey

LEMMA StepSettled ==
  ASSUME StoresInv, NEW c \in Clients, NEW r, Step(c, r), r.at \notin Marked
  PROVE  Settled(c)'
BY StepMoves, UnmarkedSettled DEF StoresInv

\* A login that is lost.
LEMMA LosesLogin ==
  ASSUME StoresInv, StoresInv', SameLogins, NEW p \in Held, Held' = Held \ {p}
  PROVE  Sees
<1>1. PICK l : l = p.login
  OBVIOUS
<1>2. l \in Logins /\ HoldersBar[l] = 1 /\ HoldersBar' = [HoldersBar EXCEPT ![l] = 0] /\ AssuredBar' = AssuredBar \ {l}
  BY <1>1, BarsLose
<1>3. QED
  BY <1>2, SeesLose DEF SameLogins

\* A step that moves no login, or takes or loses one.
LEMMA HeldSees ==
  ASSUME StoresInv, StoresInv', SameLogins, NEW c \in Clients,
         Quiet \/ PayLost(c) \/ \E t : TokenLost(t) \/ Taken(c, t)
  PROVE  Sees /\ Held' \subseteq Held
<1>1. CASE Held' = Held
  BY <1>1, BarsStay, SeesNothing DEF SameLogins
<1>2. CASE PayLost(c)
  BY <1>2, PayLostHeld, LosesLogin
<1>3. ASSUME NEW t, TokenLost(t) PROVE Sees /\ Held' \subseteq Held
  BY <1>3, TokenLostHeld, LosesLogin
<1>4. QED
  BY <1>1, <1>2, <1>3, QuietHeld, TakenHeld

LEMMA PlainSeen ==
  ASSUME Before, NEW c \in Clients, Moves(c), SameLogins, Settled(c)',
         Quiet \/ PayLost(c) \/ \E t : TokenLost(t) \/ Taken(c, t)
  PROVE  Follows
<1>1. Sees /\ Held' \subseteq Held
  BY HeldSees DEF Before
<1>2. TicketInv'
  BY <1>1, KeepsTickets DEF Before, Settled, SameLogins
<1>3. QED
  BY <1>1, <1>2 DEF Follows


LEMMA DeliverSeen ==
  ASSUME Before, NEW c \in Clients, Moves(c), Deliver(c)
  PROVE  Follows
<1>1. ASSUME NEW l \in {"store"}, Goto(c, l) PROVE Settled(c)'
  BY <1>1, GotoSettled DEF Before, Marked, OfPasskey
<1>2. Refuse(c) => Settled(c)'
  BY RefuseSettled DEF Before
<1>3. Settled(c)'
  BY <1>1, <1>2 DEF Deliver
<1>4. SameLogins
  BY DEF Deliver, SameLogins, world, observers
<1>5. Quiet \/ PayLost(c) \/ \E t : TokenLost(t)
  BY DeliverKeeps DEF Before
<1>6. QED
  BY <1>3, <1>4, <1>5, PlainSeen

LEMMA DeliveryFailsSeen ==
  ASSUME Before, NEW c \in Clients, Moves(c), DeliveryFails(c)
  PROVE  Follows
<1>1. Refuse(c) => Settled(c)'
  BY RefuseSettled DEF Before
<1>2. Settled(c)'
  BY <1>1 DEF DeliveryFails
<1>3. SameLogins
  BY DEF DeliveryFails, SameLogins, world, observers
<1>4. Quiet \/ PayLost(c) \/ \E t : TokenLost(t)
  BY DeliveryFailsKeeps DEF Before
<1>5. QED
  BY <1>2, <1>3, <1>4, PlainSeen

LEMMA StoreOtpSeen ==
  ASSUME Before, NEW c \in Clients, Moves(c), StoreOtp(c)
  PROVE  Follows
<1>1. ASSUME NEW l \in {"deliver"}, Goto(c, l) PROVE Settled(c)'
  BY <1>1, GotoSettled DEF Before, Marked, OfPasskey
<1>2. Refuse(c) => Settled(c)'
  BY RefuseSettled DEF Before
<1>3. ASSUME Step(c, [req[c] EXCEPT !.at = "deliver", !.new = Len(token) + 1]) PROVE Settled(c)'
  <2>1. req[c] \in RequestState
    BY StoresAre DEF Before
  <2>2. PICK r : r = [req[c] EXCEPT !.at = "deliver", !.new = Len(token) + 1]
    OBVIOUS
  <2>3. r.at \notin Marked
    BY <2>1, <2>2 DEF RequestState, Marked, OfPasskey
  <2>4. QED
    BY <1>3, <2>2, <2>3, StepSettled DEF Before
<1>4. Settled(c)'
  BY <1>1, <1>2, <1>3 DEF StoreOtp
<1>5. SameLogins
  BY DEF StoreOtp, SameLogins, world, observers
<1>6. Quiet \/ PayLost(c) \/ \E t : TokenLost(t)
  BY StoreOtpKeeps DEF Before
<1>7. QED
  BY <1>4, <1>5, <1>6, PlainSeen

LEMMA CompareTotpSeen ==
  ASSUME Before, NEW c \in Clients, Moves(c), CompareTotp(c)
  PROVE  Follows
<1>1. ASSUME Step(c, [req[c] EXCEPT !.at = IF factor[req[c].fac].status = "active" /\ AcceptsStep(factor[req[c].fac].step, req[c].code)
                          THEN "advance" ELSE "count", !.seen = factor[req[c].fac].step]) PROVE Settled(c)'
  <2>1. req[c] \in RequestState
    BY StoresAre DEF Before
  <2>2. PICK r : r = [req[c] EXCEPT !.at = IF factor[req[c].fac].status = "active" /\ AcceptsStep(factor[req[c].fac].step, req[c].code)
                          THEN "advance" ELSE "count", !.seen = factor[req[c].fac].step]
    OBVIOUS
  <2>3. r.at \notin Marked
    BY <2>1, <2>2 DEF RequestState, Marked, OfPasskey
  <2>4. QED
    BY <1>1, <2>2, <2>3, StepSettled DEF Before
<1>2. Settled(c)'
  BY <1>1 DEF CompareTotp
<1>3. SameLogins
  BY DEF CompareTotp, SameLogins, world, observers
<1>4. Quiet \/ PayLost(c) \/ \E t : TokenLost(t)
  BY CompareTotpKeeps DEF Before
<1>5. QED
  BY <1>2, <1>3, <1>4, PlainSeen

LEMMA CountFactorFailureSeen ==
  ASSUME Before, NEW c \in Clients, Moves(c), CountFactorFailure(c)
  PROVE  Follows
<1>1. ASSUME NEW l \in {"lock"}, Goto(c, l) PROVE Settled(c)'
  BY <1>1, GotoSettled DEF Before, Marked, OfPasskey
<1>2. Refuse(c) => Settled(c)'
  BY RefuseSettled DEF Before
<1>3. Settled(c)'
  BY <1>1, <1>2 DEF CountFactorFailure
<1>4. SameLogins
  BY DEF CountFactorFailure, SameLogins, world, observers
<1>5. Quiet \/ PayLost(c) \/ \E t : TokenLost(t)
  BY CountFactorFailureKeeps DEF Before
<1>6. QED
  BY <1>3, <1>4, <1>5, PlainSeen

LEMMA LockFactorSeen ==
  ASSUME Before, NEW c \in Clients, Moves(c), LockFactor(c)
  PROVE  Follows
<1>1. Refuse(c) => Settled(c)'
  BY RefuseSettled DEF Before
<1>2. Settled(c)'
  BY <1>1 DEF LockFactor
<1>3. SameLogins
  BY DEF LockFactor, SameLogins, world, observers
<1>4. Quiet \/ PayLost(c) \/ \E t : TokenLost(t)
  BY LockFactorKeeps DEF Before
<1>5. QED
  BY <1>2, <1>3, <1>4, PlainSeen

LEMMA CountChallengeFailureSeen ==
  ASSUME Before, NEW c \in Clients, Moves(c), CountChallengeFailure(c)
  PROVE  Follows
<1>1. ASSUME NEW l \in {"delete"}, Goto(c, l) PROVE Settled(c)'
  BY <1>1, GotoSettled DEF Before, Marked, OfPasskey
<1>2. Refuse(c) => Settled(c)'
  BY RefuseSettled DEF Before
<1>3. Settled(c)'
  BY <1>1, <1>2 DEF CountChallengeFailure
<1>4. SameLogins
  BY DEF CountChallengeFailure, SameLogins, world, observers
<1>5. Quiet \/ PayLost(c) \/ \E t : TokenLost(t)
  BY CountChallengeFailureKeeps DEF Before
<1>6. QED
  BY <1>3, <1>4, <1>5, PlainSeen

LEMMA DeleteChallengeSeen ==
  ASSUME Before, NEW c \in Clients, Moves(c), DeleteChallenge(c)
  PROVE  Follows
<1>1. Refuse(c) => Settled(c)'
  BY RefuseSettled DEF Before
<1>2. Settled(c)'
  BY <1>1 DEF DeleteChallenge
<1>3. SameLogins
  BY DEF DeleteChallenge, SameLogins, world, observers
<1>4. Quiet \/ PayLost(c) \/ \E t : TokenLost(t)
  BY DeleteChallengeKeeps DEF Before
<1>5. QED
  BY <1>2, <1>3, <1>4, PlainSeen

LEMMA SelectPendingSeen ==
  ASSUME Before, NEW c \in Clients, Moves(c), SelectPending(c)
  PROVE  Follows
<1>1. ASSUME NEW l \in {"insert totp"}, Goto(c, l) PROVE Settled(c)'
  BY <1>1, GotoSettled DEF Before, Marked, OfPasskey
<1>2. Settled(c)'
  BY <1>1 DEF SelectPending
<1>3. SameLogins
  BY DEF SelectPending, SameLogins, world, observers
<1>4. Quiet \/ PayLost(c) \/ \E t : TokenLost(t)
  BY SelectPendingKeeps DEF Before
<1>5. QED
  BY <1>2, <1>3, <1>4, PlainSeen

LEMMA InsertPendingSeen ==
  ASSUME Before, NEW c \in Clients, Moves(c), InsertPending(c)
  PROVE  Follows
<1>1. ASSUME Step(c, [req[c] EXCEPT !.at = "store", !.fac = Len(factor) + 1]) PROVE Settled(c)'
  <2>1. req[c] \in RequestState
    BY StoresAre DEF Before
  <2>2. PICK r : r = [req[c] EXCEPT !.at = "store", !.fac = Len(factor) + 1]
    OBVIOUS
  <2>3. r.at \notin Marked
    BY <2>1, <2>2 DEF RequestState, Marked, OfPasskey
  <2>4. QED
    BY <1>1, <2>2, <2>3, StepSettled DEF Before
<1>2. Settled(c)'
  BY <1>1 DEF InsertPending
<1>3. SameLogins
  BY DEF InsertPending, SameLogins, world, observers
<1>4. Quiet \/ PayLost(c) \/ \E t : TokenLost(t)
  BY InsertPendingKeeps DEF Before
<1>5. QED
  BY <1>2, <1>3, <1>4, PlainSeen

LEMMA StopSeen ==
  ASSUME Before, NEW c \in Clients, Moves(c), Stop(c)
  PROVE  Follows
<1>1. Refuse(c) => Settled(c)'
  BY RefuseSettled DEF Before
<1>2. Settled(c)'
  BY <1>1 DEF Stop
<1>3. SameLogins
  BY DEF Stop, SameLogins, world, observers
<1>4. Quiet \/ PayLost(c) \/ \E t : TokenLost(t)
  BY StopKeeps DEF Before
<1>5. QED
  BY <1>2, <1>3, <1>4, PlainSeen

LEMMA SetupTotpSeen ==
  ASSUME Before, NEW c \in Clients, Moves(c), NEW t \in DOMAIN token, SetupTotp(c, t)
  PROVE  Follows
<1>1. PICK r : r = [Reading(t) EXCEPT !.at = "setup", !.kind = "enroll"]
  OBVIOUS
<1>2. r.at \notin Marked
  BY <1>1 DEF Reading, Idle, Marked, OfPasskey
<1>3. Settled(c)'
  BY <1>1, <1>2, StepSettled DEF Before, SetupTotp
<1>4. SameLogins
  BY DEF SetupTotp, OpenWorkflow, SameLogins, world, observers
<1>5. Quiet \/ PayLost(c)
  BY SetupTotpKeeps DEF Before
<1>6. QED
  BY <1>3, <1>4, <1>5, PlainSeen

LEMMA PasskeyRegistrationOptionsSeen ==
  ASSUME Before, NEW c \in Clients, Moves(c), NEW t \in DOMAIN token, PasskeyRegistrationOptions(c, t)
  PROVE  Follows
<1>1. PICK r : r = [Reading(t) EXCEPT !.at = "register", !.kind = "register"]
  OBVIOUS
<1>2. r.at \notin Marked
  BY <1>1 DEF Reading, Idle, Marked, OfPasskey
<1>3. Settled(c)'
  BY <1>1, <1>2, StepSettled DEF Before, PasskeyRegistrationOptions
<1>4. SameLogins
  BY DEF PasskeyRegistrationOptions, OpenWorkflow, SameLogins, world, observers
<1>5. Quiet \/ PayLost(c)
  BY PasskeyRegistrationOptionsKeeps DEF Before
<1>6. QED
  BY <1>3, <1>4, <1>5, PlainSeen

LEMMA PasskeyAuthenticationOptionsSeen ==
  ASSUME Before, NEW c \in Clients, Moves(c), NEW t \in DOMAIN token, PasskeyAuthenticationOptions(c, t)
  PROVE  Follows
<1>1. PICK r : r = [Reading(t) EXCEPT !.at = "authenticate", !.kind = "authenticate"]
  OBVIOUS
<1>2. r.at \notin Marked
  BY <1>1 DEF Reading, Idle, Marked, OfPasskey
<1>3. Settled(c)'
  BY <1>1, <1>2, StepSettled DEF Before, PasskeyAuthenticationOptions
<1>4. SameLogins
  BY DEF PasskeyAuthenticationOptions, OpenWorkflow, SameLogins, world, observers
<1>5. Quiet \/ PayLost(c)
  BY PasskeyAuthenticationOptionsKeeps DEF Before
<1>6. QED
  BY <1>3, <1>4, <1>5, PlainSeen

LEMMA ProveCollisionPasswordSeen ==
  ASSUME Before, NEW c \in Clients, Moves(c), NEW t \in DOMAIN token, ProveCollisionPassword(c, t)
  PROVE  Follows
<1>1. PICK r : r = [Reading(t) EXCEPT !.at = "prove"]
  OBVIOUS
<1>2. r.at \notin Marked
  BY <1>1 DEF Reading, Idle, Marked, OfPasskey
<1>3. Settled(c)'
  BY <1>1, <1>2, StepSettled DEF Before, ProveCollisionPassword
<1>4. SameLogins
  BY DEF ProveCollisionPassword, OpenWorkflow, SameLogins, world, observers
<1>5. Quiet \/ PayLost(c)
  BY ProveCollisionPasswordKeeps DEF Before
<1>6. QED
  BY <1>3, <1>4, <1>5, PlainSeen

LEMMA ResendChallengeSeen ==
  ASSUME Before, NEW c \in Clients, Moves(c), NEW t \in DOMAIN token, ResendChallenge(c, t)
  PROVE  Follows
<1>1. PICK r : r = [Reading(t) EXCEPT !.at = "send", !.new = t]
  OBVIOUS
<1>2. r.at \notin Marked
  BY <1>1 DEF Reading, Idle, Marked, OfPasskey
<1>3. Settled(c)'
  BY <1>1, <1>2, StepSettled DEF Before, ResendChallenge
<1>4. SameLogins
  BY DEF ResendChallenge, SameLogins, world, observers
<1>5. Quiet \/ PayLost(c)
  BY ResendChallengeKeeps DEF Before
<1>6. QED
  BY <1>3, <1>4, <1>5, PlainSeen

LEMMA IssueChallengeSeen ==
  ASSUME Before, NEW c \in Clients, Moves(c), NEW t \in DOMAIN token, NEW m \in VerifyMethods, IssueChallenge(c, t, m)
  PROVE  Follows
<1>1. PICK f : Step(c, [Reading(t) EXCEPT !.at = "challenge", !.fac = f, !.method = m])
  BY DEF IssueChallenge
<1>2. PICK r : r = [Reading(t) EXCEPT !.at = "challenge", !.fac = f, !.method = m]
  OBVIOUS
<1>3. r.at \notin Marked
  BY <1>2 DEF Reading, Idle, Marked, OfPasskey
<1>4. Settled(c)'
  BY <1>1, <1>2, <1>3, StepSettled DEF Before
<1>5. SameLogins
  BY DEF IssueChallenge, OpenWorkflow, SameLogins, world, observers
<1>6. Quiet \/ PayLost(c)
  BY IssueChallengeKeeps DEF Before
<1>7. QED
  BY <1>4, <1>5, <1>6, PlainSeen

LEMMA ConfirmTotpSeen ==
  ASSUME Before, NEW c \in Clients, Moves(c), NEW t \in DOMAIN token, NEW code \in Nat, ConfirmTotp(c, t, code)
  PROVE  Follows
<1>1. PICK r : r = [Reading(t) EXCEPT !.at = IF AcceptsStep(0, code) THEN "activate" ELSE "count",
                              !.fac = token[t].fac, !.code = code]
  OBVIOUS
<1>2. r.at \notin Marked
  BY <1>1 DEF Reading, Idle, Marked, OfPasskey
<1>3. Settled(c)'
  BY <1>1, <1>2, StepSettled DEF Before, ConfirmTotp
<1>4. SameLogins
  BY DEF ConfirmTotp, SameLogins, world, observers
<1>5. Quiet \/ PayLost(c)
  BY ConfirmTotpKeeps DEF Before
<1>6. QED
  BY <1>3, <1>4, <1>5, PlainSeen

LEMMA VerifyChallengeSeen ==
  ASSUME Before, NEW c \in Clients, Moves(c), NEW t \in DOMAIN token, NEW code \in Nat, VerifyChallenge(c, t, code)
  PROVE  Follows
<1>1. PICK r : r = [Reading(t) EXCEPT !.at = token[t].method, !.fac = token[t].fac, !.code = code]
  OBVIOUS
<1>2. token[t].method \in VerifyMethods
  <2>1. Live(t, {"verify"}) /\ GoodToken(token[t])
    BY StoresAre DEF Before, VerifyChallenge
  <2>2. QED
    BY <2>1 DEF Live, GoodToken
<1>3. r.at \notin Marked
  BY <1>1, <1>2 DEF Reading, Idle, Marked, OfPasskey, VerifyMethods
<1>4. Settled(c)'
  BY <1>1, <1>3, StepSettled DEF Before, VerifyChallenge
<1>5. SameLogins
  BY DEF VerifyChallenge, SameLogins, world, observers
<1>6. Quiet \/ PayLost(c)
  BY VerifyChallengeKeeps DEF Before
<1>7. QED
  BY <1>4, <1>5, <1>6, PlainSeen
-----------------------------------------------------------------------------
(***************************************************************************)
(* A request that proved something goes on with it.                        *)
(***************************************************************************)
Completing == {"complete", "codes", "new codes", "insert codes"}

LEMMA CompletingSettled ==
  ASSUME NEW c, req'[c].at \in Completing, ProvedFor(req[c].pay.login)'
  PROVE  Settled(c)'
BY DEF Settled, Proved, Unspent, OfPasskey, Completing

LEMMA GoesOnCompleting ==
  ASSUME Before, NEW c \in Clients, NEW label \in Completing, Goto(c, label), pledge \subseteq pledge',
         ProvedFor(req[c].pay.login)
  PROVE  Settled(c)'
<1>1. req'[c].at = label /\ req'[c].pay = req[c].pay
  BY GotoIs DEF Before
<1>2. ProvedFor(req[c].pay.login)'
  BY <1>1 DEF ProvedFor
<1>3. QED
  BY <1>1, <1>2, CompletingSettled

LEMMA IsProved ==
  ASSUME Before, NEW c \in Clients
  PROVE  /\ Proved(req[c]) /\ Unspent(c)
         /\ req[c].at \in Completing => ProvedFor(req[c].pay.login)
         /\ req[c].pay # None /\ req[c].pay.assured => ProvedFor(req[c].pay.login)
<1>1. Proved(req[c]) /\ Unspent(c)
  BY DEF Before, TicketInv, RequestsProved
<1>2. ASSUME req[c].pay # None, req[c].pay.assured PROVE ProvedFor(req[c].pay.login)
  <2>1. req[c].pay \in Held
    BY <1>2, RequestPay DEF Before
  <2>2. QED
    BY <1>2, <2>1 DEF Before, TicketInv, PaysTrue, TruePay
<1>3. QED
  BY <1>1, <1>2 DEF Proved, Completing

LEMMA EnsureBackupCodesSeen ==
  ASSUME Before, NEW c \in Clients, Moves(c), EnsureBackupCodes(c)
  PROVE  Follows
<1>1. SameLogins
  BY DEF EnsureBackupCodes, SameLogins, world, observers
<1>2. ProvedFor(req[c].pay.login)
  BY IsProved DEF EnsureBackupCodes, Completing
<1>3. ASSUME NEW l \in {"new codes", "complete"}, Goto(c, l) PROVE Settled(c)'
  BY <1>1, <1>2, <1>3, GoesOnCompleting DEF Completing, SameLogins
<1>4. Settled(c)'
  BY <1>3 DEF EnsureBackupCodes
<1>5. Quiet \/ PayLost(c)
  BY EnsureBackupCodesKeeps DEF Before
<1>6. QED
  BY <1>1, <1>4, <1>5, PlainSeen

LEMMA ReplaceBackupCodesSeen ==
  ASSUME Before, NEW c \in Clients, Moves(c), ReplaceBackupCodes(c)
  PROVE  Follows
<1>1. SameLogins
  BY DEF ReplaceBackupCodes, SameLogins
<1>2. ProvedFor(req[c].pay.login)
  BY IsProved DEF ReplaceBackupCodes, Completing
<1>3. ASSUME NEW l \in {"insert codes", "complete"}, Goto(c, l) PROVE Settled(c)'
  BY <1>1, <1>2, <1>3, GoesOnCompleting DEF Completing, SameLogins
<1>4. Settled(c)'
  BY <1>3 DEF ReplaceBackupCodes
<1>5. Quiet \/ PayLost(c)
  BY ReplaceBackupCodesKeeps DEF Before
<1>6. QED
  BY <1>1, <1>4, <1>5, PlainSeen

LEMMA InsertBackupCodesSeen ==
  ASSUME Before, NEW c \in Clients, Moves(c), InsertBackupCodes(c)
  PROVE  Follows
<1>1. SameLogins
  BY DEF InsertBackupCodes, SameLogins
<1>2. ProvedFor(req[c].pay.login)
  BY IsProved DEF InsertBackupCodes, Completing
<1>3. ASSUME NEW l \in {"complete"}, Goto(c, l) PROVE Settled(c)'
  BY <1>1, <1>2, <1>3, GoesOnCompleting DEF Completing, SameLogins
<1>4. Settled(c)'
  BY <1>3 DEF InsertBackupCodes
<1>5. Quiet \/ PayLost(c)
  BY InsertBackupCodesKeeps DEF Before
<1>6. QED
  BY <1>1, <1>4, <1>5, PlainSeen

LEMMA RevokeRowSeen ==
  ASSUME Before, NEW c \in Clients, Moves(c), RevokeRow(c)
  PROVE  Follows
<1>1. SameLogins
  BY DEF RevokeRow, SameLogins, world
<1>2. ProvedFor(req[c].pay.login)
  <2>1. req[c].at = "revoke row" /\ Placed(req[c])
    BY StoresAre DEF RevokeRow, Before
  <2>2. req[c].pay # None
    BY <2>1 DEF Placed, Carries
  <2>3. req[c].pay.assured
    BY <2>1, IsProved DEF Proved
  <2>4. QED
    BY <2>2, <2>3, IsProved
<1>3. ASSUME NEW l \in {"complete"}, Goto(c, l) PROVE Settled(c)'
  BY <1>1, <1>2, <1>3, GoesOnCompleting DEF Completing, SameLogins
<1>4. Refuse(c) => Settled(c)'
  BY RefuseSettled DEF Before
<1>5. Settled(c)'
  BY <1>3, <1>4 DEF RevokeRow
<1>6. Quiet \/ PayLost(c)
  BY RevokeRowKeeps DEF Before
<1>7. QED
  BY <1>1, <1>5, <1>6, PlainSeen

LEMMA RevokeFactorSeen ==
  ASSUME Before, NEW c \in Clients, Moves(c), NEW t \in DOMAIN token, NEW f \in DOMAIN factor, RevokeFactor(c, t, f)
  PROVE  Follows
<1>1. PICK r : r = [Reading(t) EXCEPT !.at = "revoke", !.fac = f]
  OBVIOUS
<1>2. r.at = "revoke" /\ r.read = token[t].pay
  BY <1>1 DEF Reading, Idle
<1>3. req'[c] = r
  BY <1>1, StepMoves DEF RevokeFactor, Before, StoresInv
<1>4. Settled(c)'
  BY <1>2, <1>3 DEF RevokeFactor, Settled, Proved, Unspent, OfPasskey
<1>5. SameLogins
  BY DEF RevokeFactor, OpenWorkflow, SameLogins, world, observers
<1>6. Quiet \/ PayLost(c)
  BY RevokeFactorKeeps DEF Before
<1>7. QED
  BY <1>4, <1>5, <1>6, PlainSeen

\* consume_mfa_challenge: the payload is the one that was read when the code was checked.
LEMMA TakeChallengeSeen ==
  ASSUME Before, NEW c \in Clients, Moves(c), TakeChallenge(c)
  PROVE  Follows
<1>1. SameLogins /\ req[c].at = "consume"
  BY DEF TakeChallenge, SameLogins, world, observers
<1>2. req[c] \in RequestState /\ Placed(req[c])
  BY StoresAre DEF Before
<1>3. Saw(req[c])
  BY <1>1, <1>2 DEF Placed, Reads
<1>4. PICK t : t = req[c].tok
  OBVIOUS
<1>5. ASSUME token[t].state = "live", NEW l \in {"codes", "complete"}, Step(c, [req[c] EXCEPT !.pay = token[t].pay, !.at = l])
      PROVE  Settled(c)'
  <2>1. PICK r : r = [req[c] EXCEPT !.pay = token[t].pay, !.at = l]
    OBVIOUS
  <2>2. r.at = l /\ r.pay = req[c].read
    BY <1>2, <1>3, <1>4, <1>5, <2>1 DEF RequestState, Saw
  <2>3. req'[c] = r
    BY <1>5, <2>1, StepMoves DEF Before, StoresInv
  <2>4. ProvedFor(req[c].read.login)
    BY <1>1, IsProved DEF Proved
  <2>5. ProvedFor(req[c].pay.login)'
    BY <1>1, <2>2, <2>3, <2>4 DEF ProvedFor, SameLogins
  <2>6. req'[c].at \in Completing
    BY <2>2, <2>3 DEF Completing
  <2>7. QED
    BY <2>5, <2>6, CompletingSettled
<1>6. Refuse(c) => Settled(c)'
  BY RefuseSettled DEF Before
<1>7. Settled(c)'
  <2>1. PICK l \in {"codes", "complete"} : l = IF token[t].kind = "enroll" THEN "codes" ELSE "complete"
    OBVIOUS
  <2>2. CASE token[t].state = "live"
    <3>1. Step(c, [req[c] EXCEPT !.pay = token[t].pay, !.at = l])
      BY <1>4, <2>1, <2>2, Zenon DEF TakeChallenge
    <3>2. QED
      BY <1>5, <2>2, <3>1
  <2>3. QED
    BY <1>4, <1>6, <2>2 DEF TakeChallenge
<1>8. Quiet \/ PayLost(c) \/ \E s : Taken(c, s)
  BY TakeChallengeKeeps DEF Before
<1>9. QED
  BY <1>1, <1>7, <1>8, PlainSeen

\* A challenge of a passkey that was taken was not taken before.
LEMMA TakeWebAuthnSeen ==
  ASSUME Before, NEW c \in Clients, Moves(c), NEW t, NEW purpose, NEW q, TakeWebAuthn(c, t, purpose, q),
         q \in RequestState, q.at \in {"attestation", "assertion"}, TokenLost(t) \/ Taken(c, t)
  PROVE  Follows
<1>1. SameLogins /\ LiveAt(t) /\ req[c] = Idle /\ token' = [token EXCEPT ![t] = Gone]
  BY DEF TakeWebAuthn, SameLogins, world, observers, Live, LiveAt
<1>2. CASE UNCHANGED req
  <2>1. req'[c].at = "idle"
    BY <1>1, <1>2, IdleIs
  <2>2. Settled(c)'
    BY <2>1, UnmarkedSettled DEF Marked, OfPasskey
  <2>3. QED
    BY <1>1, <2>2, PlainSeen
<1>3. CASE Step(c, [q EXCEPT !.tok = t, !.pay = token[t].pay])
  <2>1. PICK r : r = [q EXCEPT !.tok = t, !.pay = token[t].pay]
    OBVIOUS
  <2>2. r.at = q.at /\ r.tok = t
    BY <2>1 DEF RequestState
  <2>3. req'[c] = r /\ \A d \in Clients : d # c => req'[d] = req[d]
    BY <1>3, <2>1, StepMoves DEF Before, StoresInv
  <2>4. t \in DOMAIN token' /\ token'[t].state = "gone" /\ token[t].state = "live"
    BY <1>1, GoneIs DEF LiveAt
  <2>5. Proved(req[c])'
    BY <2>2, <2>3, <2>4 DEF Proved
  <2>6. ASSUME NEW e \in pledge PROVE e.proof # <<"enroll", t, 0>> /\ e.proof # <<"passkey", t, 0>>
    <3>1. Used(e)
      BY DEF Before, TicketInv, ProofsUsed
    <3>2. ASSUME NEW k \in {"enroll", "passkey"}, e.proof = <<k, t, 0>> PROVE FALSE
      <4>1. e.proof[1] = k /\ e.proof[2] = t /\ e.proof[3] = 0
        BY <3>2
      <4>2. CannotRepeat(k, t, 0)
        BY <3>1, <4>1 DEF Used
      <4>3. QED
        BY <2>4, <3>2, <4>2 DEF CannotRepeat
    <3>3. QED
      BY <3>2
  <2>7. ASSUME NEW d \in Clients, d # c, req'[d].at \in OfPasskey PROVE req'[d].tok # t
    <3>1. token[req'[d].tok].state = "gone"
      BY <2>3, <2>7, IsProved DEF Proved
    <3>2. QED
      BY <2>4, <3>1
  <2>8. Unspent(c)'
    BY <1>1, <2>2, <2>3, <2>6, <2>7 DEF Unspent, SameLogins
  <2>9. QED
    BY <1>1, <2>5, <2>8, PlainSeen DEF Settled
<1>4. QED
  BY <1>2, <1>3 DEF TakeWebAuthn

LEMMA ConfirmPasskeyRegistrationSeen ==
  ASSUME Before, NEW c \in Clients, Moves(c), NEW t, ConfirmPasskeyRegistration(c, t)
  PROVE  Follows
<1>1. PICK q : q = [Idle EXCEPT !.at = "attestation"]
  OBVIOUS
<1>2. q \in RequestState /\ q.at = "attestation"
  BY <1>1, AttestationIs
<1>3. TakeWebAuthn(c, t, "register", q)
  BY <1>1 DEF ConfirmPasskeyRegistration
<1>4. TokenLost(t) \/ Taken(c, t)
  BY ConfirmPasskeyRegistrationKeeps DEF Before
<1>5. QED
  BY <1>2, <1>3, <1>4, TakeWebAuthnSeen

LEMMA VerifyPasskeySeen ==
  ASSUME Before, NEW c \in Clients, Moves(c), NEW t, NEW f \in DOMAIN factor, NEW n \in 0..MaxCount,
         VerifyPasskey(c, t, f, n)
  PROVE  Follows
<1>1. PICK q : q = [Idle EXCEPT !.at = "assertion", !.fac = f, !.code = n]
  OBVIOUS
<1>2. f \in Nat /\ n \in Nat
  BY StoresAre, MfaAssumption DEF Before
<1>3. q \in RequestState /\ q.at = "assertion"
  <2>1. "assertion" \in Labels
    BY LabelsAre
  <2>2. Idle \in RequestState
    BY IdleIs
  <2>3. QED
    BY <1>1, <1>2, <2>1, <2>2 DEF RequestState
<1>4. TakeWebAuthn(c, t, "authenticate", q)
  BY <1>1 DEF VerifyPasskey
<1>5. TokenLost(t) \/ Taken(c, t)
  BY VerifyPasskeyKeeps DEF Before
<1>6. QED
  BY <1>3, <1>4, <1>5, TakeWebAuthnSeen

\* The payload of a login of nobody gets the user of the passkey, and nothing else.
LEMMA CheckAssertionSeen ==
  ASSUME Before, NEW c \in Clients, Moves(c), CheckAssertion(c)
  PROVE  Follows
<1>1. SameLogins /\ req[c].at = "assertion" /\ UNCHANGED <<token, pledge>>
  BY DEF CheckAssertion, SameLogins, world, observers
<1>2. req[c] \in RequestState /\ Placed(req[c])
  BY StoresAre DEF Before
<1>3. req[c].pay # None /\ req[c].pay \in Payload
  BY <1>1, <1>2 DEF Placed, Carries, RequestState
<1>4. CASE Refuse(c)
  <2>1. Settled(c)'
    BY <1>4, RefuseSettled DEF Before
  <2>2. ~Named(c)
    BY <1>4, RefuseIs DEF Named, Before
  <2>3. Quiet \/ PayLost(c)
    BY <2>2, CheckAssertionKeeps DEF Before
  <2>4. QED
    BY <1>1, <2>1, <2>3, PlainSeen
<1>5. PICK x : x = factor[req[c].fac]
  OBVIOUS
<1>6. CASE Step(c, [req[c] EXCEPT !.at = "counter", !.seen = x.count, !.pay.user = x.user])
  <2>1. PICK r : r = [req[c] EXCEPT !.at = "counter", !.seen = x.count, !.pay.user = x.user]
    OBVIOUS
  <2>2. r.at = "counter" /\ r.tok = req[c].tok /\ r.pay = [req[c].pay EXCEPT !.user = x.user]
    BY <1>2, <2>1 DEF RequestState
  <2>3. r.pay.login = req[c].pay.login /\ r.pay.assured = req[c].pay.assured /\ r.pay.decision = req[c].pay.decision
    BY <1>3, <2>2 DEF Payload
  <2>4. req'[c] = r /\ \A d \in Clients : d # c => req'[d] = req[d]
    BY <1>6, <2>1, StepMoves DEF Before, StoresInv
  <2>5. Proved(req[c]) /\ Unspent(c)
    BY IsProved
  <2>6. Proved(req[c])'
    BY <1>1, <2>2, <2>4, <2>5 DEF Proved, OfPasskey
  <2>7. Unspent(c)'
    <3>1. \A d \in Clients : d # c => req'[d].at = req[d].at /\ req'[d].tok = req[d].tok
      BY <2>4
    <3>2. req'[c].at = "counter" /\ req'[c].tok = req[c].tok /\ pledge' = pledge
      BY <1>1, <2>2, <2>4
    <3>3. \A e \in pledge : e.proof # <<"passkey", req[c].tok, 0>>
      BY <1>1, <2>5 DEF Unspent, OfPasskey
    <3>4. \A d \in Clients : req[d].at \in OfPasskey /\ req[d].tok = req[c].tok => c = d
      BY <1>1, <2>5 DEF Unspent, OfPasskey
    <3>5. QED
      BY <3>1, <3>2, <3>3, <3>4 DEF Unspent
  <2>8. Named(c)
    <3>1. r.pay # None
      <4>1. req'[c] \in RequestState /\ Placed(req[c])'
        BY DEF Before, StoresInv, Requests
      <4>2. QED
        BY <2>2, <2>4, <4>1 DEF Placed, Carries
    <3>2. QED
      BY <1>1, <1>3, <2>3, <2>4, <3>1 DEF Named, SameTokens, SamePays, LiveAt
  <2>9. req[c].pay \in Held /\ Held' = (Held \ {req[c].pay}) \cup {r.pay}
    BY <2>4, <2>8, NamedHeld DEF Before
  <2>10. TruePay(r.pay)'
    <3>1. TruePay(req[c].pay)
      BY <2>9 DEF Before, TicketInv, PaysTrue
    <3>2. began' = began
      BY <1>1 DEF SameLogins
    <3>3. QED
      BY <1>1, <2>3, <3>1, <3>2 DEF TruePay, ProvedFor
  <2>11. TicketInv'
    BY <1>1, <2>6, <2>7, <2>9, <2>10, KeepsTickets DEF Before
  <2>12. HoldersBar' = HoldersBar /\ AssuredBar' = AssuredBar
    <3>1. PICK l, p, q : p = req[c].pay /\ q = r.pay /\ l = p.login
      OBVIOUS
    <3>2. Swapped(p, q) /\ q.assured = p.assured
      BY <2>3, <2>9, <3>1 DEF Swapped
    <3>3. StoresInv /\ StoresInv'
      BY DEF Before
    <3>4. HoldersBar' = HoldersBar /\ (q.assured = p.assured => AssuredBar' = AssuredBar)
      BY <3>1, <3>2, <3>3, BarsSwap
    <3>5. QED
      BY <3>2, <3>4
  <2>13. Sees
    BY <1>1, <2>12, SeesNothing DEF SameLogins
  <2>14. QED
    BY <2>11, <2>13 DEF Follows
<1>7. QED
  BY <1>4, <1>5, <1>6 DEF CheckAssertion
-----------------------------------------------------------------------------
(***************************************************************************)
(* A challenge is stored, and a login ends or is assured.                  *)
(***************************************************************************)
LEMMA SameHeldSeen ==
  ASSUME Before, NEW c \in Clients, Moves(c), SameLogins, Settled(c)', Held' = Held
  PROVE  Follows
<1>1. Sees
  BY BarsStay, SeesNothing DEF Before, SameLogins
<1>2. TicketInv'
  BY KeepsTickets DEF Before, Settled, SameLogins
<1>3. QED
  BY <1>1, <1>2 DEF Follows

LEMMA StoreChallengeSeen ==
  ASSUME Before, NEW c \in Clients, Moves(c), StoreChallenge(c)
  PROVE  Follows
<1>1. SameLogins
  BY DEF StoreChallenge, SameLogins, world, observers
<1>2. Settled(c)'
  BY RefuseSettled DEF Before, StoreChallenge
<1>3. PICK t : Put(c, t) /\ token'[t].pay = req[c].pay
  BY StoreChallengeKeeps DEF Before
<1>4. Held' = Held
  BY <1>3, PutHeld DEF Before
<1>5. QED
  BY <1>1, <1>2, <1>4, SameHeldSeen

\* _complete after a collision: the identity is linked, unless somebody else was faster.
LEMMA LinksIdentity ==
  ASSUME Before, NEW c \in Clients, Complete(c), req[c].pay.subject # None
  PROVE  Sees /\ Held' \subseteq Held
<1>1. PICK p, l : p = req[c].pay /\ l = p.login
  OBVIOUS
<1>2. /\ UNCHANGED <<token, began, pledge, sessions>> /\ req[c].at = "complete"
      /\ linked' = IF Linkable(p.subject) THEN linked \cup {<<p.subject, p.user, p.login>>} ELSE linked
  BY <1>1 DEF Complete, observers
<1>3. PayLost(c)
  <2>1. ASSUME NEW t PROVE ~Put(c, t)
    BY <1>2 DEF Put, LiveAt
  <2>2. QED
    BY <2>1, CompleteKeeps DEF Before
<1>4. p \in Held /\ Held' = Held \ {p}
  BY <1>1, <1>3, PayLostHeld DEF Before
<1>5. l \in Logins /\ HoldersBar[l] = 1 /\ HoldersBar' = [HoldersBar EXCEPT ![l] = 0] /\ AssuredBar' = AssuredBar \ {l}
  BY <1>1, <1>4, BarsLose DEF Before
<1>6. ProvedFor(l)
  BY <1>1, <1>2, IsProved DEF Completing
<1>7. CASE linked' = linked
  BY <1>2, <1>5, <1>7, SeesLose, <1>4
<1>8. CASE linked' = linked \cup {<<p.subject, p.user, l>>}
  <2>1. LinksBar' = LinksBar \cup {l}
    <3>1. PICK x : x = <<p.subject, p.user, l>>
      OBVIOUS
    <3>2. linked' = linked \cup {x} /\ x[3] = l
      BY <1>8, <3>1
    <3>3. QED
      BY <3>2 DEF LinksBar
  <2>2. Sees
    BY <1>2, <1>5, <1>6, <2>1, SeesLink DEF ProvedFor
  <2>3. QED
    BY <1>4, <2>2
<1>9. QED
  BY <1>1, <1>2, <1>7, <1>8

\* _complete otherwise: the new workflow is assured, and the proof for it was spent.
LEMMA AssuresLogin ==
  ASSUME Before, NEW c \in Clients, Complete(c), req[c].pay.subject = None
  PROVE  Sees /\ \A p \in Held' : p \in Held \/ TruePay(p)'
<1>1. PICK p, l, q : p = req[c].pay /\ l = p.login /\ q = [p EXCEPT !.decision = "session_ready", !.assured = TRUE]
  OBVIOUS
<1>2. PICK row : row = [kind |-> "workflow", state |-> "live", method |-> None, fac |-> 0, pay |-> q]
  OBVIOUS
<1>3. /\ UNCHANGED <<linked, began, pledge, sessions>> /\ req[c].at = "complete"
      /\ token' = Append(token, row)
  BY <1>1, <1>2 DEF Complete, Draw, observers
<1>4. req[c] \in RequestState /\ Placed(req[c])
  BY StoresAre DEF Before
<1>5. p # None /\ p \in Payload
  BY <1>1, <1>3, <1>4 DEF Placed, Carries, RequestState
<1>6. q.login = l /\ q.assured = TRUE
  BY <1>1, <1>5 DEF Payload
<1>7. PICK t : t = Len(token) + 1
  OBVIOUS
<1>8. token'[t] = row /\ LiveAt(t)' /\ ~LiveAt(t) /\ t \in DOMAIN token'
  <2>1. token \in Seq(TokenRow)
    BY DEF Before, StoresInv, TokenTables
  <2>2. token'[t] = row /\ t \in DOMAIN token' /\ t \notin DOMAIN token
    BY <1>3, <1>7, <2>1
  <2>3. QED
    BY <1>2, <2>2 DEF LiveAt
<1>9. Put(c, t)
  <2>1. ~PayLost(c)
    BY <1>8 DEF PayLost, SameTokens
  <2>2. QED
    BY <1>7, <2>1, CompleteKeeps DEF Before
<1>10. p \in Held /\ Held' = (Held \ {p}) \cup {q}
  <2>1. token'[t].pay = q
    BY <1>2, <1>8
  <2>2. QED
    BY <1>1, <1>9, <2>1, PutHeld DEF Before
<1>11. ProvedFor(l)
  BY <1>1, <1>3, IsProved DEF Completing
<1>12. TruePay(q)'
  <2>1. ProvedFor(q.login)'
    BY <1>3, <1>6, <1>11 DEF ProvedFor
  <2>2. QED
    BY <1>6, <2>1 DEF TruePay
<1>13. l \in Logins /\ HoldersBar[l] = 1 /\ HoldersBar' = HoldersBar /\ AssuredBar' = AssuredBar \cup {l}
  <2>1. Swapped(p, q) /\ StoresInv /\ StoresInv'
    BY <1>1, <1>6, <1>10 DEF Swapped, Before
  <2>2. /\ l \in Logins /\ HoldersBar[l] = 1 /\ HoldersBar' = HoldersBar
        /\ q.assured = TRUE => AssuredBar' = AssuredBar \cup {l}
    BY <1>1, <2>1, BarsSwap
  <2>3. QED
    BY <1>6, <2>2
<1>14. Sees
  BY <1>3, <1>11, <1>13, SeesElevate DEF ProvedFor
<1>15. QED
  BY <1>10, <1>12, <1>14

LEMMA CompleteSeen ==
  ASSUME Before, NEW c \in Clients, Moves(c), Complete(c)
  PROVE  Follows
<1>1. pledge' = pledge
  BY DEF Complete
<1>2. Settled(c)'
  BY RefuseSettled DEF Before, Complete
<1>3. Sees /\ \A p \in Held' : p \in Held \/ TruePay(p)'
  BY LinksIdentity, AssuresLogin
<1>4. TicketInv'
  BY <1>1, <1>2, <1>3, KeepsTickets DEF Before, Settled
<1>5. QED
  BY <1>3, <1>4 DEF Follows

-----------------------------------------------------------------------------
(***************************************************************************)
(* Logins begin and end, and time passes.                                  *)
(***************************************************************************)
LEMMA NobodyMovesTickets ==
  ASSUME Before, req' = req, pledge' = pledge, \A p \in Held' : p \in Held \/ TruePay(p)'
  PROVE  TicketInv'
<1>1. PaysTrue'
  BY PaysStayTrue DEF TicketInv, Before
<1>2. ProofsUsed'
  BY SpentStaysUsed DEF TicketInv, ProofsUsed, Before
<1>3. ASSUME NEW c \in Clients PROVE Proved(req[c])' /\ Unspent(c)'
  <2>1. PICK r : r = req[c]
    OBVIOUS
  <2>2. Proved(r)'
    BY <2>1, ProvedStays, IsProved DEF Before
  <2>3. Unspent(c)'
    BY IsProved DEF Unspent
  <2>4. QED
    BY <2>1, <2>2, <2>3
<1>4. QED
  BY <1>1, <1>2, <1>3 DEF TicketInv, RequestsProved

LEMMA NothingSeen ==
  ASSUME Before, req' = req, SameLogins, Quiet
  PROVE  Follows
<1>1. Held' = Held
  BY QuietHeld
<1>2. Sees
  BY <1>1, BarsStay, SeesNothing DEF Before, SameLogins
<1>3. TicketInv'
  BY <1>1, NobodyMovesTickets DEF SameLogins
<1>4. QED
  BY <1>2, <1>3 DEF Follows

LEMMA ExpireTokenSeen ==
  ASSUME Before, NEW t, ExpireToken(t)
  PROVE  Follows
<1>1. SameLogins /\ req' = req
  BY DEF ExpireToken, SameLogins, world, observers
<1>2. PICK p : p \in Held /\ Held' = Held \ {p}
  BY ExpireTokenKeeps, TokenLostHeld DEF Before
<1>3. Sees
  BY <1>1, <1>2, LosesLogin DEF Before
<1>4. TicketInv'
  BY <1>1, <1>2, NobodyMovesTickets DEF SameLogins
<1>5. QED
  BY <1>3, <1>4 DEF Follows

\* create_session: a ready workflow says that the first step sufficed or a factor was proved.
LEMMA CreateSessionSeen ==
  ASSUME Before, NEW t, CreateSession(t)
  PROVE  Follows
<1>1. PICK p, l : p = token[t].pay /\ l = p.login
  OBVIOUS
<1>2. /\ UNCHANGED <<began, linked, pledge, req>>
      /\ sessions' = IF p.decision = "session_ready" /\ p.user \in active THEN sessions \cup {l} ELSE sessions
  BY <1>1 DEF CreateSession, world
<1>3. p \in Held /\ Held' = Held \ {p}
  BY <1>1, CreateSessionKeeps, TokenLostHeld DEF Before
<1>4. l \in Logins /\ HoldersBar[l] = 1 /\ HoldersBar' = [HoldersBar EXCEPT ![l] = 0] /\ AssuredBar' = AssuredBar \ {l}
  BY <1>1, <1>3, BarsLose DEF Before
<1>5. TicketInv'
  BY <1>2, <1>3, NobodyMovesTickets
<1>6. CASE sessions' = sessions
  <2>1. Sees
    BY <1>2, <1>4, <1>6, SeesLose
  <2>2. QED
    BY <1>5, <2>1 DEF Follows
<1>7. CASE p.decision = "session_ready" /\ sessions' = sessions \cup {l}
  <2>1. TruePay(p)
    BY <1>3 DEF Before, TicketInv, PaysTrue
  <2>2. p.assured => l \in AssuredBar
    <3>1. OneHolder
      BY BarsAre DEF Before
    <3>2. p.assured => Assured(l)
      BY <1>1, <1>3 DEF Assured
    <3>3. QED
      BY <1>4, <3>1, <3>2 DEF OneHolder
  <2>3. began[l] = "low" => OriginBar[l] = "low"
    <3>1. l \in DOMAIN began
      BY <1>1, <1>3, HeldAre DEF Before
    <3>2. QED
      BY <1>4, <3>1 DEF OriginBar
  <2>4. OriginBar[l] = "low" \/ l \in AssuredBar
    BY <1>1, <1>7, <2>1, <2>2, <2>3 DEF TruePay
  <2>5. Sees
    BY <1>2, <1>4, <1>7, <2>4, SeesRedeem
  <2>6. QED
    BY <1>5, <2>5 DEF Follows
<1>8. QED
  BY <1>2, <1>6, <1>7

LEMMA LoginBeginsSeen ==
  ASSUME Before, NEW t, Drawn(t), NEW o \in {"low", "guarded"}, began' = Append(began, o), Len(began) < MaxLogins,
         UNCHANGED <<linked, pledge, sessions, req>>, NEW q, token'[t].pay = q, q.login = Len(began) + 1,
         q.assured = FALSE, q.decision = "session_ready" => o = "low"
  PROVE  Follows
<1>1. PICK l : l = Len(began) + 1
  OBVIOUS
<1>2. Held' = Held \cup {q}
  BY DrawnHeld
<1>3. /\ l \in Logins /\ DOMAIN began' = DOMAIN began \cup {l} /\ l \notin DOMAIN began
      /\ began'[l] = o /\ \A k \in DOMAIN began : began'[k] = began[k]
  <2>1. began \in Seq({"low", "guarded"}) /\ MaxLogins \in Nat /\ Len(began) \in Nat
    BY MfaAssumption DEF Before, StoresInv, WorldTables
  <2>2. l \in 1..MaxLogins
    BY <1>1, <2>1
  <2>3. QED
    BY <1>1, <2>1, <2>2, OneMore DEF Logins
<1>4. TruePay(q)'
  BY <1>1, <1>3 DEF TruePay
<1>5. TicketInv'
  BY <1>2, <1>4, NobodyMovesTickets
<1>6. HoldersBar' = [HoldersBar EXCEPT ![l] = 1] /\ AssuredBar' = AssuredBar
  BY <1>1, <1>2, <1>3, BarsStart DEF Before
<1>7. OriginBar[l] = "none" /\ OriginBar' = [OriginBar EXCEPT ![l] = o]
  BY <1>3 DEF OriginBar
<1>8. Sees
  BY <1>3, <1>6, <1>7, SeesStart
<1>9. QED
  BY <1>5, <1>8 DEF Follows

LEMMA PrimaryLoginSeen ==
  ASSUME Before, NEW u \in Users, NEW d \in {"session_ready", "mfa_required"}, NEW s \in Subjects \cup {None},
         PrimaryLogin(u, d, s)
  PROVE  Follows
<1>1. PICK q : q = [login |-> Len(began) + 1, user |-> u, decision |-> d, assured |-> FALSE, subject |-> s]
  OBVIOUS
<1>2. PICK row : row = [kind |-> "workflow", state |-> "live", method |-> None, fac |-> 0, pay |-> q]
  OBVIOUS
<1>3. token' = Append(token, row)
  BY <1>1, <1>2 DEF PrimaryLogin, Draw
<1>4. PICK t : t = Len(token) + 1
  OBVIOUS
<1>5. token'[t] = row
  <2>1. token \in Seq(TokenRow)
    BY DEF Before, StoresInv, TokenTables
  <2>2. QED
    BY <1>3, <1>4, <2>1
<1>6. Drawn(t)
  BY <1>4, PrimaryLoginKeeps DEF Before
<1>7. PICK o \in {"low", "guarded"} : o = IF d = "session_ready" THEN "low" ELSE "guarded"
  OBVIOUS
<1>8. began' = Append(began, o) /\ Len(began) < MaxLogins /\ UNCHANGED <<linked, pledge, sessions, req>>
  BY <1>7 DEF PrimaryLogin, observers
<1>9. token'[t].pay = q /\ q.login = Len(began) + 1 /\ q.assured = FALSE /\ q.decision = d
  BY <1>1, <1>2, <1>5
<1>10. QED
  BY <1>6, <1>7, <1>8, <1>9, LoginBeginsSeen

LEMMA PasskeyPrimaryOptionsSeen ==
  ASSUME Before, NEW c \in Clients, PasskeyPrimaryOptions(c)
  PROVE  Follows
<1>1. PICK q : q = [login |-> Len(began) + 1, user |-> None, decision |-> "mfa_required", assured |-> FALSE,
                    subject |-> None]
  OBVIOUS
<1>2. PICK row : row = [kind |-> "authenticate", state |-> "live", method |-> None, fac |-> 0, pay |-> q]
  OBVIOUS
<1>3. token' = Append(token, row)
  BY <1>1, <1>2 DEF PasskeyPrimaryOptions, Draw
<1>4. PICK t : t = Len(token) + 1
  OBVIOUS
<1>5. token'[t] = row
  <2>1. token \in Seq(TokenRow)
    BY DEF Before, StoresInv, TokenTables
  <2>2. QED
    BY <1>3, <1>4, <2>1
<1>6. Drawn(t)
  BY <1>4, PasskeyPrimaryOptionsKeeps DEF Before
<1>7. began' = Append(began, "guarded") /\ Len(began) < MaxLogins /\ UNCHANGED <<linked, pledge, sessions, req>>
  BY DEF PasskeyPrimaryOptions, observers
<1>8. token'[t].pay = q /\ q.login = Len(began) + 1 /\ q.assured = FALSE /\ q.decision = "mfa_required"
  BY <1>1, <1>2, <1>5
<1>9. QED
  BY <1>6, <1>7, <1>8, LoginBeginsSeen
-----------------------------------------------------------------------------
(***************************************************************************)
(* Proofs are spent.                                                       *)
(***************************************************************************)
LEMMA NewProof ==
  ASSUME Before, NEW k, NEW i, NEW j, ~CannotRepeat(k, i, j)
  PROVE  \A e \in pledge : e.proof # <<k, i, j>>
<1>1. ASSUME NEW e \in pledge, e.proof = <<k, i, j>> PROVE FALSE
  <2>1. e.proof[1] = k /\ e.proof[2] = i /\ e.proof[3] = j
    BY <1>1
  <2>2. Used(e)
    BY DEF Before, TicketInv, ProofsUsed
  <2>3. QED
    BY <2>1, <2>2 DEF Used
<1>2. QED
  BY <1>1

LEMMA ReadsLogin ==
  ASSUME Before, NEW c \in Clients, req[c].at \in Reads
  PROVE  /\ req[c].pay = None /\ req[c].tok \in DOMAIN token /\ req[c].read.login \in DOMAIN began
         /\ token[req[c].tok].state = "live" => token[req[c].tok].pay = req[c].read
<1>1. Placed(req[c])
  BY StoresAre DEF Before
<1>2. req[c].at \notin Carries \cup Sends
  BY DEF Reads, Carries, Sends, Taking
<1>3. QED
  BY <1>1, <1>2 DEF Placed, Saw

LEMMA SpentFor ==
  ASSUME NEW k, NEW i, NEW j, NEW l, Spent(k, i, j, l)
  PROVE  ProvedFor(l)'
<1>1. PICK e : e = [proof |-> <<k, i, j>>, login |-> l]
  OBVIOUS
<1>2. e \in pledge' /\ e.login = l
  BY <1>1 DEF Spent
<1>3. QED
  BY <1>2 DEF ProvedFor

\* A code that was checked for a challenge that was read.
LEMMA SpendsReading ==
  ASSUME Before, NEW c \in Clients, Moves(c), req[c].at \in Reads, Quiet \/ PayLost(c), Goto(c, "consume"),
         UNCHANGED <<began, linked, sessions>>, NEW k, NEW i, NEW j, Spent(k, i, j, req[c].read.login),
         ~CannotRepeat(k, i, j), CannotRepeat(k, i, j)', k \notin {"enroll", "passkey"} \/ j # 0
  PROVE  Follows
<1>1. req[c].pay = None /\ req[c].read.login \in DOMAIN began
  BY ReadsLogin
<1>2. Held' = Held
  BY <1>1, QuietHeld DEF PayLost
<1>3. \A e \in pledge : e.proof # <<k, i, j>>
  BY NewProof
<1>4. req'[c].at = "consume" /\ req'[c].read = req[c].read
  BY GotoIs DEF Before
<1>5. PICK l : l = req[c].read.login
  OBVIOUS
<1>6. ProvedFor(l)'
  BY <1>5, SpentFor
<1>7. Proved(req[c])' /\ req'[c].at \notin OfPasskey
  BY <1>4, <1>5, <1>6 DEF Proved, OfPasskey
<1>8. Spent(k, i, j, l) /\ l \in DOMAIN began
  BY <1>1, <1>5
<1>9. TicketInv' /\ Sees
  BY <1>2, <1>3, <1>7, <1>8, SpendsTicket DEF Before
<1>10. QED
  BY <1>9 DEF Follows

\* The challenge of a passkey, which only this request has taken.
LEMMA SpendsHolding ==
  ASSUME Before, NEW c \in Clients, Moves(c), req[c].at \in OfPasskey, Quiet \/ PayLost(c), NEW label \in Completing,
         Goto(c, label), UNCHANGED <<began, linked, sessions>>, NEW k \in {"enroll", "passkey"},
         req[c].at = "attestation" <=> k = "enroll", Spent(k, req[c].tok, 0, req[c].pay.login)
  PROVE  Follows
<1>1. Placed(req[c])
  BY StoresAre DEF Before
<1>2. req[c].pay # None /\ req[c].pay.login \in DOMAIN began
  BY <1>1 DEF Placed, OfPasskey, Carries
<1>3. req'[c].at = label /\ req'[c].pay = req[c].pay
  BY GotoIs DEF Before
<1>4. Held' = Held
  BY <1>2, <1>3, QuietHeld DEF PayLost
<1>5. PICK i, j, l : i = req[c].tok /\ j = 0 /\ l = req[c].pay.login
  OBVIOUS
<1>6. Proved(req[c]) /\ Unspent(c)
  BY IsProved
<1>7. i \in DOMAIN token /\ token[i].state = "gone"
  BY <1>5, <1>6 DEF Proved
<1>8. CannotRepeat(k, i, j)'
  <2>1. i \in DOMAIN token' /\ token'[i].state = "gone"
    BY <1>7 DEF Before, History, TokensEnd
  <2>2. QED
    BY <1>5, <2>1 DEF CannotRepeat
<1>9. \A e \in pledge : e.proof # <<k, i, j>>
  BY <1>5, <1>6 DEF Unspent, OfPasskey
<1>10. ProvedFor(l)'
  BY <1>5, SpentFor
<1>11. Proved(req[c])' /\ req'[c].at \notin OfPasskey
  BY <1>3, <1>5, <1>10 DEF Proved, OfPasskey, Completing
<1>12. Spent(k, i, j, l) /\ l \in DOMAIN began
  BY <1>2, <1>5
<1>13. TicketInv' /\ Sees
  BY <1>4, <1>5, <1>8, <1>9, <1>11, <1>12, SpendsTicket DEF Before
<1>14. QED
  BY <1>13 DEF Follows

LEMMA CreatePasskeySeen ==
  ASSUME Before, NEW c \in Clients, Moves(c), CreatePasskey(c)
  PROVE  Follows
<1>1. /\ req[c].at = "attestation" /\ Spent("enroll", req[c].tok, 0, req[c].pay.login) /\ Goto(c, "codes")
      /\ UNCHANGED <<began, linked, sessions>>
  BY DEF CreatePasskey, world, observers
<1>2. Quiet \/ PayLost(c)
  BY CreatePasskeyKeeps DEF Before
<1>3. "codes" \in Completing /\ req[c].at \in OfPasskey
  BY <1>1 DEF Completing, OfPasskey
<1>4. QED
  BY <1>1, <1>2, <1>3, SpendsHolding

LEMMA UpdatePasskeyCounterSeen ==
  ASSUME Before, NEW c \in Clients, Moves(c), UpdatePasskeyCounter(c)
  PROVE  Follows
<1>1. req[c].at = "counter" /\ UNCHANGED <<began, linked, sessions>>
  BY DEF UpdatePasskeyCounter, world, observers
<1>2. Quiet \/ PayLost(c)
  BY UpdatePasskeyCounterKeeps DEF Before
<1>3. CASE Spent("passkey", req[c].tok, 0, req[c].pay.login) /\ Goto(c, "complete")
  <2>1. "complete" \in Completing /\ req[c].at \in OfPasskey /\ req[c].at # "attestation"
    BY <1>1 DEF Completing, OfPasskey
  <2>2. QED
    BY <1>1, <1>2, <1>3, <2>1, SpendsHolding
<1>4. CASE Refuse(c) /\ UNCHANGED pledge
  <2>1. Settled(c)' /\ SameLogins
    BY <1>1, <1>4, RefuseSettled DEF Before, SameLogins
  <2>2. QED
    BY <1>2, <2>1, PlainSeen
<1>5. QED
  BY <1>3, <1>4 DEF UpdatePasskeyCounter

\* advance_totp_step: a time step is spent once, since the row moves past it.
LEMMA AdvanceTotpStepSeen ==
  ASSUME Before, NEW c \in Clients, Moves(c), AdvanceTotpStep(c)
  PROVE  Follows
<1>1. PICK f, k : f = req[c].fac /\ k = req[c].code
  OBVIOUS
<1>2. req[c].at = "advance" /\ UNCHANGED <<began, linked, sessions>>
  BY DEF AdvanceTotpStep, world, observers
<1>3. Quiet \/ PayLost(c)
  BY AdvanceTotpStepKeeps DEF Before
<1>4. req[c] \in RequestState /\ Placed(req[c])
  BY StoresAre DEF Before
<1>5. f \in DOMAIN factor /\ k \in Nat /\ req[c].seen \in Nat /\ k > req[c].seen
  BY <1>1, <1>2, <1>4 DEF Placed, OnFactor, RequestState
<1>6. CASE /\ factor[f].step = req[c].seen /\ factor' = [factor EXCEPT ![f].step = k]
           /\ Spent("totp", f, k, req[c].read.login) /\ Goto(c, "consume")
  <2>1. factor[f] \in FactorRow
    BY <1>5, StoresAre DEF Before
  <2>2. ~CannotRepeat("totp", f, k)
    BY <1>5, <1>6 DEF CannotRepeat
  <2>3. f \in DOMAIN factor' /\ factor'[f].step = k
    BY <1>5, <1>6, <2>1 DEF FactorRow
  <2>4. CannotRepeat("totp", f, k)'
    BY <1>5, <2>3 DEF CannotRepeat
  <2>5. req[c].at \in Reads
    BY <1>2 DEF Reads
  <2>6. QED
    BY <1>2, <1>3, <1>6, <2>2, <2>4, <2>5, SpendsReading
<1>7. CASE Goto(c, "count") /\ UNCHANGED pledge
  <2>1. "count" \notin Marked
    BY DEF Marked, OfPasskey
  <2>2. Settled(c)' /\ SameLogins
    BY <1>2, <1>7, <2>1, GotoSettled DEF Before, SameLogins
  <2>3. QED
    BY <1>3, <2>2, PlainSeen
<1>8. QED
  BY <1>1, <1>6, <1>7 DEF AdvanceTotpStep

\* confirm_totp: a pending row is activated once.
LEMMA ActivateTotpSeen ==
  ASSUME Before, NEW c \in Clients, Moves(c), ActivateTotp(c)
  PROVE  Follows
<1>1. PICK f, k : f = req[c].fac /\ k = req[c].code
  OBVIOUS
<1>2. req[c].at = "activate" /\ UNCHANGED <<began, linked, sessions>>
  BY DEF ActivateTotp, world, observers
<1>3. Quiet \/ PayLost(c)
  BY ActivateTotpKeeps DEF Before
<1>4. req[c] \in RequestState /\ Placed(req[c])
  BY StoresAre DEF Before
<1>5. f \in DOMAIN factor /\ k \in Nat /\ k > 0
  BY <1>1, <1>2, <1>4 DEF Placed, OnFactor, RequestState
<1>6. CASE /\ factor[f].status = "pending" /\ factor' = [factor EXCEPT ![f].status = "active", ![f].step = k]
           /\ Spent("enroll", f, k, req[c].read.login) /\ Goto(c, "consume")
  <2>1. factor[f] \in FactorRow
    BY <1>5, StoresAre DEF Before
  <2>2. ~CannotRepeat("enroll", f, k)
    BY <1>5, <1>6 DEF CannotRepeat
  <2>3. f \in DOMAIN factor' /\ factor'[f].status = "active"
    BY <1>5, <1>6, <2>1 DEF FactorRow
  <2>4. CannotRepeat("enroll", f, k)'
    BY <1>5, <2>3 DEF CannotRepeat
  <2>5. req[c].at \in Reads /\ k # 0
    BY <1>2, <1>5 DEF Reads
  <2>6. QED
    BY <1>2, <1>3, <1>6, <2>2, <2>4, <2>5, SpendsReading
<1>7. CASE Refuse(c) /\ UNCHANGED pledge
  <2>1. Settled(c)' /\ SameLogins
    BY <1>2, <1>7, RefuseSettled DEF Before, SameLogins
  <2>2. QED
    BY <1>3, <2>1, PlainSeen
<1>8. QED
  BY <1>1, <1>6, <1>7 DEF ActivateTotp

\* VERIFY_OTP_SCRIPT: the hash of a code that was right is gone.
LEMMA CheckOtpSeen ==
  ASSUME Before, NEW c \in Clients, Moves(c), CheckOtp(c)
  PROVE  Follows
<1>1. PICK t, k : t = req[c].tok /\ k = req[c].code
  OBVIOUS
<1>2. req[c].at = "otp" /\ UNCHANGED <<began, linked, sessions, fresh>>
  BY DEF CheckOtp, world, observers
<1>3. Quiet \/ PayLost(c)
  BY CheckOtpKeeps DEF Before
<1>4. req[c] \in RequestState /\ req[c].at \in Reads
  BY <1>2, StoresAre DEF Before, Reads
<1>5. t \in DOMAIN token /\ k \in Nat
  BY <1>1, <1>4, ReadsLogin DEF RequestState
<1>6. t \in DOMAIN otp /\ otp[t].gen <= fresh
  BY <1>5, StoresAre DEF Before
<1>7. CASE otp[t].gen # 0 /\ k = otp[t].gen
  <2>1. Spent("otp", t, k, req[c].read.login) /\ otp' = [otp EXCEPT ![t] = NoOtp] /\ Goto(c, "consume")
    BY <1>1, <1>7 DEF CheckOtp
  <2>2. ~CannotRepeat("otp", t, k)
    BY <1>7 DEF CannotRepeat
  <2>3. t \in DOMAIN otp' /\ otp'[t].gen = 0
    BY <1>6, <2>1, NoOtpIs
  <2>4. CannotRepeat("otp", t, k)'
    BY <1>2, <1>5, <1>6, <1>7, <2>3 DEF CannotRepeat
  <2>5. QED
    BY <1>2, <1>3, <1>4, <2>1, <2>2, <2>4, SpendsReading
<1>8. CASE ~(otp[t].gen # 0 /\ k = otp[t].gen)
  <2>1. Goto(c, "void") /\ UNCHANGED pledge
    BY <1>1, <1>8 DEF CheckOtp
  <2>2. "void" \notin Marked
    BY DEF Marked, OfPasskey
  <2>3. Settled(c)' /\ SameLogins
    BY <1>2, <2>1, <2>2, GotoSettled DEF Before, SameLogins
  <2>4. QED
    BY <1>3, <2>3, PlainSeen
<1>9. QED
  BY <1>7, <1>8

\* consume_backup_code: the code is no longer in the row.
LEMMA CheckBackupCodeSeen ==
  ASSUME Before, NEW c \in Clients, Moves(c), CheckBackupCode(c)
  PROVE  Follows
<1>1. PICK k, rows : k = req[c].code /\ rows = OfType(ActiveFactors(req[c].read.user), {"backup_codes"})
  OBVIOUS
<1>2. req[c].at = "backup_codes" /\ UNCHANGED <<began, linked, sessions, fresh>>
  BY DEF CheckBackupCode, world, observers
<1>3. Quiet \/ PayLost(c)
  BY CheckBackupCodeKeeps DEF Before
<1>4. req[c] \in RequestState /\ req[c].at \in Reads
  BY <1>2, StoresAre DEF Before, Reads
<1>5. k \in Nat
  BY <1>1, <1>4 DEF RequestState
<1>6. CASE Goto(c, "void") /\ UNCHANGED <<factor, pledge>>
  <2>1. "void" \notin Marked
    BY DEF Marked, OfPasskey
  <2>2. Settled(c)' /\ SameLogins
    BY <1>2, <1>6, <2>1, GotoSettled DEF Before, SameLogins
  <2>3. QED
    BY <1>3, <2>2, PlainSeen
<1>7. ASSUME NEW f \in rows, k \in factor[f].codes,
             factor' = [factor EXCEPT ![f].codes = factor[f].codes \ {k},
                          ![f].status = IF factor[f].codes \ {k} = {} THEN "revoked" ELSE @],
             Spent("backup", f, k, req[c].read.login), Goto(c, "consume")
      PROVE  Follows
  <2>1. f \in DOMAIN factor
    BY <1>1 DEF OfType, ActiveFactors
  <2>2. factor[f] \in FactorRow /\ GoodFactor(factor[f])
    BY <2>1, StoresAre DEF Before
  <2>3. k <= fresh
    BY <1>7, <2>2 DEF GoodFactor
  <2>4. ~CannotRepeat("backup", f, k)
    BY <1>7 DEF CannotRepeat
  <2>5. f \in DOMAIN factor' /\ k \notin factor'[f].codes
    BY <1>7, <2>1, <2>2 DEF FactorRow
  <2>6. CannotRepeat("backup", f, k)'
    BY <1>2, <1>5, <2>3, <2>5 DEF CannotRepeat
  <2>7. QED
    BY <1>2, <1>3, <1>4, <1>7, <2>4, <2>6, SpendsReading
<1>8. QED
  BY <1>1, <1>6, <1>7 DEF CheckBackupCode

\* consume_login_workflow: the password of a workflow counts for the request that took it.
LEMMA TakeWorkflowSeen ==
  ASSUME Before, NEW c \in Clients, Moves(c), TakeWorkflow(c)
  PROVE  Follows
<1>1. PICK t, l : t = req[c].tok /\ l = req[c].read.login
  OBVIOUS
<1>2. req[c].at \in Taking /\ UNCHANGED <<began, linked, sessions>>
  BY DEF TakeWorkflow, world, observers
<1>3. req[c] \in RequestState /\ req[c].at \in Reads
  BY <1>2, StoresAre DEF Before, Reads
<1>4. /\ req[c].pay = None /\ t \in DOMAIN token /\ l \in DOMAIN began
      /\ token[t].state = "live" => token[t].pay = req[c].read
  BY <1>1, <1>3, ReadsLogin
<1>5. Quiet \/ PayLost(c) \/ \E s : Taken(c, s)
  BY TakeWorkflowKeeps DEF Before
<1>6. CASE Refuse(c) /\ UNCHANGED <<token, pledge>>
  <2>1. Settled(c)' /\ SameLogins
    BY <1>2, <1>6, RefuseSettled DEF Before, SameLogins
  <2>2. QED
    BY <1>5, <2>1, PlainSeen
<1>7. CASE Live(t, WorkflowTokens)
  <2>1. /\ token' = [token EXCEPT ![t] = Gone]
        /\ Step(c, [req[c] EXCEPT !.at = NextAfter(c), !.pay = token[t].pay])
        /\ IF req[c].at = "prove" THEN Spent("password", t, 0, l) ELSE UNCHANGED pledge
    BY <1>1, <1>7 DEF TakeWorkflow
  <2>2. PICK r : r = [req[c] EXCEPT !.at = NextAfter(c), !.pay = token[t].pay]
    OBVIOUS
  <2>3. r.at = NextAfter(c) /\ r.pay = req[c].read
    BY <1>3, <1>4, <1>7, <2>2 DEF RequestState, Live
  <2>4. req'[c] = r
    BY <2>1, <2>2, StepMoves DEF Before, StoresInv
  <2>5. CASE req[c].at = "prove"
    <3>1. r.at = "complete" /\ Spent("password", t, 0, l)
      BY <1>2, <2>1, <2>3, <2>5, NextAfterIs
    <3>2. ~CannotRepeat("password", t, 0)
      BY <1>7 DEF CannotRepeat, Live
    <3>3. t \in DOMAIN token' /\ token'[t].state = "gone"
      BY <1>4, <2>1, GoneIs
    <3>4. CannotRepeat("password", t, 0)'
      BY <3>3 DEF CannotRepeat
    <3>5. \A e \in pledge : e.proof # <<"password", t, 0>>
      BY <3>2, NewProof
    <3>6. ProvedFor(l)'
      BY <3>1, SpentFor
    <3>7. Proved(req[c])' /\ req'[c].at \notin OfPasskey
      BY <1>1, <2>3, <2>4, <3>1, <3>6 DEF Proved, OfPasskey
    <3>8. Held' = Held
      BY <1>4, <1>5, QuietHeld, TakenHeld DEF PayLost, Before
    <3>9. TicketInv' /\ Sees
      BY <1>2, <1>4, <3>1, <3>4, <3>5, <3>7, <3>8, SpendsTicket DEF Before
    <3>10. QED
      BY <3>9 DEF Follows
  <2>6. CASE req[c].at # "prove"
    <3>1. pledge' = pledge
      BY <2>1, <2>6
    <3>2. r.at \notin Marked \/ (r.at = "revoke row" /\ req[c].at = "revoke")
      <4>1. PICK x, y : x = req[c].at /\ y = r.at
        OBVIOUS
      <4>2. /\ x = "revoke" => y = "revoke row"
            /\ x = "setup" => y = "pending row"
            /\ x = "challenge" => y \in {"send", "store"}
            /\ x \in {"register", "authenticate"} => y = "store"
        BY <1>2, <2>3, <4>1, NextAfterIs
      <4>3. x \in {"revoke", "setup", "challenge", "register", "authenticate"}
        BY <1>2, <2>6, <4>1 DEF Taking
      <4>4. y \in {"pending row", "send", "store"} \/ (x = "revoke" /\ y = "revoke row")
        BY <4>2, <4>3
      <4>5. QED
        BY <4>1, <4>4 DEF Marked, OfPasskey
    <3>3. ASSUME r.at = "revoke row", req[c].at = "revoke" PROVE Settled(c)'
      <4>1. r.pay.assured
        BY <2>3, <3>3, IsProved DEF Proved
      <4>2. QED
        BY <2>4, <3>3, <4>1 DEF Settled, Proved, Unspent, OfPasskey
    <3>4. Settled(c)'
      BY <2>4, <3>2, <3>3, UnmarkedSettled
    <3>5. SameLogins
      BY <1>2, <3>1 DEF SameLogins
    <3>6. QED
      BY <1>5, <3>4, <3>5, PlainSeen
  <2>7. QED
    BY <2>5, <2>6
<1>8. QED
  BY <1>1, <1>6, <1>7 DEF TakeWorkflow
-----------------------------------------------------------------------------
(***************************************************************************)
(* Every step is one that LoginTicket allows.                              *)
(***************************************************************************)
LEMMA ClientStepSeen ==
  ASSUME Before, NEW c \in Clients, ClientStep(c)
  PROVE  Follows
<1>1. StoresInv /\ Moves(c)
  BY OthersDoNotCount DEF Before
<1>2. CASE TakeWorkflow(c)
  BY <1>1, <1>2, TakeWorkflowSeen
<1>3. CASE RevokeRow(c)
  BY <1>1, <1>3, RevokeRowSeen
<1>4. CASE StoreOtp(c)
  BY <1>1, <1>4, StoreOtpSeen
<1>5. CASE Deliver(c)
  BY <1>1, <1>5, DeliverSeen
<1>6. CASE DeliveryFails(c)
  BY <1>1, <1>6, DeliveryFailsSeen
<1>7. CASE StoreChallenge(c)
  BY <1>1, <1>7, StoreChallengeSeen
<1>8. CASE CompareTotp(c)
  BY <1>1, <1>8, CompareTotpSeen
<1>9. CASE AdvanceTotpStep(c)
  BY <1>1, <1>9, AdvanceTotpStepSeen
<1>10. CASE CheckOtp(c)
  BY <1>1, <1>10, CheckOtpSeen
<1>11. CASE CheckBackupCode(c)
  BY <1>1, <1>11, CheckBackupCodeSeen
<1>12. CASE CountFactorFailure(c)
  BY <1>1, <1>12, CountFactorFailureSeen
<1>13. CASE LockFactor(c)
  BY <1>1, <1>13, LockFactorSeen
<1>14. CASE CountChallengeFailure(c)
  BY <1>1, <1>14, CountChallengeFailureSeen
<1>15. CASE DeleteChallenge(c)
  BY <1>1, <1>15, DeleteChallengeSeen
<1>16. CASE TakeChallenge(c)
  BY <1>1, <1>16, TakeChallengeSeen
<1>17. CASE Complete(c)
  BY <1>1, <1>17, CompleteSeen
<1>18. CASE SelectPending(c)
  BY <1>1, <1>18, SelectPendingSeen
<1>19. CASE InsertPending(c)
  BY <1>1, <1>19, InsertPendingSeen
<1>20. CASE ActivateTotp(c)
  BY <1>1, <1>20, ActivateTotpSeen
<1>21. CASE EnsureBackupCodes(c)
  BY <1>1, <1>21, EnsureBackupCodesSeen
<1>22. CASE ReplaceBackupCodes(c)
  BY <1>1, <1>22, ReplaceBackupCodesSeen
<1>23. CASE InsertBackupCodes(c)
  BY <1>1, <1>23, InsertBackupCodesSeen
<1>24. CASE CreatePasskey(c)
  BY <1>1, <1>24, CreatePasskeySeen
<1>25. CASE CheckAssertion(c)
  BY <1>1, <1>25, CheckAssertionSeen
<1>26. CASE UpdatePasskeyCounter(c)
  BY <1>1, <1>26, UpdatePasskeyCounterSeen
<1>27. CASE Stop(c)
  BY <1>1, <1>27, StopSeen
<1>28. CASE PasskeyPrimaryOptions(c)
  BY <1>28, PasskeyPrimaryOptionsSeen
<1>29. ASSUME NEW t \in DOMAIN token, SetupTotp(c, t) PROVE Follows
  BY <1>1, <1>29, SetupTotpSeen
<1>30. ASSUME NEW t \in DOMAIN token, PasskeyRegistrationOptions(c, t) PROVE Follows
  BY <1>1, <1>30, PasskeyRegistrationOptionsSeen
<1>31. ASSUME NEW t \in DOMAIN token, PasskeyAuthenticationOptions(c, t) PROVE Follows
  BY <1>1, <1>31, PasskeyAuthenticationOptionsSeen
<1>32. ASSUME NEW t \in DOMAIN token, ProveCollisionPassword(c, t) PROVE Follows
  BY <1>1, <1>32, ProveCollisionPasswordSeen
<1>33. ASSUME NEW t \in DOMAIN token, ResendChallenge(c, t) PROVE Follows
  BY <1>1, <1>33, ResendChallengeSeen
<1>34. ASSUME NEW t \in DOMAIN token, ConfirmPasskeyRegistration(c, t) PROVE Follows
  BY <1>1, <1>34, ConfirmPasskeyRegistrationSeen
<1>35. ASSUME NEW t \in DOMAIN token, NEW m \in VerifyMethods, IssueChallenge(c, t, m) PROVE Follows
  BY <1>1, <1>35, IssueChallengeSeen
<1>36. ASSUME NEW t \in DOMAIN token,
             IssueChallenge(c, t, "totp") \/ IssueChallenge(c, t, "otp") \/ IssueChallenge(c, t, "backup_codes")
      PROVE  Follows
  BY <1>35, <1>36 DEF VerifyMethods
<1>37. ASSUME NEW t \in DOMAIN token, NEW f \in DOMAIN factor, RevokeFactor(c, t, f) PROVE Follows
  BY <1>1, <1>37, RevokeFactorSeen
<1>38. ASSUME NEW t \in DOMAIN token, NEW f \in OfType(DOMAIN factor, {"passkey"}), NEW k \in 0..MaxCount,
             VerifyPasskey(c, t, f, k)
      PROVE  Follows
  BY <1>1, <1>38, VerifyPasskeySeen DEF OfType
<1>39. ASSUME NEW t \in DOMAIN token, NEW code \in Codes(t), VerifyChallenge(c, t, code) PROVE Follows
  BY <1>1, <1>39, CodesAre, VerifyChallengeSeen
<1>40. ASSUME NEW t \in DOMAIN token, NEW code \in {0, now, now + 1}, ConfirmTotp(c, t, code) PROVE Follows
  <2>1. code \in Nat
    BY <1>1, StoresAre
  <2>2. QED
    BY <1>1, <1>40, <2>1, ConfirmTotpSeen
<1>41. QED
  BY <1>2, <1>3, <1>4, <1>5, <1>6, <1>7, <1>8, <1>9, <1>10, <1>11, <1>12, <1>13, <1>14, <1>15, <1>16, <1>17, <1>18, <1>19, <1>20, <1>21, <1>22, <1>23, <1>24, <1>25, <1>26, <1>27, <1>28, <1>29, <1>30, <1>31, <1>32, <1>33, <1>34, <1>36, <1>37, <1>38, <1>39, <1>40 DEF ClientStep


LEMMA TicketStep ==
  ASSUME StoresInv, StoresInv', TicketInv, [MfaNext]_vars
  PROVE  Follows
<1>1. Before
  BY HistoryStep DEF Before
<1>2. ASSUME NEW c \in Clients, ClientStep(c) PROVE Follows
  BY <1>1, <1>2, ClientStepSeen
<1>3. ASSUME NEW u \in Users, PrimaryLogin(u, "session_ready", None) PROVE Follows
  BY <1>1, <1>3, PrimaryLoginSeen
<1>4. ASSUME NEW u \in Users, NEW s \in Subjects \cup {None}, PrimaryLogin(u, "mfa_required", s) PROVE Follows
  BY <1>1, <1>4, PrimaryLoginSeen
<1>5. ASSUME NEW u \in Users, ExpireUserCounters(u) PROVE Follows
  <2>1. Quiet
    BY <1>5, ExpireUserCountersKeeps
  <2>2. req' = req /\ SameLogins
    BY <1>5 DEF ExpireUserCounters, SameLogins, world, observers
  <2>3. QED
    BY <1>1, <2>1, <2>2, NothingSeen
<1>6. ASSUME NEW u \in Users, Deactivate(u) PROVE Follows
  <2>1. Quiet
    BY <1>6, DeactivateKeeps
  <2>2. req' = req /\ SameLogins
    BY <1>6 DEF Deactivate, SameLogins, observers
  <2>3. QED
    BY <1>1, <2>1, <2>2, NothingSeen
<1>7. ASSUME NEW t \in DOMAIN token, CreateSession(t) PROVE Follows
  BY <1>1, <1>7, CreateSessionSeen
<1>8. ASSUME NEW t \in DOMAIN token, ExpireToken(t) PROVE Follows
  BY <1>1, <1>8, ExpireTokenSeen
<1>9. ASSUME NEW t \in DOMAIN token, ExpireOtp(t) PROVE Follows
  <2>1. Quiet
    BY <1>9, ExpireOtpKeeps
  <2>2. req' = req /\ SameLogins
    BY <1>9 DEF ExpireOtp, SameLogins, world, observers
  <2>3. QED
    BY <1>1, <2>1, <2>2, NothingSeen
<1>10. ASSUME NEW f \in DOMAIN factor, ExpireFactorCounter(f) PROVE Follows
  <2>1. Quiet
    BY <1>10, ExpireFactorCounterKeeps
  <2>2. req' = req /\ SameLogins
    BY <1>10 DEF ExpireFactorCounter, SameLogins, world, observers
  <2>3. QED
    BY <1>1, <2>1, <2>2, NothingSeen
<1>11. ASSUME NEW f \in DOMAIN factor, ExpireLock(f) PROVE Follows
  <2>1. Quiet
    BY <1>11, ExpireLockKeeps
  <2>2. req' = req /\ SameLogins
    BY <1>11 DEF ExpireLock, SameLogins, world, observers
  <2>3. QED
    BY <1>1, <2>1, <2>2, NothingSeen
<1>12. CASE NextTotpStep
  <2>1. Quiet
    BY <1>12, NextTotpStepKeeps
  <2>2. req' = req /\ SameLogins
    BY <1>12 DEF NextTotpStep, SameLogins, observers
  <2>3. QED
    BY <1>1, <2>1, <2>2, NothingSeen
<1>13. CASE UNCHANGED vars
  <2>1. UNCHANGED <<factor, token, redis, world, raced, load, req>> /\ SameLogins
    BY <1>13 DEF vars, observers, world, SameLogins
  <2>2. Quiet
    BY <2>1, NothingMoves
  <2>3. QED
    BY <1>1, <2>1, <2>2, NothingSeen
<1>14. QED
  BY <1>2, <1>3, <1>4, <1>5, <1>6, <1>7, <1>8, <1>9, <1>10, <1>11, <1>12, <1>13 DEF MfaNext

LEMMA TicketStart ==
  ASSUME MfaInit
  PROVE  TicketInv /\ Ticket!TicketInit
<1>1. /\ token = <<>> /\ began = <<>> /\ linked = {} /\ pledge = {} /\ sessions = {}
      /\ req = [c \in Clients |-> Idle]
  BY DEF MfaInit
<1>2. \A c \in Clients : req[c] = Idle /\ req[c].at = "idle" /\ req[c].pay = None
  BY <1>1, IdleIs
<1>3. DOMAIN token = {} /\ DOMAIN began = {}
  BY <1>1
<1>4. Held = {}
  BY <1>2, <1>3 DEF Held
<1>5. TicketInv
  BY <1>1, <1>2, <1>4 DEF TicketInv, PaysTrue, RequestsProved, ProofsUsed, Proved, Unspent, OfPasskey
<1>6. OneHolder
  BY StoresStart, BarsAre
<1>7. HoldersBar = [l \in Logins |-> 0] /\ AssuredBar = {}
  BY <1>4, <1>6 DEF OneHolder, Holds, Assured
<1>8. OriginBar = [l \in Logins |-> "none"] /\ LinksBar = {}
  BY <1>1, <1>3 DEF OriginBar, LinksBar
<1>9. Ticket!TicketInit
  BY <1>1, <1>7, <1>8, Zenon DEF Ticket!TicketInit, OriginBar, HoldersBar, LinksBar, AssuredBar
<1>10. QED
  BY <1>5, <1>9

LEMMA TicketsStay == MfaSpec => [](StoresInv /\ TicketInv)
<1>1. MfaInit => StoresInv /\ TicketInv
  BY StoresStart, TicketStart
<1>2. StoresInv /\ TicketInv /\ [MfaNext]_vars => (StoresInv /\ TicketInv)'
  BY StoresStep, TicketStep DEF Follows
<1>3. QED
  BY <1>1, <1>2, PTL DEF MfaSpec

\* The handlers of the second step implement LoginTicket, for any number of requests, users and
\* factors and whatever stops in between: a login is in one place, a proof is spent once and for
\* one login, and only a login that needed none or has one becomes a session or a linked identity.
THEOREM LoginsAreTickets == MfaSpec => TicketsHold
<1>1. MfaInit => Ticket!TicketInit
  BY TicketStart
<1>2. StoresInv /\ TicketInv /\ StoresInv' /\ [MfaNext]_vars => [Ticket!TicketNext]_(Ticket!ticketVars)
  BY TicketStep DEF Follows, Sees
<1>3. QED
  BY <1>1, <1>2, TicketsStay, PTL DEF MfaSpec, TicketsHold, Ticket!TicketSpec
-----------------------------------------------------------------------------
(***************************************************************************)
(* What a ticket buys.  The invariant is about the ticket alone, so it is  *)
(* shown for the steps of LoginTicket and carried over to the handlers.    *)
(***************************************************************************)
Worth(o, h, a, p, s, k) ==
  /\ o \in [Logins -> {"none", "low", "guarded"}] /\ h \in [Logins -> {0, 1}]
  /\ s \subseteq Logins /\ k \subseteq Logins /\ s \cap k = {}
  /\ \A l \in s \cup k : h[l] = 0 /\ o[l] # "none"
  /\ \A l \in Logins : h[l] = 1 => o[l] # "none"
  /\ \A l \in s : o[l] = "low" \/ \E e \in p : e.login = l
  /\ \A l \in k \cup a : \E e \in p : e.login = l
  /\ \A d, e \in p : d.proof = e.proof => d.login = e.login

LEMMA SpendKeepsWorth ==
  ASSUME NEW o, NEW h, NEW a, NEW p, NEW s, NEW k, Worth(o, h, a, p, s, k), NEW e,
         \A d \in p : d.proof # e.proof
  PROVE  Worth(o, h, a, p \cup {e}, s, k)
BY DEF Worth

LEMMA LoseKeepsWorth ==
  ASSUME NEW o, NEW h, NEW a, NEW p, NEW s, NEW k, Worth(o, h, a, p, s, k), NEW l \in Logins
  PROVE  Worth(o, [h EXCEPT ![l] = 0], a \ {l}, p, s, k)
BY DEF Worth

LEMMA StartKeepsWorth ==
  ASSUME NEW o, NEW h, NEW a, NEW p, NEW s, NEW k, Worth(o, h, a, p, s, k), NEW l \in Logins,
         o[l] = "none", NEW c \in {"low", "guarded"}
  PROVE  Worth([o EXCEPT ![l] = c], [h EXCEPT ![l] = 1], a, p, s, k)
<1>1. /\ o \in [Logins -> {"none", "low", "guarded"}] /\ h \in [Logins -> {0, 1}]
      /\ l \notin s \cup k /\ s \subseteq Logins /\ k \subseteq Logins
  BY DEF Worth
<1>2. /\ [o EXCEPT ![l] = c] \in [Logins -> {"none", "low", "guarded"}]
      /\ [h EXCEPT ![l] = 1] \in [Logins -> {0, 1}]
  BY <1>1
<1>3. \A i \in s \cup k : [o EXCEPT ![l] = c][i] = o[i] /\ [h EXCEPT ![l] = 1][i] = h[i]
  BY <1>1
<1>4. QED
  BY <1>1, <1>2, <1>3 DEF Worth

LEMMA RedeemKeepsWorth ==
  ASSUME NEW o, NEW h, NEW a, NEW p, NEW s, NEW k, Worth(o, h, a, p, s, k), NEW l \in Logins,
         h[l] = 1, o[l] # "none", o[l] = "low" \/ \E e \in p : e.login = l
  PROVE  Worth(o, [h EXCEPT ![l] = 0], a \ {l}, p, s \cup {l}, k)
<1>1. h \in [Logins -> {0, 1}] /\ l \notin s \cup k
  BY DEF Worth
<1>2. QED
  BY <1>1 DEF Worth

LEMMA LinkKeepsWorth ==
  ASSUME NEW o, NEW h, NEW a, NEW p, NEW s, NEW k, Worth(o, h, a, p, s, k), NEW l \in Logins,
         h[l] = 1, o[l] # "none", \E e \in p : e.login = l
  PROVE  Worth(o, [h EXCEPT ![l] = 0], a \ {l}, p, s, k \cup {l})
<1>1. h \in [Logins -> {0, 1}] /\ l \notin s \cup k
  BY DEF Worth
<1>2. QED
  BY <1>1 DEF Worth

WorthNow == Worth(OriginBar, HoldersBar, AssuredBar, pledge, sessions, LinksBar)

\* Every step of LoginTicket keeps what a ticket is worth.
LEMMA WorthStep ==
  ASSUME WorthNow, Sees
  PROVE  WorthNow'
<1>1. Worth(OriginBar, HoldersBar, AssuredBar, pledge, sessions, LinksBar)
  BY DEF WorthNow
<1>2. ASSUME Worth(OriginBar', HoldersBar', AssuredBar', pledge', sessions', LinksBar') PROVE WorthNow'
  BY <1>2 DEF WorthNow, Worth, Logins
<1>3. \A l \in Logins : HoldersBar[l] = 1 => OriginBar[l] # "none"
  BY <1>1 DEF Worth
<1>4. \A l \in AssuredBar : \E e \in pledge : e.login = l
  BY <1>1 DEF Worth
<1>5. ASSUME NEW l \in Logins, Ticket!Start(l) PROVE WorthNow'
  <2>1. /\ OriginBar[l] = "none" /\ HoldersBar' = [HoldersBar EXCEPT ![l] = 1]
        /\ \E c \in {"low", "guarded"} : OriginBar' = [OriginBar EXCEPT ![l] = c]
        /\ AssuredBar' = AssuredBar /\ pledge' = pledge /\ sessions' = sessions /\ LinksBar' = LinksBar
    BY <1>5, Zenon DEF Ticket!Start, OriginBar, HoldersBar, LinksBar, AssuredBar
  <2>2. PICK c \in {"low", "guarded"} : OriginBar' = [OriginBar EXCEPT ![l] = c]
    BY <2>1
  <2>3. Worth([OriginBar EXCEPT ![l] = c], [HoldersBar EXCEPT ![l] = 1], AssuredBar, pledge, sessions, LinksBar)
    BY <1>1, <2>1, StartKeepsWorth
  <2>4. QED
    BY <1>2, <2>1, <2>2, <2>3
<1>6. ASSUME NEW l \in Logins, Ticket!Lose(l) PROVE WorthNow'
  <2>1. /\ HoldersBar' = [HoldersBar EXCEPT ![l] = 0] /\ AssuredBar' = AssuredBar \ {l}
        /\ OriginBar' = OriginBar /\ pledge' = pledge /\ sessions' = sessions /\ LinksBar' = LinksBar
    BY <1>6, Zenon DEF Ticket!Lose, OriginBar, HoldersBar, LinksBar, AssuredBar
  <2>2. Worth(OriginBar, [HoldersBar EXCEPT ![l] = 0], AssuredBar \ {l}, pledge, sessions, LinksBar)
    BY <1>1, LoseKeepsWorth
  <2>3. QED
    BY <1>2, <2>1, <2>2
<1>7. ASSUME NEW l \in Logins, Ticket!Spend(l) PROVE WorthNow'
  <2>1. /\ \E e \in pledge' : (\A d \in pledge : d.proof # e.proof) /\ pledge' = pledge \cup {e}
        /\ OriginBar' = OriginBar /\ HoldersBar' = HoldersBar /\ AssuredBar' = AssuredBar
        /\ sessions' = sessions /\ LinksBar' = LinksBar
    BY <1>7, Zenon DEF Ticket!Spend, OriginBar, HoldersBar, LinksBar, AssuredBar
  <2>2. PICK e \in pledge' : (\A d \in pledge : d.proof # e.proof) /\ pledge' = pledge \cup {e}
    BY <2>1
  <2>3. Worth(OriginBar, HoldersBar, AssuredBar, pledge \cup {e}, sessions, LinksBar)
    BY <1>1, <2>2, SpendKeepsWorth
  <2>4. QED
    BY <1>2, <2>1, <2>2, <2>3
<1>8. ASSUME NEW l \in Logins, Ticket!Elevate(l) PROVE WorthNow'
  <2>1. /\ \E e \in pledge : e.login = l
        /\ AssuredBar' = AssuredBar \cup {l} /\ OriginBar' = OriginBar /\ HoldersBar' = HoldersBar
        /\ pledge' = pledge /\ sessions' = sessions /\ LinksBar' = LinksBar
    BY <1>8, Zenon DEF Ticket!Elevate, OriginBar, HoldersBar, LinksBar, AssuredBar
  <2>2. Worth(OriginBar, HoldersBar, AssuredBar \cup {l}, pledge, sessions, LinksBar)
    BY <1>1, <2>1 DEF Worth
  <2>3. QED
    BY <1>2, <2>1, <2>2
<1>9. ASSUME NEW l \in Logins, Ticket!Redeem(l) PROVE WorthNow'
  <2>1. /\ HoldersBar[l] = 1 /\ (OriginBar[l] = "low" \/ l \in AssuredBar)
        /\ HoldersBar' = [HoldersBar EXCEPT ![l] = 0] /\ AssuredBar' = AssuredBar \ {l}
        /\ sessions' = sessions \cup {l}
        /\ OriginBar' = OriginBar /\ pledge' = pledge /\ LinksBar' = LinksBar
    BY <1>9, Zenon DEF Ticket!Redeem, OriginBar, HoldersBar, LinksBar, AssuredBar
  <2>2. OriginBar[l] # "none" /\ (OriginBar[l] = "low" \/ \E e \in pledge : e.login = l)
    BY <1>3, <1>4, <2>1
  <2>3. Worth(OriginBar, [HoldersBar EXCEPT ![l] = 0], AssuredBar \ {l}, pledge, sessions \cup {l}, LinksBar)
    BY <1>1, <2>1, <2>2, RedeemKeepsWorth
  <2>4. QED
    BY <1>2, <2>1, <2>3
<1>10. ASSUME NEW l \in Logins, Ticket!Link(l) PROVE WorthNow'
  <2>1. /\ HoldersBar[l] = 1 /\ (\E e \in pledge : e.login = l)
        /\ HoldersBar' = [HoldersBar EXCEPT ![l] = 0] /\ AssuredBar' = AssuredBar \ {l}
        /\ LinksBar' = LinksBar \cup {l}
        /\ OriginBar' = OriginBar /\ pledge' = pledge /\ sessions' = sessions
    BY <1>10, Zenon DEF Ticket!Link, OriginBar, HoldersBar, LinksBar, AssuredBar
  <2>2. Worth(OriginBar, [HoldersBar EXCEPT ![l] = 0], AssuredBar \ {l}, pledge, sessions, LinksBar \cup {l})
    BY <1>1, <1>3, <2>1, LinkKeepsWorth
  <2>3. QED
    BY <1>2, <2>1, <2>2
<1>11. CASE UNCHANGED Ticket!ticketVars
  <2>1. /\ OriginBar' = OriginBar /\ HoldersBar' = HoldersBar /\ AssuredBar' = AssuredBar
        /\ pledge' = pledge /\ sessions' = sessions /\ LinksBar' = LinksBar
    BY <1>11, Zenon DEF Ticket!ticketVars, OriginBar, HoldersBar, LinksBar, AssuredBar
  <2>2. QED
    BY <1>1, <1>2, <2>1
<1>12. QED
  BY <1>5, <1>6, <1>7, <1>8, <1>9, <1>10, <1>11, Zenon DEF Sees, Ticket!TicketNext

\* CreateSession and the handlers behind it: a login is exchanged once, for a session or for a
\* linked identity; behind a session is a login that needed no factor or a proof spent for it,
\* behind an identity always a proof; and no code, assertion or backup code served two logins.
THEOREM LoginsBuyOnce == MfaSpec => []Ticket!BuysOnce
<1>1. MfaInit => WorthNow
  <2> SUFFICES ASSUME MfaInit PROVE WorthNow
    OBVIOUS
  <2>1. Ticket!TicketInit
    BY TicketStart
  <2>2. /\ OriginBar = [l \in Logins |-> "none"] /\ HoldersBar = [l \in Logins |-> 0]
        /\ AssuredBar = {} /\ pledge = {} /\ sessions = {} /\ LinksBar = {}
    BY <2>1, Zenon DEF Ticket!TicketInit, OriginBar, HoldersBar, LinksBar, AssuredBar
  <2>3. QED
    BY <2>2 DEF WorthNow, Worth
<1>2. StoresInv /\ TicketInv /\ StoresInv' /\ [MfaNext]_vars /\ WorthNow => WorthNow'
  BY TicketStep, WorthStep DEF Follows
<1>3. WorthNow => Ticket!BuysOnce
  <2> SUFFICES ASSUME WorthNow PROVE Ticket!BuysOnce
    OBVIOUS
  <2>1. /\ sessions \cap LinksBar = {}
        /\ \A l \in sessions \cup LinksBar : HoldersBar[l] = 0
        /\ \A l \in sessions : OriginBar[l] = "low" \/ \E e \in pledge : e.login = l
        /\ \A l \in LinksBar \cup AssuredBar : \E e \in pledge : e.login = l
        /\ \A d, e \in pledge : d.proof = e.proof => d.login = e.login
    BY DEF WorthNow, Worth
  <2>2. QED
    BY <2>1, Zenon DEF Ticket!BuysOnce, OriginBar, HoldersBar, LinksBar, AssuredBar
<1>4. QED
  BY <1>1, <1>2, <1>3, TicketsStay, PTL DEF MfaSpec
=============================================================================
