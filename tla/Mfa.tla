--------------------------------- MODULE Mfa ---------------------------------
(***************************************************************************)
(* The second step of a login: the workflow and challenge tokens in Redis, *)
(* the factors in PostgreSQL, and the handlers of MFAControl.              *)
(*                                                                         *)
(* A client runs one request at a time; every Redis command, script and    *)
(* transaction of the request is a step of its own, and the request may    *)
(* stop between any two of them.  A token's payload never changes, so the  *)
(* GET of a token and the reads that follow it are one step: a token that  *)
(* disappears in between is noticed by the GETDEL that comes later.        *)
(***************************************************************************)
EXTENDS Naturals, Sequences, FiniteSets

CONSTANTS
  Users, Clients,
  Subjects,      \* subjects of social identities
  Workloads,     \* what may happen in one behaviour: the kinds of request made, the factors
                 \* enrolled before it as pairs of user and type, and a bound on the
                 \* tokens ever drawn
  None,
  FailureLimit,  \* MFA_FAILURE_LIMIT
  OtpAttempts,   \* OTP_MAX_ATTEMPTS
  OtpRequests,   \* OTP_REQUEST_LIMIT
  BackupCount,   \* BACKUP_CODE_COUNT
  MaxLogins, MaxFactors,  \* bounds: logins begun, factor rows
  MaxFails,      \* bound: wrong codes counted for a pending authenticator or a user
  MaxFresh,      \* bound: security codes ever drawn
  MaxStep,       \* bound: last TOTP time step
  MaxCount       \* bound: signature counter of a passkey

VARIABLES
  load,     \* the workload of this behaviour; never changes
  factor,   \* mfa_devices, a passkey with its webauthn_credentials row
  token,    \* login workflows and challenges, in the order in which they were drawn
  otp,      \* otp[t]: the hash stored for challenge t
  fails,    \* fails[f]: the counter mfa_factor_failure
  lock,     \* lock[f]: the key lock:mfa; "fading" when the counter has expired before it
  voided,   \* voided[u]: the counter mfa_challenge_failure
  sends,    \* sends[u]: the counter of code requests
  active,   \* users in the state "active"
  linked,   \* social identities: subject, user and (observer) the login that linked it
  now,      \* the TOTP time step
  fresh,    \* security codes drawn so far
  began,    \* logins so far: "low" when the first step sufficed, else "guarded"
  req,      \* the clients' requests
  pledge,   \* observer: proofs accepted, with their login
  sessions, \* observer: logins exchanged for a session
  raced     \* observer: "factors" and "codes", decisions made on stale reads

redis == <<otp, fails, lock, voided, sends>>
observers == <<load, sessions, raced>>
world == <<active, linked, now, fresh, began>>
vars == <<factor, token, redis, world, req, pledge, observers>>

Strong == {"totp", "passkey"}
WorkflowTokens == {"workflow"}
WebAuthnTokens == {"register", "authenticate"}

FactorRow ==
  [user : Users, type : Strong \cup {"backup_codes"}, status : {"pending", "active", "revoked"},
   step : Nat, codes : SUBSET Nat, count : Nat]

\* The payload of a workflow.  "passkey_primary" is "mfa_required" here: both only wait.
Payload ==
  [login : Nat, user : Users \cup {None}, decision : {"mfa_required", "session_ready"},
   assured : BOOLEAN, subject : Subjects \cup {None}]

\* What is enrolled before was enrolled by the code, one set of backup codes to a user.
ASSUME MfaAssumption ==
  /\ FailureLimit \in Nat \ {0} /\ OtpAttempts \in Nat \ {0} /\ BackupCount \in Nat \ {0}
  /\ MaxLogins \in Nat /\ MaxCount \in Nat
  /\ \A w \in Workloads :
       /\ w.enrolled \in Seq(Users \X {"totp", "passkey", "backup_codes"})
       /\ \A i, j \in DOMAIN w.enrolled :
            w.enrolled[i] = w.enrolled[j] /\ w.enrolled[i][2] = "backup_codes" => i = j
  /\ None \notin Users \cup Subjects \cup Payload

TokenRow ==
  [kind : {"workflow", "verify", "enroll", None} \cup WebAuthnTokens,
   state : {"drawn", "live", "gone"}, pay : Payload \cup {None},
   method : {"totp", "otp", "backup_codes", None}, fac : Nat]

Gone == [kind |-> None, state |-> "gone", pay |-> None, method |-> None, fac |-> 0]

Idle == [at |-> "idle", tok |-> 0, new |-> 0, fac |-> 0, kind |-> "verify", method |-> None,
         code |-> 0, seen |-> 0, read |-> None, pay |-> None]

NoOtp == [gen |-> 0, attempts |-> 0]

\* Every field holds a value its column or key can hold, and tables that
\* belong together have the same rows.
MfaTypeOK ==
  /\ factor \in Seq(FactorRow) /\ token \in Seq(TokenRow)
  /\ DOMAIN fails = DOMAIN factor /\ DOMAIN lock = DOMAIN factor
  /\ DOMAIN otp = DOMAIN token
  /\ \A f \in DOMAIN factor : factor[f].type = "backup_codes" /\ factor[f].status = "active"
                                => factor[f].codes # {}
  /\ \A t \in DOMAIN token : otp[t].attempts < OtpAttempts
  /\ \A c \in Clients : req[c].pay = None \/ req[c].pay \in Payload
  /\ \A i \in linked : i \in Subjects \X Users \X Nat
  /\ active \subseteq Users
  /\ raced \subseteq {"factors", "codes"}

-----------------------------------------------------------------------------
(***************************************************************************)
(* Reading the stores.                                                     *)
(***************************************************************************)
ActiveFactors(u) == {f \in DOMAIN factor : factor[f].user = u /\ factor[f].status = "active"}
OfType(F, T) == {f \in F : factor[f].type \in T}
StrongFactors(u) == OfType(ActiveFactors(u), Strong)

Live(t, kinds) == t \in DOMAIN token /\ token[t].state = "live" /\ token[t].kind \in kinds

\* _methods: a verified address is always there, the rest needs a factor.
Methods(u) == {"otp"} \cup {factor[f].type : f \in OfType(ActiveFactors(u), {"totp", "backup_codes"})}

\* PyOTPProvider.verify: one step of clock skew, and never a step up to the last one.
AcceptsStep(last, code) == code \in {now - 1, now, now + 1} /\ code > last

Draw(row) ==
  /\ Len(token) < load.tokens
  /\ token' = Append(token, row)
  /\ otp' = Append(otp, NoOtp)

Step(c, r) == req' = [req EXCEPT ![c] = r]
Refuse(c) == Step(c, Idle)
Goto(c, label) == Step(c, [req[c] EXCEPT !.at = label])
Spent(kind, i, j, l) == pledge' = pledge \cup {[proof |-> <<kind, i, j>>, login |-> l]}

-----------------------------------------------------------------------------
(***************************************************************************)
(* Logins begin elsewhere (LoginControl) and end in create_session.        *)
(***************************************************************************)
MfaInit ==
  LET row(u, t) == [user |-> u, type |-> t, status |-> "active", step |-> 0,
                    codes |-> IF t = "backup_codes" THEN 1..BackupCount ELSE {}, count |-> 0]
  IN /\ load \in Workloads
     /\ factor = [f \in DOMAIN load.enrolled |-> row(load.enrolled[f][1], load.enrolled[f][2])]
     /\ fails = [f \in DOMAIN factor |-> 0] /\ lock = [f \in DOMAIN factor |-> "open"]
     /\ token = <<>> /\ otp = <<>>
     /\ voided = [u \in Users |-> 0] /\ sends = [u \in Users |-> 0]
     /\ active = Users /\ linked = {} /\ now = 2 /\ fresh = BackupCount /\ began = <<>>
     /\ req = [c \in Clients |-> Idle]
     /\ pledge = {} /\ sessions = {} /\ raced = {}

\* LoginControl stores a workflow: low risk is ready, anything else waits for a factor,
\* and a social login with a known address waits for a proof of ownership.
PrimaryLogin(u, decision, s) ==
  /\ Len(began) < MaxLogins /\ u \in active
  /\ s # None => decision = "mfa_required" /\ "collision" \in load.requests
  /\ decision = "session_ready" => "low risk" \in load.requests
  /\ began' = Append(began, IF decision = "session_ready" THEN "low" ELSE "guarded")
  /\ Draw([kind |-> "workflow", state |-> "live", method |-> None, fac |-> 0,
           pay |-> [login |-> Len(began) + 1, user |-> u, decision |-> decision,
                    assured |-> FALSE, subject |-> s]])
  /\ UNCHANGED <<factor, fails, lock, voided, sends, active, linked, now, fresh, req, pledge,
                 observers>>

\* create_session: the workflow is gone whether or not it was ready.
CreateSession(t) ==
  /\ Live(t, WorkflowTokens)
  /\ token' = [token EXCEPT ![t] = Gone]
  /\ sessions' = IF token[t].pay.decision = "session_ready" /\ token[t].pay.user \in active
                 THEN sessions \cup {token[t].pay.login} ELSE sessions
  /\ UNCHANGED <<factor, redis, world, req, pledge, load, raced>>

-----------------------------------------------------------------------------
(***************************************************************************)
(* Handlers that start from a workflow read it, check it, and take it with *)
(* GETDEL before they change anything.                                     *)
(***************************************************************************)
OpenWorkflow(c, kind, t) ==
  /\ kind \in load.requests
  /\ req[c] = Idle
  /\ Live(t, WorkflowTokens)
  /\ UNCHANGED <<factor, token, redis, world, pledge, observers>>

Holder(t) == token[t].pay.user
Reading(t) == [Idle EXCEPT !.tok = t, !.read = token[t].pay]

\* Mutant: a strong factor can always be removed.
RemovableEver(u, f) == f \in ActiveFactors(u)

\* revoke_factor: the last authenticator or passkey stays.
Removable(u, f) ==
  /\ f \in ActiveFactors(u)
  /\ factor[f].type \in Strong => Cardinality(StrongFactors(u)) > 1

RevokeFactor(c, t, f) ==
  /\ OpenWorkflow(c, "revoke", t)
  /\ token[t].pay.assured
  /\ Removable(Holder(t), f)
  /\ Step(c, [Reading(t) EXCEPT !.at = "revoke", !.fac = f])

IssueChallenge(c, t, m) ==
  /\ OpenWorkflow(c, m, t)
  /\ Holder(t) \in active
  /\ m \in Methods(Holder(t))
  /\ \E f \in IF m = "totp" THEN OfType(ActiveFactors(Holder(t)), {"totp"}) ELSE {0} :
       Step(c, [Reading(t) EXCEPT !.at = "challenge", !.fac = f, !.method = m])

\* _require_enrollment_assurance.
MayEnroll(t) == StrongFactors(Holder(t)) # {} => token[t].pay.assured

SetupTotp(c, t) ==
  /\ OpenWorkflow(c, "setup", t)
  /\ Holder(t) \in active /\ MayEnroll(t)
  /\ Step(c, [Reading(t) EXCEPT !.at = "setup", !.kind = "enroll"])

PasskeyRegistrationOptions(c, t) ==
  /\ OpenWorkflow(c, "passkey", t)
  /\ Holder(t) \in active /\ MayEnroll(t)
  /\ Step(c, [Reading(t) EXCEPT !.at = "register", !.kind = "register"])

PasskeyAuthenticationOptions(c, t) ==
  /\ OpenWorkflow(c, "assert", t)
  /\ OfType(ActiveFactors(Holder(t)), {"passkey"}) # {}
  /\ Step(c, [Reading(t) EXCEPT !.at = "authenticate", !.kind = "authenticate"])

\* Without a workflow the challenge starts a login of its own, of nobody yet.
PasskeyPrimaryOptions(c) ==
  /\ "assert" \in load.requests /\ req[c] = Idle /\ Len(began) < MaxLogins
  /\ began' = Append(began, "guarded")
  /\ Draw([kind |-> "authenticate", state |-> "live", method |-> None, fac |-> 0,
           pay |-> [login |-> Len(began) + 1, user |-> None, decision |-> "mfa_required",
                    assured |-> FALSE, subject |-> None]])
  /\ UNCHANGED <<factor, fails, lock, voided, sends, active, linked, now, fresh, req, pledge,
                 observers>>

ProveCollisionPassword(c, t) ==
  /\ OpenWorkflow(c, "collision", t)
  /\ token[t].pay.subject # None
  /\ Step(c, [Reading(t) EXCEPT !.at = "prove"])

NextAfter(c) ==
  CASE req[c].at = "revoke" -> "revoke row"
    [] req[c].at = "setup" -> "pending row"
    [] req[c].at = "challenge" -> IF req[c].method = "otp" THEN "send" ELSE "store"
    [] req[c].at \in {"register", "authenticate"} -> "store"
    [] req[c].at = "prove" -> "complete"

Taking == {"revoke", "setup", "challenge", "register", "authenticate", "prove"}

\* Mutant: GET instead of GETDEL, so that the workflow can be taken again.
TakeAndLeave(c) ==
  /\ req[c].at \in Taking
  /\ IF Live(req[c].tok, WorkflowTokens)
     THEN Step(c, [req[c] EXCEPT !.at = NextAfter(c), !.pay = token[req[c].tok].pay])
     ELSE Refuse(c)
  /\ UNCHANGED <<factor, token, redis, world, pledge, observers>>

\* consume_login_workflow: one GETDEL, at most one request gets the payload.
TakeWorkflow(c) ==
  /\ req[c].at \in Taking
  /\ IF Live(req[c].tok, WorkflowTokens)
     THEN /\ token' = [token EXCEPT ![req[c].tok] = Gone]
          /\ Step(c, [req[c] EXCEPT !.at = NextAfter(c), !.pay = token[req[c].tok].pay])
          /\ IF req[c].at = "prove"
             THEN Spent("password", req[c].tok, 0, req[c].read.login) ELSE UNCHANGED pledge
     ELSE Refuse(c) /\ UNCHANGED <<token, pledge>>
  /\ UNCHANGED <<factor, redis, world, observers>>

-----------------------------------------------------------------------------
(***************************************************************************)
(* What follows a workflow that was taken.                                 *)
(***************************************************************************)
\* The repository's revoke_factor locks the row and asks for nothing else.
RevokeRow(c) ==
  /\ req[c].at = "revoke row"
  /\ IF factor[req[c].fac].status = "active"
     THEN /\ factor' = [factor EXCEPT ![req[c].fac].status = "revoked"]
          /\ raced' = IF \E d \in Clients \ {c} :
                           /\ req[d].at \in {"revoke", "revoke row"}
                           /\ factor[req[d].fac].user = factor[req[c].fac].user
                      THEN raced \cup {"factors"} ELSE raced
          /\ Goto(c, "complete")
     ELSE Refuse(c) /\ UNCHANGED <<factor, raced>>
  /\ UNCHANGED <<token, redis, world, pledge, load, sessions>>

\* _send_otp up to the message: the hash is stored under the token's name, which for a
\* new challenge is not a stored token yet.
StoreOtp(c) ==
  LET u == req[c].read.user
      hash == [gen |-> fresh + 1, attempts |-> 0]
  IN /\ req[c].at = "send" /\ fresh < MaxFresh
     /\ sends[u] <= OtpRequests          \* one request past the limit stands for all
     /\ sends' = [sends EXCEPT ![u] = @ + 1]
     /\ IF sends[u] + 1 > OtpRequests
        THEN Refuse(c) /\ UNCHANGED <<token, otp, fresh>>
        ELSE /\ fresh' = fresh + 1
             /\ IF req[c].new = 0
                THEN /\ Len(token) < load.tokens
                     /\ token' = Append(token, [kind |-> "verify", state |-> "drawn",
                                                pay |-> req[c].pay, method |-> "otp", fac |-> 0])
                     /\ otp' = Append(otp, hash)
                     /\ Step(c, [req[c] EXCEPT !.at = "deliver", !.new = Len(token) + 1])
                ELSE otp' = [otp EXCEPT ![req[c].new] = hash] /\ Goto(c, "deliver") /\ UNCHANGED token
  /\ UNCHANGED <<factor, fails, lock, voided, active, linked, now, began, pledge, observers>>

Deliver(c) ==
  /\ req[c].at = "deliver"
  /\ IF req[c].pay = None THEN Refuse(c) ELSE Goto(c, "store")
  /\ UNCHANGED <<factor, token, redis, world, pledge, observers>>

\* The provider fails: the hash is deleted; of a new challenge nothing was stored.
DeliveryFails(c) ==
  /\ req[c].at = "deliver"
  /\ otp' = [otp EXCEPT ![req[c].new] = NoOtp]
  /\ Refuse(c)
  /\ UNCHANGED <<factor, token, fails, lock, voided, sends, world, pledge, observers>>

StoreChallenge(c) ==
  /\ req[c].at = "store"
  /\ IF req[c].new = 0
     THEN Draw([kind |-> req[c].kind, state |-> "live", pay |-> req[c].pay,
                method |-> req[c].method, fac |-> req[c].fac])
     ELSE token' = [token EXCEPT ![req[c].new].state = "live"] /\ UNCHANGED otp
  /\ Refuse(c)
  /\ UNCHANGED <<factor, fails, lock, voided, sends, world, pledge, observers>>

ResendChallenge(c, t) ==
  /\ "resend" \in load.requests /\ req[c] = Idle
  /\ Live(t, {"verify"}) /\ token[t].method = "otp" /\ Holder(t) \in active
  /\ Step(c, [Reading(t) EXCEPT !.at = "send", !.new = t])
  /\ UNCHANGED <<factor, token, redis, world, pledge, observers>>

-----------------------------------------------------------------------------
\* What may be typed in: a wrong code, the code of an authenticator whose clock is right
\* or a step ahead (a step behind once the step has passed), the code of the last message,
\* a backup code.
Codes(t) ==
  {0} \cup CASE token[t].method = "totp" -> {now, now + 1}
             [] token[t].method = "otp" -> {otp[t].gen}
             [] token[t].method = "backup_codes" -> UNION {factor[f].codes : f \in ActiveFactors(Holder(t))}
             [] OTHER -> {}

(***************************************************************************)
(* verify_challenge.                                                       *)
(***************************************************************************)
\* Mutant: the lock of an authenticator is not asked for.
VerifyLocked(c, t, code) ==
  /\ req[c] = Idle
  /\ Live(t, {"verify"})
  /\ code # 0 \/ voided[Holder(t)] < MaxFails
  /\ Step(c, [Reading(t) EXCEPT !.at = token[t].method, !.fac = token[t].fac,
                          !.code = code])
  /\ UNCHANGED <<factor, token, redis, world, pledge, observers>>

\* Only an authenticator is behind a lock.
VerifyChallenge(c, t, code) ==
  /\ req[c] = Idle
  /\ Live(t, {"verify"})
  /\ token[t].method = "totp" => lock[token[t].fac] = "open"
  /\ code # 0 \/ voided[Holder(t)] < MaxFails
  /\ Step(c, [Reading(t) EXCEPT !.at = token[t].method, !.fac = token[t].fac,
                          !.code = code])
  /\ UNCHANGED <<factor, token, redis, world, pledge, observers>>

\* _verify_totp reads the row and compares the code.
CompareTotp(c) ==
  LET row == factor[req[c].fac]
      right == row.status = "active" /\ AcceptsStep(row.step, req[c].code)
  IN /\ req[c].at = "totp"
     /\ Step(c, [req[c] EXCEPT !.at = IF right THEN "advance" ELSE "count", !.seen = row.step])
     /\ UNCHANGED <<factor, token, redis, world, pledge, observers>>

\* advance_totp_step: an UPDATE on the step that was read; no row changed is a failure.
AdvanceTotpStep(c) ==
  LET row == factor[req[c].fac]
  IN /\ req[c].at = "advance"
     /\ IF row.status = "active" /\ row.step = req[c].seen
        THEN /\ factor' = [factor EXCEPT ![req[c].fac].step = req[c].code]
             /\ Spent("totp", req[c].fac, req[c].code, req[c].read.login)
             /\ Goto(c, "consume")
        ELSE Goto(c, "count") /\ UNCHANGED <<factor, pledge>>
     /\ UNCHANGED <<token, redis, world, observers>>

\* VERIFY_OTP_SCRIPT, one atomic step.
CheckOtp(c) ==
  LET t == req[c].tok
      right == otp[t].gen # 0 /\ req[c].code = otp[t].gen
      attempts == otp[t].attempts + 1
  IN /\ req[c].at = "otp"
     /\ IF right THEN Spent("otp", t, req[c].code, req[c].read.login) ELSE UNCHANGED pledge
     /\ otp' = IF otp[t].gen = 0 THEN otp
               ELSE [otp EXCEPT ![t] = IF right \/ attempts >= OtpAttempts THEN NoOtp
                                       ELSE [@ EXCEPT !.attempts = attempts]]
     /\ Goto(c, IF right THEN "consume" ELSE "void")
     /\ UNCHANGED <<factor, token, fails, lock, voided, sends, world, observers>>

\* consume_backup_code: any active row of the user, locked; the last code revokes the row.
CheckBackupCode(c) ==
  LET u == req[c].read.user
      rows == OfType(ActiveFactors(u), {"backup_codes"})
      left(f) == factor[f].codes \ {req[c].code}
  IN /\ req[c].at = "backup_codes"
     /\ \/ /\ rows = {} \/ \E f \in rows : req[c].code \notin factor[f].codes
           /\ Goto(c, "void") /\ UNCHANGED <<factor, pledge>>
        \/ \E f \in rows :
             /\ req[c].code \in factor[f].codes
             /\ factor' = [factor EXCEPT ![f].codes = left(f),
                             ![f].status = IF left(f) = {} THEN "revoked" ELSE @]
             /\ Spent("backup", f, req[c].code, req[c].read.login)
             /\ Goto(c, "consume")
     /\ UNCHANGED <<token, redis, world, observers>>

\* _record_factor_failure: the counter first, the lock in a second call.
CountFactorFailure(c) ==
  /\ req[c].at = "count"
  /\ fails' = [fails EXCEPT ![req[c].fac] = @ + 1]
  /\ IF fails[req[c].fac] + 1 >= FailureLimit THEN Goto(c, "lock") ELSE Refuse(c)
  /\ UNCHANGED <<factor, token, otp, lock, voided, sends, world, pledge, observers>>

LockFactor(c) ==
  /\ req[c].at = "lock"
  /\ lock' = [lock EXCEPT ![req[c].fac] = IF fails[req[c].fac] = 0 THEN "fading" ELSE "locked"]
  /\ Refuse(c)
  /\ UNCHANGED <<factor, token, otp, fails, voided, sends, world, pledge, observers>>

\* _record_failure of the other methods: at the limit the challenge is deleted.
CountChallengeFailure(c) ==
  LET u == req[c].read.user
  IN /\ req[c].at = "void"
     /\ voided' = [voided EXCEPT ![u] = @ + 1]
     /\ IF voided[u] + 1 >= FailureLimit THEN Goto(c, "delete") ELSE Refuse(c)
     /\ UNCHANGED <<factor, token, otp, fails, lock, sends, world, pledge, observers>>

DeleteChallenge(c) ==
  /\ req[c].at = "delete"
  /\ token' = [token EXCEPT ![req[c].tok] = Gone]
  /\ Refuse(c)
  /\ UNCHANGED <<factor, redis, world, pledge, observers>>

\* consume_mfa_challenge; the code is spent even if another request was faster.
TakeChallenge(c) ==
  /\ req[c].at = "consume"
  /\ IF token[req[c].tok].state = "live"
     THEN /\ token' = [token EXCEPT ![req[c].tok] = Gone]
          /\ Step(c, [req[c] EXCEPT !.pay = token[req[c].tok].pay,
                        !.at = IF token[req[c].tok].kind = "enroll" THEN "codes" ELSE "complete"])
     ELSE Refuse(c) /\ UNCHANGED token
  /\ UNCHANGED <<factor, redis, world, pledge, observers>>

\* link_oidc_identity: the pair of provider and subject is unique.
Linkable(s) == \A i \in linked : i[1] # s

\* _complete.  After a collision the identity is linked and the login is over;
\* otherwise a new workflow, ready and assured, replaces the one that was taken.
Complete(c) ==
  LET pay == req[c].pay
  IN /\ req[c].at = "complete"
     /\ IF pay.subject # None
        THEN /\ linked' = IF Linkable(pay.subject) THEN linked \cup {<<pay.subject, pay.user, pay.login>>} ELSE linked
             /\ UNCHANGED <<token, otp>>
        ELSE /\ Draw([kind |-> "workflow", state |-> "live", method |-> None, fac |-> 0,
                      pay |-> [pay EXCEPT !.decision = "session_ready", !.assured = TRUE]])
             /\ UNCHANGED linked
     /\ Refuse(c)
     /\ UNCHANGED <<factor, fails, lock, voided, sends, active, now, fresh, began, pledge, observers>>

-----------------------------------------------------------------------------
(***************************************************************************)
(* Enrollment.                                                             *)
(***************************************************************************)
AddFactor(u, type, status, codes) ==
  /\ Len(factor) < MaxFactors
  /\ factor' = Append(factor, [user |-> u, type |-> type, status |-> status, step |-> 0,
                               codes |-> codes, count |-> 0])
  /\ fails' = Append(fails, 0) /\ lock' = Append(lock, "open")

PendingTotp(u) ==
  {f \in DOMAIN factor : factor[f].user = u /\ factor[f].type = "totp" /\ factor[f].status = "pending"}

\* create_pending_totp revokes the rows its SELECT ... FOR UPDATE found ...
Supersede(u) ==
  [f \in DOMAIN factor |-> IF f \in PendingTotp(u) THEN [factor[f] EXCEPT !.status = "revoked"] ELSE factor[f]]

SelectPending(c) ==
  /\ req[c].at = "pending row"
  /\ factor' = Supersede(req[c].pay.user)
  /\ Goto(c, "insert totp")
  /\ UNCHANGED <<token, redis, world, pledge, observers>>

\* ... and inserts its own; rows it did not find are not locked.
InsertPending(c) ==
  /\ req[c].at = "insert totp"
  /\ AddFactor(req[c].pay.user, "totp", "pending", {})
  /\ Step(c, [req[c] EXCEPT !.at = "store", !.fac = Len(factor) + 1])
  /\ UNCHANGED <<token, otp, voided, sends, world, pledge, observers>>

\* confirm_totp reads the pending row and compares the code; it does not ask for the lock.
ConfirmTotp(c, t, code) ==
  LET f == token[t].fac
      right == AcceptsStep(0, code)
  IN /\ req[c] = Idle
     /\ Live(t, {"enroll"}) /\ factor[f].status = "pending"
     /\ right \/ fails[f] < MaxFails
     /\ Step(c, [Reading(t) EXCEPT !.at = IF right THEN "activate" ELSE "count",
                             !.fac = f, !.code = code])
     /\ UNCHANGED <<factor, token, redis, world, pledge, observers>>

\* Mutant: the row is not asked for its status again.
ActivateAnyTotp(c) ==
  /\ req[c].at = "activate"
  /\ factor' = [factor EXCEPT ![req[c].fac].status = "active", ![req[c].fac].step = req[c].code]
  /\ Spent("enroll", req[c].fac, req[c].code, req[c].read.login)
  /\ Goto(c, "consume")
  /\ UNCHANGED <<token, redis, world, observers>>

ActivateTotp(c) ==
  /\ req[c].at = "activate"
  /\ IF factor[req[c].fac].status = "pending"
     THEN /\ factor' = [factor EXCEPT ![req[c].fac].status = "active", ![req[c].fac].step = req[c].code]
          /\ Spent("enroll", req[c].fac, req[c].code, req[c].read.login)
          /\ Goto(c, "consume")
     ELSE Refuse(c) /\ UNCHANGED <<factor, pledge>>
  /\ UNCHANGED <<token, redis, world, observers>>

\* _ensure_backup_codes reads first ...
EnsureBackupCodes(c) ==
  /\ req[c].at = "codes"
  /\ Goto(c, IF OfType(ActiveFactors(req[c].pay.user), {"backup_codes"}) = {} THEN "new codes" ELSE "complete")
  /\ UNCHANGED <<factor, token, redis, world, pledge, observers>>

RacesForCodes(c) ==
  \E d \in Clients \ {c} : /\ req[d].at \in {"new codes", "insert codes"}
                           /\ req[d].pay.user = req[c].pay.user

\* ... and store_backup_codes replaces the codes of a row it finds by now ...
ReplaceBackupCodes(c) ==
  LET rows == OfType(ActiveFactors(req[c].pay.user), {"backup_codes"})
  IN /\ req[c].at = "new codes"
     /\ IF rows = {}
        THEN Goto(c, "insert codes") /\ UNCHANGED <<factor, fresh, raced>>
        ELSE /\ fresh + BackupCount <= MaxFresh /\ fresh' = fresh + BackupCount
             /\ \E f \in rows : factor' = [factor EXCEPT ![f].codes = fresh + 1 .. fresh + BackupCount]
             /\ raced' = raced \cup {"codes"}
             /\ Goto(c, "complete")
     /\ UNCHANGED <<token, redis, active, linked, now, began, pledge, load, sessions>>

\* ... or inserts one, whatever was inserted meanwhile.
InsertBackupCodes(c) ==
  /\ req[c].at = "insert codes" /\ fresh + BackupCount <= MaxFresh
  /\ fresh' = fresh + BackupCount
  /\ AddFactor(req[c].pay.user, "backup_codes", "active", fresh + 1 .. fresh + BackupCount)
  /\ raced' = IF RacesForCodes(c) THEN raced \cup {"codes"} ELSE raced
  /\ Goto(c, "complete")
  /\ UNCHANGED <<token, otp, voided, sends, active, linked, now, began, pledge, load, sessions>>

-----------------------------------------------------------------------------
(***************************************************************************)
(* Passkeys: the challenge is taken first, whatever becomes of it.         *)
(***************************************************************************)
TakeWebAuthn(c, t, purpose, r) ==
  /\ req[c] = Idle
  /\ Live(t, WebAuthnTokens)
  /\ token' = [token EXCEPT ![t] = Gone]
  /\ IF token[t].kind = purpose THEN Step(c, [r EXCEPT !.tok = t, !.pay = token[t].pay])
                                ELSE UNCHANGED req
  /\ UNCHANGED <<factor, redis, world, pledge, observers>>

ConfirmPasskeyRegistration(c, t) ==
  /\ TakeWebAuthn(c, t, "register", [Idle EXCEPT !.at = "attestation"])

\* create_passkey, when the attestation verifies.
CreatePasskey(c) ==
  /\ req[c].at = "attestation"
  /\ AddFactor(req[c].pay.user, "passkey", "active", {})
  /\ Spent("enroll", req[c].tok, 0, req[c].pay.login)
  /\ Goto(c, "codes")
  /\ UNCHANGED <<token, otp, voided, sends, world, observers>>

\* An assertion by passkey f, with the value its authenticator's counter has by now.
VerifyPasskey(c, t, f, count) ==
  /\ TakeWebAuthn(c, t, "authenticate", [Idle EXCEPT !.at = "assertion", !.fac = f, !.code = count])

\* verify_authentication: the library wants a counter that moved, unless neither side counts.
CountsOn(last, count) == count > last \/ (count = 0 /\ last = 0)

\* The row is read, its owner compared, and the library compares the counters.
CheckAssertion(c) ==
  LET row == factor[req[c].fac]
      fits == /\ row.status = "active"
              /\ req[c].pay.user \in {None, row.user}
              /\ CountsOn(row.count, req[c].code)
  IN /\ req[c].at = "assertion"
     /\ IF fits THEN Step(c, [req[c] EXCEPT !.at = "counter", !.seen = row.count, !.pay.user = row.user])
                ELSE Refuse(c)
     /\ UNCHANGED <<factor, token, redis, world, pledge, observers>>

\* update_passkey_counter: an UPDATE on the counter that was read, not on the status.
UpdatePasskeyCounter(c) ==
  /\ req[c].at = "counter"
  /\ IF factor[req[c].fac].count = req[c].seen
     THEN /\ factor' = [factor EXCEPT ![req[c].fac].count = req[c].code]
          /\ Spent("passkey", req[c].tok, 0, req[c].pay.login)
          /\ Goto(c, "complete")
     ELSE Refuse(c) /\ UNCHANGED <<factor, pledge>>
  /\ UNCHANGED <<token, redis, world, observers>>

-----------------------------------------------------------------------------
(***************************************************************************)
(* Time, failures, and the rest of the system.                             *)
(***************************************************************************)
\* A request that raises, is cancelled, or whose process dies.  A transaction cut off in
\* the middle leaves no trace, which is a request that stopped before it.
Stop(c) ==
  /\ "stop" \in load.requests /\ req[c].at \notin {"idle", "insert totp"}
  /\ Refuse(c)
  /\ UNCHANGED <<factor, token, redis, world, pledge, observers>>

NextTotpStep ==
  /\ now < MaxStep
  /\ now' = now + 1
  /\ UNCHANGED <<factor, token, redis, active, linked, fresh, began, req, pledge, observers>>

ExpireToken(t) ==
  /\ Live(t, {"workflow", "verify", "enroll"} \cup WebAuthnTokens)
  /\ token' = [token EXCEPT ![t] = Gone]
  /\ UNCHANGED <<factor, redis, world, req, pledge, observers>>

ExpireOtp(t) ==
  /\ t \in DOMAIN token /\ otp[t] # NoOtp
  /\ otp' = [otp EXCEPT ![t] = NoOtp]
  /\ UNCHANGED <<factor, token, fails, lock, voided, sends, world, req, pledge, observers>>

\* MFA_FAILURE_WINDOW runs from the first failure and equals the time of the lock, which
\* starts later: the counter is gone before the lock is.
ExpireFactorCounter(f) ==
  /\ fails[f] > 0
  /\ fails' = [fails EXCEPT ![f] = 0]
  /\ lock' = [lock EXCEPT ![f] = IF @ = "locked" THEN "fading" ELSE @]
  /\ UNCHANGED <<factor, token, otp, voided, sends, world, req, pledge, observers>>

ExpireLock(f) ==
  /\ lock[f] = "fading"
  /\ lock' = [lock EXCEPT ![f] = "open"]
  /\ UNCHANGED <<factor, token, otp, fails, voided, sends, world, req, pledge, observers>>

ExpireUserCounters(u) ==
  /\ voided[u] + sends[u] > 0
  /\ \/ voided' = [voided EXCEPT ![u] = 0] /\ UNCHANGED sends
     \/ sends' = [sends EXCEPT ![u] = 0] /\ UNCHANGED voided
  /\ UNCHANGED <<factor, token, otp, fails, lock, world, req, pledge, observers>>

\* Staff suspend or lock the account (RecoveryControl).
Deactivate(u) ==
  /\ "suspend" \in load.requests /\ u \in active
  /\ active' = active \ {u}
  /\ UNCHANGED <<factor, token, redis, linked, now, fresh, began, req, pledge, observers>>

ClientStep(c) ==
  \/ \E t \in DOMAIN token :
       \/ IssueChallenge(c, t, "totp") \/ IssueChallenge(c, t, "otp") \/ IssueChallenge(c, t, "backup_codes")
       \/ SetupTotp(c, t) \/ PasskeyRegistrationOptions(c, t) \/ PasskeyAuthenticationOptions(c, t)
       \/ ProveCollisionPassword(c, t) \/ ResendChallenge(c, t) \/ ConfirmPasskeyRegistration(c, t)
       \/ \E f \in DOMAIN factor : RevokeFactor(c, t, f)
       \/ \E f \in OfType(DOMAIN factor, {"passkey"}), n \in 0..MaxCount : VerifyPasskey(c, t, f, n)
       \/ \E code \in Codes(t) : VerifyChallenge(c, t, code)
       \/ \E code \in {0, now, now + 1} : ConfirmTotp(c, t, code)
  \/ PasskeyPrimaryOptions(c)
  \/ TakeWorkflow(c) \/ RevokeRow(c) \/ StoreOtp(c) \/ Deliver(c) \/ DeliveryFails(c) \/ StoreChallenge(c)
  \/ CompareTotp(c) \/ AdvanceTotpStep(c) \/ CheckOtp(c) \/ CheckBackupCode(c)
  \/ CountFactorFailure(c) \/ LockFactor(c) \/ CountChallengeFailure(c) \/ DeleteChallenge(c)
  \/ TakeChallenge(c) \/ Complete(c)
  \/ SelectPending(c) \/ InsertPending(c) \/ ActivateTotp(c)
  \/ EnsureBackupCodes(c) \/ ReplaceBackupCodes(c) \/ InsertBackupCodes(c)
  \/ CreatePasskey(c) \/ CheckAssertion(c) \/ UpdatePasskeyCounter(c)
  \/ Stop(c)

MfaNext ==
  \/ \E c \in Clients : ClientStep(c)
  \/ \E u \in Users : \/ PrimaryLogin(u, "session_ready", None)
                      \/ \E s \in Subjects \cup {None} : PrimaryLogin(u, "mfa_required", s)
                      \/ ExpireUserCounters(u) \/ Deactivate(u)
  \/ \E t \in DOMAIN token : CreateSession(t) \/ ExpireToken(t) \/ ExpireOtp(t)
  \/ \E f \in DOMAIN factor : ExpireFactorCounter(f) \/ ExpireLock(f)
  \/ NextTotpStep

MfaSpec == MfaInit /\ [][MfaNext]_vars

-----------------------------------------------------------------------------
(***************************************************************************)
(* Properties.                                                             *)
(***************************************************************************)
Logins == 1..MaxLogins

HeldTokens(l) == {t \in DOMAIN token : token[t].state = "live" /\ token[t].pay.login = l}
HeldRequests(l) == {c \in Clients : req[c].pay # None /\ req[c].pay.login = l}

\* A login is where its tokens and the requests that took them are.
Ticket == INSTANCE LoginTicket WITH
  origin <- [l \in Logins |-> IF l \in DOMAIN began THEN began[l] ELSE "none"],
  holders <- [l \in Logins |-> Cardinality(HeldTokens(l)) + Cardinality(HeldRequests(l))],
  links <- {i[3] : i \in linked},
  assured <- {l \in Logins : \/ \E t \in HeldTokens(l) : token[t].pay.assured
                             \/ \E c \in HeldRequests(l) : req[c].pay.assured}

\* The handlers, however they interleave or stop, treat a login as a ticket: no token
\* or code is accepted twice, nothing is assured without a proof spent for that login
\* alone, a login that waits for a factor yields no session without it, and one that
\* collided with an account yields a linked identity only after a proof, and only once.
\* A proof is what _complete asks for: a password, a code, an assertion, or, for who has
\* no strong factor yet, the enrollment of one (ProvenBeforeLinked is about that last one).
TicketsHold == Ticket!TicketSpec

\* A social identity whose address belongs to an account is linked only after that account
\* is proven: behind the link is something the account had before, and not a factor that
\* was enrolled with the very workflow of the collision.
ProvenBeforeLinked ==
  \A i \in linked : \E e \in pledge : e.login = i[3] /\ e.proof[1] # "enroll"

\* Parallel guesses: a wrong code is counted after it was compared, so the requests
\* already past the lock add to the limit, and nothing else does.
GuessesBounded ==
  "stop" \notin load.requests => \A f \in DOMAIN load.enrolled : fails[f] <= FailureLimit - 1 + Cardinality(Clients)

\* Counters of an authenticator or a passkey never run backwards.  The row of a revoked
\* factor stays revoked, and no time step or backup code of it is spent any more, whatever
\* was read before; the counter of a passkey can still move, for update_passkey_counter
\* does not ask for the status: an assertion checked before the removal is completed.
NothingRewinds ==
  [][\A f \in DOMAIN factor :
       /\ factor'[f].step >= factor[f].step
       /\ factor'[f].count >= factor[f].count
       /\ factor[f].status = "revoked" => /\ factor'[f].status = "revoked"
                                          /\ factor'[f].step = factor[f].step
                                          /\ factor'[f].codes = factor[f].codes]_vars

\* A user with an authenticator or a passkey keeps one, unless two removals overlapped; and
\* has one set of backup codes at most, unless two enrollments overlapped.
FactorsUnlessRaced ==
  [][\A u \in Users :
       /\ StrongFactors(u) # {} => StrongFactors(u)' # {} \/ "factors" \in raced'
       /\ Cardinality(OfType(ActiveFactors(u), {"backup_codes"})') <= 1 \/ "codes" \in raced']_vars

=============================================================================
