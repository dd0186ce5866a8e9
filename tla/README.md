# Formal model of auth-core

TLA+ modules, TLC configurations and TLAPS proofs for the authentication service of this
repository: `services/auth-api` (Python, FastAPI, PostgreSQL, Redis) and
`services/jwt-verifier` (Go). Paths below are relative to
`services/auth-api/src/auth_core` unless they start with `docs/` or `services/`.
`PROJECT.json` maps every definition to the lines it models.

## 1. The system

Every feature has the same layers: an HTTP boundary, a control class that holds the rules,
and adapters: one PostgreSQL repository per feature, in which each method is one
transaction under READ COMMITTED, and one Redis store. The control classes keep no state
between requests. Two API processes, or two requests in one process, therefore meet only in
PostgreSQL rows and Redis keys, and a handler can stop between any two of its calls.

| Component | State | Operations | Talks to |
|---|---|---|---|
| Session (`control/session.py`, `session_repository.py`) | `refresh_token_families`, `sessions`, `refresh_tokens` | create (with a cap), rotate, revoke one, revoke all, scope to a workspace, authenticate | Redis revocation keys, token signer |
| Gateway (`services/jwt-verifier`) | JWKS cache | verify signature and expiry, then the four revocation keys | Redis keys written by the API |
| Recovery and governance (`control/recovery.py`, `recovery_repository.py`) | account state, version, password history, reset links, contact changes, governed MFA resets | request and use a reset link, dual-channel contact change, lock, unlock, suspend, initiate/approve/execute an MFA reset | session revocation, OTP hashes in Redis, mail |
| Workspace and referral (`control/workspace.py`, `workspace_repository.py`) | role bindings, invitations, referral codes and claims | create an organization, invite, accept, replace a role, offboard, switch workspace | sessions and tokens |
| MFA (`control/mfa.py`, `mfa_repository.py`) | TOTP factors with their last step, passkeys with their counter, backup codes; workflow, challenge and WebAuthn tokens | issue, resend and verify a challenge, enrol, revoke, prove a collision | login decision, session creation, one-time codes and locks in Redis |
| Login (`control/login.py`, `login_repository.py`) | identities, devices; failure counters, locks, phone codes, OIDC states | password, phone and social login, risk decision | rate limits and workflow in Redis |
| Registration (`control/registration.py`, `registration_repository.py`) | users, verification links and codes | register by address or phone, verify, resend | referral claims |
| Privacy and audit (`control/privacy.py`, `privacy_repository.py`) | export and erasure requests, stored exports, audit rows | request, build, download, erase, search | every other table |

Where the difficulty is:

* **Overlapping transactions.** Rows that a transaction locks with `FOR UPDATE` are safe.
  Sets of rows are not: "the active sessions of a user", "the owners", "the live links" are
  snapshots, and what commits later is missed.
* **Two stores.** A revocation is a commit followed by up to several Redis calls. In between
  the database and the gateway disagree, and a failure there is not repaired.
* **Check, then act, in two transactions.** `user_is_active` then insert; membership then
  scope; reset of a password then revocation of its sessions.
* **Retries and lost replies.** A rotation whose answer is lost is repeated with the token
  that was already exchanged.
* **Long delays.** Governed resets and contact changes are applied long after they were
  decided, against an account that may have moved on.

What makes each component correct: refresh tokens form one chain and die together; nothing
revoked comes back; every dead access token is refused at the gateway soon; one live reset
link; recent passwords are refused; a governed reset takes two people and an unchanged
account; an organization keeps an owner; a member has one role; an invitation works once;
one-time codes work once; a lock stops guessing; a login ends in one session at most and not
without its factor; a referral is earned with the account it led to; every privacy request
settles and an erasure leaves neither data nor access.

## 2. Modules

| Module | Models |
|---|---|
| `SessionRepository` | every transaction on the session tables, those of the workspace and privacy repositories included |
| `SessionControl` | extends it: handlers, Redis revocation keys, access tokens, gateway and API checks |
| `RecoveryRepository` | account versions, reset links, password history, contact changes, governed resets |
| `Membership` | role bindings and invitations of one organization, with overlapping requests, erasure and workspace scope |
| `LoginTicket` | abstract: what the tokens of one login promise |
| `Mfa` | the second step of a login; implements `LoginTicket` |
| `Login` | the first step of a login: password, phone code, social identity, device, decision |
| `AccountLife` | abstract: what registration and referral promise together |
| `Registration` | registration, proof of the contact, referrals; implements `AccountLife` |
| `Privacy` | exports and erasure of one account with their row locks; search in the audit history |
| `MC*` | instances for TLC: symmetry sets, workloads and two state constraints; no definition is replaced |
| `*Proofs` | theorems about the module of that name |

Operators marked "Mutant" are plausible wrong versions of the definition that follows them.
They are used by nothing; each exists to show that some property notices the mistake.

### SessionRepository
A family, its session and its tokens are rows `family[f]`, `session[f]` and the sequence
`token[f]` in order of insertion; an access-token identifier is a number local to the
session. `rotate_refresh_token`, `revoke_session`, `scope_session`, the session part of
`offboard_member` and the deletion by `execute_erasure` lock their rows first and are one
action each. `create_session` and `revoke_all` start from a set of rows and are two:
`...Select` takes the snapshot, `...Commit` locks, re-checks the rows that changed and
writes. Between the two anything else may commit, or the transaction may roll back.
`CallerNow` lets the handler's clock reading be up to `MaxLag` old when it is used, because
the control class reads the clock before the transaction starts.

### SessionControl
A process `p` runs one HTTP request. `req[p]` holds the step it is at, the Redis calls it
still owes (`todo`, in the order of the code) and what it will return. Handlers are
`CreateBegin`/`CreateSelect`/`CreateCommit`, `Refresh`, `Authenticate` followed by `Logout`,
`RevokeSelected`, `RevokeUser...` or `Scope`, `Suspend`, and `Offboard`; after the commit
`RedisCall` makes one call at a time, `Reply` returns, and `Fail` ends the request at any
point without undoing anything. `access` is the set of unexpired access tokens in the hands
of clients, also those the server has replaced. `held` records how many refresh tokens the
client received, so that a lost reply followed by a retry happens. `GatewayAccepts` is
`checkRevocation` of the Go verifier, `ApiAccepts` is `SessionControl.authenticate`. The
module extends `SessionRepository` and its steps on the tables are that module's actions.

### RecoveryRepository
One account row carries state, version, address, password history (newest first) and
whether it has MFA factors; every account transaction bumps the version as the code does.
Issuing a link retires the live ones it sees and inserts one (`RequestPasswordReset` or
`SupportRecovery`, then `IssuePasswordReset`). `ConsumePasswordReset` checks the history,
inserts, prunes (`Kept`: the prune sees the row just added) and marks the link used.
Contact changes need both proofs and apply with the second. Governed resets go through
initiate, approve by another holder of the role, a delay, and execution on an unchanged
version. `RefuseChangedTarget` is the branch that assigns "cancelled" and raises inside the
transaction: it changes nothing.

### Membership
All statements are qualified by the organization, so one organization is modelled.
An invitation is to an address (`Emails`); whose it is, is asked when it is made and again when
it is accepted (`email[u]`), and `ChangeEmail`, the contact change of the recovery module, may
come in between. An erasure takes the address from the account and from the invitations to it.
Requests are `...Decide` (permission, roles, owner count), `Update` (the rows its UPDATE
will touch), and `...Commit`. Only `accept_organization_invitation` locks what it decides on;
statements that would touch that invitation wait. `raced` is an observer: it collects that
two requests overlapped that may both remove an owner, or that are about the same member or
the address the member has; and that a member, or somebody a request is about, moved to an
address that is invited or being invited ("address").

### Mfa and LoginTicket
A client runs one handler of `MFAControl` at a time. Every Redis command, Lua script and
transaction of it is a step, and `Stop` may end it in between. `token` holds the workflow,
challenge and WebAuthn tokens in the order they were drawn, each with the payload the code
stores; `GET` does not take a token and `GETDEL` does (`TakeWorkflow`, `TakeChallenge`,
`TakeWebAuthn`), so everything between the two can be overtaken. Transactions that first
select and then insert a row (`create_pending_totp`, `store_backup_codes`) are two steps.
The counter of wrong codes and the lock are two keys with two lifetimes; when the counter goes
first the lock is "fading".

`LoginTicket` says what all this is for: a login is a ticket with one holder, gains assurance
only by a proof spent for it alone, and is exchanged once, for a session or a linked
identity. The refinement mapping (`Ticket` in `Mfa`) counts as holders of a login the live
tokens that carry it and the requests that took one. Two stores, seven kinds of token and
the interleavings disappear; `TicketsHold` is the abstract specification under that mapping.
`BuysOnce` is an invariant of the abstract specification: what a login was exchanged for and
which proof stands behind it. As `_complete` does, `LoginTicket` takes the enrolment of a first
factor for a proof; what the documents ask for when an identity is linked is `ProvenBeforeLinked`,
which the code does not keep (section 3).

### Login
`attempts` and `lock` are kept per mail address and per network address (which may be
missing), and are read and written in the order of `_check_login_lock` and
`_record_password_failure`. A phone code has a flag for its time to live, since `HSET` and
`EXPIRE` are two steps. An OIDC state is taken by `GETDEL`; `FindIdentity`, `FindMail` and
`ProvisionOidc` are transactions of their own, the last with the unique constraints of
`users` and `identities`. `device_signals` is a select and an insert. `decided` lists the
workflows that were stored.

### Registration and AccountLife
Registration by address and by phone share the counter, the lookup and the "same answer for
everybody" branches. `issue_email_verification` and `create_referral` retire rows and then
insert one, in two steps. `VerifyEmail` and `ActivatePhone` activate a pending account and
its referral in one transaction. `AccountLife` maps a contact to the state of its account
and a referral to open, taken, earned or dead; `LifeHolds` is that specification, and
`EarnedByOne` an invariant of it.

### Privacy
One account, since every statement is about the user in the claims. A transaction that may
wait for a lock in its middle is split at that point, and `rowLock` and `userLock` hold what
it has locked: `complete_export` locks its request and then needs a share of the user's row
(the foreign key of the artifact); `execute_erasure` locks its own request, the user, and
then every export it cancels. That is a cycle; `BreakDeadlock` is PostgreSQL aborting either
side. `Refused` is an error inside the try block, `heard = FALSE` a commit whose answer was
lost (both lead to `fail_export`), `GivenUp` an error outside it (in `revoke_user_access` or in
`fail_export` itself), `Stop` a process that is gone. `revoke_user_access` is two steps,
`RevokeAll` for the commit and `DenyAccess` for the Redis keys, and `access` is what the user
still has: sessions, or tokens the gateway takes. An export is modelled by
whether it was collected before or after the anonymization. The audit part has a clock, the
sort keys of the rows that match the filters and one supervisor who follows the cursor;
a row carries the time at which its transaction began and appears when it commits. A page is
the beginning of the rows below the cursor in the order of the query (`Listings`).

`raced`, `cut`, `left` and `unheard` in these modules are observers: no guard reads them.

## 3. Runs

| Run | Question | Result |
|---|---|---|
| `session_rotation` | One family through rotation, reuse, all expiries, rescoping, revocation, erasure | holds |
| `session_cap` | Four sessions under a cap of two, two transactions that may overlap: how far the cap is exceeded, and oldest first | holds |
| `session_denial` | Two concurrent handlers, an organization, no failures: dead tokens are denied, and denial happens | holds |
| `session_failures` | Two sessions under a cap of one, so that a creation evicts what other handlers work on, and a handler that fails at any point: only a lost call lets a dead token pass, and nothing issued since is denied | holds |
| `session_suspend_race` | A suspended account has no usable session | **violated** |
| `recovery` | One account with links, passwords, locks, suspension and governed resets, or with contact changes | holds |
| `membership` | Two overlapping requests of every kind on two accounts, which change between two addresses | holds |
| `mfa` | Two clients against each other in the second step of a login, one mix of requests per behaviour | holds |
| `mfa_link_by_enrolment` | A collided identity is linked only after a factor the account had before was proven | **violated** |
| `login` | Two clients in the first step, with resets, registrations, suspensions and stopped requests | holds |
| `registration` | Two clients register, verify, invite and claim, with suspensions and failing deliveries | holds |
| `privacy` | Two requests export and erase one account; a supervisor pages through a growing history | holds |

The properties, in short:

* `RotationChain`: tokens of a family are consecutive generations and all but the newest are
  spent, so two requests with one token never both succeed. `FamilyDiesWhole`: family,
  session and newest token are alive or revoked together. `FamilyCeiling`: no token outlives
  the family. `RevocationIsFinal`: no step revives a family or rewrites its reason.
  `SessionCap`: with n transactions that may overlap, a user has n - 1 sessions more than the cap
  at most. `EvictsOldest`: whom the cap costs.
* `DeadTokensAreDenied`: an unexpired access token the database no longer honours is refused
  by the gateway, or a handler is running that owes the call that refuses it, or one failed
  owing it. `RevocationReachesGateway`: eventually it is refused for good. `NoFalseDenial`: no key
  or owed call names a live family or its current token, and no key of a user or an organization
  is dated later than now, so none refuses what is issued after it. Such a key does refuse
  tokens of live sessions that were issued in its second or before.
* `LiveLinksBounded`: with n transactions that may overlap a user has n links at most that can be
  presented. `KeptPasswordsDiffer`, `FourEyes`, `OneResetPerVersion`,
  `SuspendedKeepsFactors`, `PendingIsCurrent`: see the comments in `RecoveryRepository`.
  `StaleNeverRuns`: a governed reset whose target changed never runs, although it stays open.
* `OwnerUnlessRaced`, `OneRoleUnlessRaced`, `OutsidersUnlessRaced`: what the membership code
  achieves when the requests that matter to each other do not overlap (other requests still
  do), and, for the invitations in the last one, when no member moves to an invited address.
  `AcceptedOnce` needs no such condition.
* `TicketsHold`: the refinement above. `GuessesBounded`, `AttemptsBounded`: wrong codes and
  passwords exceed the limit by the requests already past the lock and by nothing else, and
  a phone code is compared a bounded number of times and accepted once.
  `NothingRewinds`: TOTP steps and passkey counters only grow; a revoked factor stays revoked,
  with its last step and its codes as they were.
  `FactorsUnlessRaced`: the last strong factor stays, and there is one set of backup codes.
* `PasswordUnlessRaced`: the password that works is the last one chosen. `FirstSightOnce`,
  `SocialLogins`: a device is new once, a state decides once and an address has one account.
  `KeysExpireUnlessCut`: no order of requests leaves a code without a time to live.
* `LifeHolds`: the refinement above. `OneOpenUnlessRaced`: one verification link and
  one invitation are open.
* `OneWorker`: an idempotency key is worked on once. `ErasedUnlessRaced`: no stored export
  and no access after an erasure.
  `AnswersAreTrue`: the state of a request is what happened. `RequestsSettle`: every request
  settles, unless its process is gone or ended on an error nobody catches. `PagesMeetOnce`:
  paging to the end shows each row of the first moment once.

The type invariant of every module is a theorem (section 4); TLC checks those of
`SessionRepository` and `Membership` as well. The other runs do not list theirs, since a run's
properties are the promises of the code.

The condition in an `...UnlessRaced` property names the overlap under which the code does
not keep the promise; everything else may interleave, so the property fails when a second
way is added.

### Disagreements with the documentation
*Suspension* (`session_suspend_race`). `create_session` checks the account in a transaction
of its own; a suspension and its `revoke_all` in between miss the session inserted
afterwards. `docs/architecture/recovery_and_governance_foundation.md:17`. `SuspensionLocksOut`
(section 4) shows that, failures aside, this is the only way.

*Linking by enrolment* (`mfa_link_by_enrolment`). A workflow that needs a collision proof may be
spent on the enrolment of a first factor, and the completed enrolment links the identity: nothing
the account had before was asked for (`control/mfa.py:483`;
`docs/architecture/mfa_and_passkey_foundation.md:54`,
`docs/specifications/auth_module_specification_v2.1.md:128`).

Observed while modelling, without a run of their own:

* *Password history.* The prune counts the row just added and keeps four, so the fifth last
  password is accepted (`recovery_repository.py:165`;
  `docs/architecture/recovery_and_governance_foundation.md:27` says five).
* *Cancellation.* The state "cancelled" is rolled back with the exception; the request stays
  open, and unusable (`recovery_repository.py:449`;
  `docs/specifications/auth-core_db_schema.md:59`).
* *Last owner.* Two owners who remove each other both count two
  (`workspace_repository.py:609`; `docs/architecture/workspace_and_referral_foundation.md:31`).
* *Expiry.* A request cut off between `HSET` and `EXPIRE` leaves a code without a time to live
  (`redis_security.py:126`; `docs/architecture/persistence_foundation.md:69` says every
  temporary key has an explicit expiration).
* *Erasure.* An export collected before and stored after an erasure keeps its artifact
  (`privacy_repository.py:309`; `docs/architecture/privacy_and_audit_foundation.md:73` lists
  export artifacts among what is removed). A process that stops, or a `revoke_user_access`
  or a `fail_export` that raises, leaves its request "processing" for good
  (`control/privacy.py:192`, 260, 274).
* *Session cap.* Two overlapping creations exceed it by one (`session_repository.py:50`;
  `docs/architecture/session_and_token_foundation.md:40` says a maximum of 10 is enforced).
* *Revoked passkey.* `update_passkey_counter` compares the counter and not the status
  (`mfa_repository.py:269`): an assertion checked before the revocation still completes.
* *Same second.* A login in the second of a `logout_all` gets a token that is refused, since the
  key refuses `iat <= revoked_at` (`control/session.py:199`).
* *Invited address.* A member who changes to an address with a pending invitation can accept it
  after having been offboarded (`workspace_repository.py:355`, `recovery_repository.py:290`).
* A failure between a commit and its Redis calls leaves an access token accepted until it
  expires; offboarding resets
  `last_activity_at`, so a session that was idle too long can be refreshed again; two
  overlapping requests for a link or an invitation leave two; a login that renews an outdated
  hash overwrites a reset that came in between; two overlapping revocations can remove the
  last two strong factors.

For most of them the property of a passing run names the case as its condition, and the
theorem about it shows that there is no other.

### Bounds
* *Session runs.* One user suffices, since no statement mixes users. `session_rotation` has
  one family, four tokens, five jtis, five clock values with a shorter idle timeout, and a
  caller clock that lags by one: reuse of any generation, every expiry and its boundary
  second happen. `session_cap` has two transactions and a family more than the cap and its excess
  together allow. The control runs have two
  processes, because each race is between one commit and the calls of one other handler, and
  two clock values in `session_denial`, so that a second boundary separates issue and
  revocation; `session_failures` has two sessions and one failure instead.
* *Recovery.* One account; three links, issued by two transactions that may overlap, and three
  passwords with a limit of three; two governed
  requests, two members of staff one of whom holds both roles; up to five versions; or two
  contact changes between two addresses. The state constraint `OnePart` keeps to links and
  resets or to contact changes in one behaviour, because both share only the account's
  state and version. Two accounts that compete for an address are left to the theorem
  `PendingRequestsAreCurrent`, which holds for any number.
* *Membership.* Two accounts with at most one of two addresses each, owner and one plain role,
  two invitations, two open requests and three binding rows: enough for create, accept, replace,
  for offboarding while another request runs, and for an address that is given up by one account
  and taken by the other.
  The state constraint `MemberRaceAlone` does not follow a behaviour in which requests about one
  member overlapped once something else has overlapped too: only `AcceptedOnce` says anything
  there, and `InvitationsAreAcceptedOnce` proves that without a bound.
* *Workloads.* `Mfa`, `Login`, `Registration` and `Privacy` have many handlers, and two of them
  meet only where they share a row or a key. A workload (chosen at the start, constant
  afterwards) says which kinds of request a behaviour makes; `Together` in the MC module lists
  the kinds that share state. Faults (`stop`, `refuse`, `suspend`, ...) belong to workloads.
* *Mfa.* Two clients, one user, limits of two (a limit is reached, and passed by the request in
  flight), up to five tokens and two logins, four time steps, a backup set of one code (its
  last code retires it).
* *Login.* Two clients, one mail address, two network addresses, one device, two subjects with
  the same address, limits of two, three decisions: two first logins, and one that knows the
  device.
* *Registration.* Two clients, two mail addresses, a phone, three links, two referrals.
* *Privacy.* Two clients, two keys, three requests (two exports and an erasure meet), two
  logins, five audit rows in two moments with pages of two: three pages, ties included.

Deadlock checking is off everywhere: clocks, tokens, versions and rows are bounded, and a
system without requests may stop.

### Fairness
`FairControlSpec` is used by `session_denial` only: weak fairness of `Continue(p)` for each
process, that is, a handler that has started takes its next step. The event loop schedules
every runnable coroutine and the calls return or raise. No request has to arrive, no client
has to retry and time does not have to pass. Failures are excluded in that run
(`MaxFailures = 0`), since after a failure the code does not repair the missing calls.

`PrivacySpec` has weak fairness of `Work(c)` for each client for the same reason; it includes
`BreakDeadlock`, which PostgreSQL guarantees after `deadlock_timeout`. Errors and stopped
processes are possible and not fair; `RequestsSettle` excuses the requests whose process is gone
or whose handler ended on an error outside its try block (`left`).

## 4. Proofs

A theorem holds for every value of the constants that meets the named assumptions of its
module; TLC evaluates these on every run. They say that limits, lifetimes and page sizes are
positive, that NULL is no identifier and no content, that a session lives no longer than its
family, that "OWNER" is not a plain role, that mail addresses, phone numbers and network
addresses are different strings (they are parts of Redis keys), and that the rows a workload
starts with respect the unique constraints: one account per contact, one set of backup codes
per user. Numbers of audit rows and clock values are natural, so that "no cursor" is no key of a
row. For the handlers of `SessionControl` the set of families is finite, since they visit
the families of a result one by one.

Some theorems have a further hypothesis of their own:

* `[]IssuesApart` (`LinksAreSingle`): no user has two issues of a link open at the same time. If
  one has, two links remain (section 3). All other transactions, and those of other users, may
  come between the two steps of an issue.
* `[]Overlaps(k)` (`CapExcessIsBounded`, `LinkExcessIsBounded`): at most `k` creations or issues are
  open for a user, for an arbitrary `k`; `k = 1` is the promise of the documents. `PoolBoundsCap`,
  `PoolBoundsLinks` and `ProcessesBoundSessions` have no condition but that there are finitely
  many transactions (a connection pool, a set of processes).
* `[]SuspensionsApart` (`SuspensionLocksOut`): no creation that found its user active goes on
  after the user is suspended. The violation run is this overlap.
* `MaxFailures = 0` (`SuspensionLocksOut`): handlers do not fail between a commit and its Redis
  calls, as in `session_denial`; the code does not repair what is missed then.
* `IsFiniteSet` of `Fids`, `Links`, `Txs` or `Clients`: where the property counts rows or requests.

`GuessesAreBounded` and the first half of `AttemptsAreBounded` say nothing of behaviours in
which requests are stopped, and neither do the properties in the runs: a request that stops
between the comparison and the counter leaves a guess uncounted.

**SessionRepositoryProofs.** `RowsInv` is the inductive invariant: types, and for every
family a relation between its three kinds of rows (consecutive generations, only the
newest token unspent, revoked together). Types alone are not enough, because rotation
decides by flags of a single token while the claim is about the whole sequence. It gives
`TypeCorrect`, `RotationIsLinear`, `FamiliesDieWhole`, and, as an action property,
`RevokedStaysRevoked`. `CeilingHolds` adds that tokens' expiries are bounded by the
family's, which each rotation keeps since it takes a minimum. `OldestAreEvicted` is about the rows
a creation has read, in the order in which it reads them, whatever happened to them since. For
the cap the difficulty is that a creation misses the sessions inserted after its snapshot.
`OverlapInv(k)` bounds them,
for every set `P` of open creations of a user: either the user is far enough below
`MaxActive + k - 1` to take one more session for each of `P`, or some creation in `P` has missed
so few sessions that its commit brings the user back (`Fits`). A bound on the open creations as
a whole is not inductive, since they commit in any order; with the quantifier over subsets every
commit leaves a smaller set that fits. It gives `CapExcessIsBounded`: `k - 1` sessions above the
cap. It is attained: two overlapping creations that see the same sessions both insert one.
`PoolBoundsCap` takes for `k` the number of transactions: that is `SessionCap`.

**SessionControlProofs.** The steps of the handlers on the tables are the repository's own, which
carries its theorems over (a lemma). `ControlInv` says what a
request carries between its steps (a user or a family, and a clock reading at most `MaxLag`
old), which is what the repository's actions need as arguments. `HandlersKeepFamilies`
states them for failing and concurrent handlers. `DenialInv` relates
Redis to the tables. `DenialsTrue`: a key that is set, and a call that is still owed,
names a family or token that the database already refuses and will refuse for good, or a user
or organization with a moment that is past. That is `NothingLiveIsDenied`, failures or not.
`TokensCovered`: an issued access token is honoured, refused, or somebody owes, or owed when it
failed, the call that refuses it; handlers owe their calls in the commit itself. That is
`DeadTokensAreRefused`. `ControlTypeCorrect` adds the remaining types.
`ProcessesBoundSessions` carries the bound on sessions over to the handlers, through the
refinement. `LockInv`: while a suspended user has a session that is not revoked, the handler that
suspended the user is still to revoke, and its snapshot has all of them (`LocksOut`). It gives
`SuspensionLocksOut`.

**RecoveryRepositoryProofs.** `AllInv` holds types, ownership of links and requests, that a
pending contact change records the account's present address, and `VersionsTell`: a
request never carries a version its account has not had, and one that carries the present
version saw the account as it is, not suspended and not yet reset. `VersionsTell` is why a
reset runs at most once per version; without it the property is not inductive. Results:
`RecoveryTypeCorrect`, `PendingRequestsAreCurrent`, `ResetsTakeFourEyes`,
`ResetsRunOncePerVersion`, `SuspensionProtectsFactors`, and `StaleRequestsStayDead`, because
versions only grow. `NewPasswordsDiffer` rests on `HistoryIsNewest`: what the prune keeps is
the newest end of everything the account ever had. `LinksAreSingle` rests on `SeesLinks`, the
fact that an open issue has read every live link its user still has, and `LinkExcessIsBounded` on
an `OverlapInv(k)` as for the sessions: `k` links at most; `PoolBoundsLinks` is `LiveLinksBounded`.

**MembershipProofs.** `MembershipInv` adds to the types what open requests hold: the
accepting one a pending invitation, the inviting one the identifier of an
absent row (`HeldBy`), no two the same (`Apart`); and that each binding with an invitation
is that invitation's only one (`Sourced`). The lock of the accepting request is what keeps
`HeldBy` true while others commit. Results: `MembershipTypeCorrect`,
`InvitationsAreAcceptedOnce`. `CalmInv` says what a request that is alone with its member may
rely on: the rows it has planned to touch are all rows of that member. It gives
`MembersHaveOneRole` and the part of `OutsidersStayOut` about sessions. `PostInv` is for the part
about invitations: an address has one pending invitation at most, nobody with a role has the
address of one or of a request that invites, and whoever accepts uses the only one to their
address (`Posted`). It is a relation between requests, addresses, invitations and bindings, since
any of the four may change while the others stay. `OwnerInv` says that while no two removals
overlap, the one that is open leaves an owner who is not erased: `OrganizationsKeepAnOwner`.

**LoginProofs.** `TablesInv` holds the types, what the unique constraints of `users` and
`identities` guarantee, and what a request at each step has read (`TablesStayTrue`). Five
invariants on top of it: a request about to renew a hash has today's password
(`PasswordInv`); an OIDC state that decided or is being decided is gone and in one place
(`SocialInv`); so is the first sight of a device (`DeviceInv`); the comparisons a code has seen
are those its key counts (`TriesInv`); and a counter past the limit has a lock, or as many
requests on the way to set it as it is past the limit (`CountersInv`). The last one is an
argument by cardinality: each request that may still count or lock stands for one excess
guess. Results: `LoginTypeCorrect`, `CodesExpire`, `PasswordsAreTheLatest`,
`DevicesAreNewOnce`, `SocialLoginsAreSingle`, `AttemptsAreBounded`.

**MfaProofs.** `StoresInv` holds the types, what each step of a request has in hand
(`Placed`), and `Exclusive`: a login is in one stored token or with one request, so that a
`GETDEL` that succeeds leaves no second holder (`LoginsAreInOnePlace`, `MfaTypeCorrect`).
`FactorsNeverRewind`: every write keeps or raises the counters (`RowsKept`), since the code
compares and writes in one statement. `UsersKeepAFactor`: a removal that was decided still
leaves a factor (`RemovalsLeaveOne`), and an insertion of codes finds none (`OneCodeSet`).
`GuessesAreBounded` counts as `AttemptsAreBounded` does. `LoginsAreTickets` is the refinement
`MfaSpec => TicketsHold`. It needs `TicketInv`: what a payload says of its login is true
(`PaysTrue`: if it says "assured", a proof was spent for that login); a request about to
complete has its proof and no other request has the same (`RequestsProved`); and a proof that
was spent cannot be presented again, because its code, step, counter or token is gone
(`ProofsUsed`). With these, each step is one of `Start`, `Lose`, `Spend`, `Elevate`, `Redeem`
and `Link`, or a stutter. `LoginsBuyOnce` is what follows from the refinement: `Worth`, a
strengthening of `BuysOnce`, is kept by each abstract step, so it needs no look at the handlers.

**RegistrationProofs.** `RowsInv` (`RowsBelongTogether`): types, one account per contact, links
and referrals of existing accounts, a referral taken by the account it led to. It gives
`RegistrationTypeCorrect`. `OpenInv`: whoever is about to insert a link or an invitation has
retired the previous ones, unless another did the same meanwhile; it gives `OneOfEachIsOpen`.
`RegistrationImplementsLife` is the refinement `RegistrationSpec => LifeHolds`; the mapping
reads the state of the account of a contact, the stage of a referral and who took it, and
activation of account and referral is one abstract step because it is one transaction.
`ReferralsAreEarnedOnce` follows from it in the same way, with `Deserved` for `EarnedByOne`.

**PrivacyProofs.** `WorkInv` holds the types, what a request at each step has locked, one row
per type and key, and one request per row. It gives `PrivacyTypeCorrect` and
`RequestsHaveOneWorker`. `ErasureInv`: after the anonymization only data collected before it
is personal, and an erasure past its revocation has ended sessions and then tokens, those of
logins that met it excepted (`ErasureIsComplete`). `AnswerInv`: whoever still works at a request that had its effect has
not heard of it (`RequestsTellTheTruth`). `AuditInv` is for the history: what was listed is there
and listed once, nothing listed is older than the cursor, and a row of the first moment is
listed or older than the cursor; the order by time and identifier is total, so a page that is cut
off leaves only older rows. It gives `HistoryIsReadOnce`.

Only model-checked:

* `RevocationReachesGateway` and `RequestsSettle`: liveness under fairness is outside the prover.
* That a sorted page exists for every finite set of rows (an induction over the set):
  `HistoryIsReadOnce` is about the pages that are shown, and TLC shows that they are.

## 5. Not modelled

* The JWKS cache of the gateway: planned, see below. The gateway is modelled with the right keys.
* The one-time codes and counters of the recovery handlers: the same store and scripts as in
  `Login` and `Mfa`.
* `get_request`, `download_export`, `list_active_sessions`, `fallback_options` and the other
  queries: they change nothing. Redaction of audit rows is a function of one row.
* Personal workspaces: inserted with the user and never changed.
* Row-level security: `compose.yaml` connects the service as the database's superuser, whom
  policies do not restrict. Connected as `auth_app` it would see fewer rows.
* Audit rows outside `Privacy`: nothing reads them but the search modelled there.
* Signatures, hashing, encryption, token formats, mail: identifiers stand for their values.
* Providers (breach lists, captcha, OIDC, mail), configuration, health, web client: no state
  of their own.
* Deadlocks outside `Privacy`: an abort is `Rollback`, or nothing where the transaction is atomic.

## 6. Plan

1. Proofs: every safety property of the passing runs is a theorem. The conditions that remain
   (`...UnlessRaced`, `MaxFailures = 0`) name what the code does not handle; a count of the excess, as for
   sessions and links, could replace `raced` in `FactorsUnlessRaced` and `OneOpenUnlessRaced`.
2. A composition of recovery and session control: a password reset followed by the
   revocation of every session, with a crash in between (`control/recovery.py:130`).
3. `JwksCache` of the Go verifier: overlapping refreshes and key rotation.
