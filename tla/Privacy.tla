------------------------------- MODULE Privacy -------------------------------
(***************************************************************************)
(* Exports and erasure of one account (GDPRControl and its repository),    *)
(* and the search through the audit history (AuditQueryControl).           *)
(*                                                                         *)
(* Every transaction is a step, or several where another transaction may   *)
(* come in between: then the row locks it holds are part of the state.     *)
(* The account is the one in the claims of the requests; other accounts    *)
(* enter through the ownership of organizations only.  What an export says *)
(* is modelled as what kind of data it was made from.  get_request and     *)
(* download_export only read.                                              *)
(***************************************************************************)
EXTENDS Naturals, Sequences, FiniteSets, FiniteSetsExt, SequencesExt

CONSTANTS
  Clients,
  Keys,         \* idempotency keys
  Workloads,    \* what may happen in one behaviour
  None,
  PageSize,     \* limit
  MaxRequests, MaxLogins, MaxRows, MaxTime   \* bounds: rows of each table, logins, the clock

ASSUME PrivacyAssumption ==
  /\ PageSize \in Nat \ {0} /\ MaxRows \in Nat /\ MaxTime \in Nat
  /\ None \notin Clients \cup Keys \cup {"personal", "anonymous"} \cup [at : Nat, id : Nat]

VARIABLES
  load,      \* the workload of this behaviour; never changes
  erased,    \* the user is anonymized
  sole,      \* the user is the only owner of some organization
  access,    \* what the user holds: a live session, an access token that is not denied
  logins,    \* logins so far
  entering,  \* a login has passed user_is_active
  row,       \* gdpr_requests
  artifact,  \* artifact[r]: what the stored export of a request was made from
  rowLock,   \* rowLock[r]: who has locked the row of a request
  userLock,  \* who has locked the row of the user
  req,       \* the clients' requests
  raced,     \* observer: exports an erasure overtook, and 0 when a login met one
  unheard,   \* observer: requests whose commit was answered by an error
  left       \* observer: requests nobody works on any more

gvars == <<erased, sole, access, logins, entering, row, artifact, rowLock, userLock, req, raced, unheard, left>>

VARIABLES
  now,       \* the clock of the database
  log,       \* the audit_logs that match the filters: the keys by which they are sorted
  reader     \* the security supervisor who pages through them

avars == <<now, log, reader>>
pvars == <<load, gvars, avars>>

RequestRow == [type : {"export", "erasure"}, key : Keys, state : {"processing", "completed", "failed", "cancelled"}]

Idle == [at |-> "idle", type |-> None, key |-> None, id |-> 0, seen |-> None]
NoReader == [at |-> "idle", cursor |-> None, listed |-> <<>>, first |-> {}]

Rows(type) == {r \in DOMAIN row : row[r].type = type}
Of(type, k) == {r \in Rows(type) : row[r].key = k}

\* Every field holds a value its column can hold, and only exports have artifacts.
PrivacyTypeOK ==
  /\ row \in Seq(RequestRow)
  /\ DOMAIN artifact = DOMAIN row /\ DOMAIN rowLock = DOMAIN row
  /\ \A r \in DOMAIN row : /\ artifact[r] \in {None, "personal", "anonymous"}
                           /\ rowLock[r] \in Clients \cup {None}
                           /\ row[r].type = "erasure" => artifact[r] = None
  /\ userLock \in Clients \cup {None}
  /\ \A c \in Clients : req[c].id \in {0} \cup DOMAIN row

-----------------------------------------------------------------------------
Step(c, r) == req' = [req EXCEPT ![c] = r]
Goto(c, label) == Step(c, [req[c] EXCEPT !.at = label])
Done(c) == Step(c, Idle)

Unlocked(c) == [r \in DOMAIN row |-> IF rowLock[r] = c THEN None ELSE rowLock[r]]
LetGo(c) == /\ rowLock' = Unlocked(c)
            /\ userLock' = IF userLock = c THEN None ELSE userLock

\* The request a client worked on, if any, is left as it is.
Leave(c) == left' = left \cup ({req[c].id} \ {0})

PrivacyInit ==
  /\ load \in Workloads
  /\ erased = FALSE /\ access = {"session", "token"} /\ logins = 0 /\ entering = FALSE /\ sole \in load.sole
  /\ row = <<>> /\ artifact = <<>> /\ rowLock = <<>> /\ userLock = None
  /\ req = [c \in Clients |-> Idle]
  /\ raced = {} /\ unheard = {} /\ left = {}
  /\ now = 0 /\ log = {} /\ reader = NoReader

-----------------------------------------------------------------------------
(***************************************************************************)
(* One request per key.                                                    *)
(***************************************************************************)
\* request_export, request_erasure: the claims are checked once, at the start (authenticate:
\* the token is not denied, and its session is active).
Ask(c, type, k) ==
  /\ type \in load.requests /\ access = {"session", "token"} /\ req[c] = Idle
  /\ Step(c, [Idle EXCEPT !.at = "find", !.type = type, !.key = k])
  /\ UNCHANGED <<erased, sole, access, logins, entering, row, artifact, rowLock, userLock, raced, unheard, left>>

\* Mutant: whoever repeats a request works on it once more.
FindAndResume(c) ==
  LET found == Of(req[c].type, req[c].key)
  IN /\ req[c].at = "find"
     /\ IF found = {} THEN Goto(c, "insert")
        ELSE Step(c, [req[c] EXCEPT !.id = CHOOSE r \in found : TRUE,
                                    !.at = IF req[c].type = "export" THEN "collect" ELSE "revoke"])
     /\ UNCHANGED <<erased, sole, access, logins, entering, row, artifact, rowLock, userLock, raced, unheard, left>>

\* get_or_create_export and get_or_create_erasure look for the key; a request that is there
\* already is the answer, whatever became of it ...
FindRequest(c) ==
  /\ req[c].at = "find"
  /\ IF Of(req[c].type, req[c].key) # {} \/ (req[c].type = "erasure" /\ sole)
     THEN Done(c) ELSE Goto(c, "insert")
  /\ UNCHANGED <<erased, sole, access, logins, entering, row, artifact, rowLock, userLock, raced, unheard, left>>

\* ... and the unique constraint has the last word.
KeyIsNew(type, k) == Of(type, k) = {}

\* The foreign key to the user waits for whoever has locked the user.
InsertRequest(c) ==
  LET r == req[c]
  IN /\ r.at = "insert" /\ userLock = None /\ Len(row) < MaxRequests
     /\ IF KeyIsNew(r.type, r.key)
        THEN /\ row' = Append(row, [type |-> r.type, key |-> r.key, state |-> "processing"])
             /\ artifact' = Append(artifact, None)
             /\ rowLock' = Append(rowLock, None)
             /\ Step(c, [r EXCEPT !.id = Len(row) + 1, !.at = IF r.type = "export" THEN "collect" ELSE "revoke"])
        ELSE Done(c) /\ UNCHANGED <<row, artifact, rowLock>>
     /\ UNCHANGED <<erased, sole, access, logins, entering, userLock, raced, unheard, left>>

-----------------------------------------------------------------------------
(***************************************************************************)
(* Building an export.                                                     *)
(***************************************************************************)
\* collect_export_data: no lock, and no question what state the user is in.
CollectExportData(c) ==
  /\ req[c].at = "collect"
  /\ Step(c, [req[c] EXCEPT !.at = "lock", !.seen = IF erased THEN "anonymous" ELSE "personal"])
  /\ UNCHANGED <<erased, sole, access, logins, entering, row, artifact, rowLock, userLock, raced, unheard, left>>

\* complete_export locks the request ...
LockExport(c) ==
  /\ req[c].at = "lock" /\ rowLock[req[c].id] = None
  /\ rowLock' = [rowLock EXCEPT ![req[c].id] = c]
  /\ Goto(c, "store")
  /\ UNCHANGED <<erased, sole, access, logins, entering, row, artifact, userLock, raced, unheard, left>>

\* ... and adds the artifact, whose foreign key waits for a lock on the user.  The state the
\* request is in is not looked at.  The answer to the commit may be lost.
StoreArtifact(c, heard) ==
  LET r == req[c].id
  IN /\ req[c].at = "store" /\ userLock = None
     /\ artifact' = [artifact EXCEPT ![r] = req[c].seen]
     /\ row' = [row EXCEPT ![r].state = "completed"]
     /\ rowLock' = Unlocked(c)
     /\ IF heard THEN Done(c) /\ UNCHANGED unheard
        ELSE Goto(c, "fail") /\ unheard' = unheard \cup {r}
     /\ UNCHANGED <<erased, sole, access, logins, entering, userLock, raced, left>>

\* Mutant: only exports are marked.
FailExportOnly(c) ==
  /\ req[c].at = "fail" /\ rowLock[req[c].id] = None
  /\ row' = [row EXCEPT ![req[c].id].state = IF req[c].type = "export" THEN "failed" ELSE @]
  /\ Done(c)
  /\ UNCHANGED <<erased, sole, access, logins, entering, artifact, rowLock, userLock, raced, unheard, left>>

\* fail_export, for exports and erasures, whatever state the request is in.
FailExport(c) ==
  /\ req[c].at = "fail" /\ rowLock[req[c].id] = None
  /\ row' = [row EXCEPT ![req[c].id].state = "failed"]
  /\ Done(c)
  /\ UNCHANGED <<erased, sole, access, logins, entering, artifact, rowLock, userLock, raced, unheard, left>>

-----------------------------------------------------------------------------
(***************************************************************************)
(* Erasing the account.                                                    *)
(***************************************************************************)
\* revoke_user_access: revoke_all commits ...
RevokeAll(c) ==
  /\ req[c].at = "revoke"
  /\ access' = access \ {"session"}
  /\ Goto(c, "deny")
  /\ UNCHANGED <<erased, sole, logins, entering, row, artifact, rowLock, userLock, raced, unheard, left>>

\* ... and Redis denies what was issued until then: revoke_user comes first and covers every
\* token, the keys of the families after it.  A login in between holds a token of its own,
\* denied or not; another erasure may have deleted its session.
DenyAccess(c) ==
  /\ req[c].at = "deny"
  /\ \/ access' = access \ {"token"}
     \/ ("session" \in access \/ erased) /\ access' = access
  /\ Goto(c, "lock request")
  /\ UNCHANGED <<erased, sole, logins, entering, row, artifact, rowLock, userLock, raced, unheard, left>>

\* execute_erasure locks the request, then the user ...
LockErasure(c) ==
  /\ req[c].at = "lock request" /\ rowLock[req[c].id] = None
  /\ rowLock' = [rowLock EXCEPT ![req[c].id] = c]
  /\ Goto(c, "lock user")
  /\ UNCHANGED <<erased, sole, access, logins, entering, row, artifact, userLock, raced, unheard, left>>

\* ... and looks at the organizations again.  A completed request would be the answer.
LockUser(c) ==
  LET r == req[c].id
  IN /\ req[c].at = "lock user" /\ userLock = None
     /\ IF row[r].state = "completed" \/ sole
        THEN /\ row' = IF row[r].state = "completed" THEN row ELSE [row EXCEPT ![r].state = "failed"]
             /\ LetGo(c) /\ Done(c)
        ELSE userLock' = c /\ Goto(c, "erase") /\ UNCHANGED <<row, rowLock>>
     /\ UNCHANGED <<erased, sole, access, logins, entering, artifact, raced, unheard, left>>

\* Mutant: stored exports are kept.
EraseButExports(c, heard) ==
  LET id == req[c].id
  IN /\ req[c].at = "erase"
     /\ \A r \in Rows("export") : rowLock[r] = None
     /\ row' = [r \in DOMAIN row |-> CASE r = id -> [row[r] EXCEPT !.state = "completed"]
                                       [] row[r].type = "export" -> [row[r] EXCEPT !.state = "cancelled"]
                                       [] OTHER -> row[r]]
     /\ erased' = TRUE /\ sole' = FALSE
     /\ LetGo(c) /\ Done(c)
     /\ access' = access \ {"session"}
     /\ UNCHANGED <<logins, entering, artifact, raced, unheard, left>>

\* Mutant: the request itself stays as it is.
EraseUntold(c, heard) ==
  /\ req[c].at = "erase"
  /\ \A r \in Rows("export") : rowLock[r] = None
  /\ artifact' = [r \in DOMAIN row |-> None]
  /\ erased' = TRUE /\ sole' = FALSE
  /\ LetGo(c) /\ Done(c)
  /\ access' = access \ {"session"}
  /\ UNCHANGED <<logins, entering, row, raced, unheard, left>>

\* Exports whose data was read and is not stored yet.
Overtaken == {req[d].id : d \in {d \in Clients : req[d].type = "export" /\ req[d].at \in {"lock", "store"}}}

\* The rest of execute_erasure: artifacts deleted, every export cancelled (which waits for
\* their locks), families with their sessions, bindings and contacts gone.  Its answer may be lost, too.
EraseAccount(c, heard) ==
  LET id == req[c].id
  IN /\ req[c].at = "erase"
     /\ \A r \in Rows("export") : rowLock[r] = None
     /\ artifact' = [r \in DOMAIN row |-> None]
     /\ row' = [r \in DOMAIN row |-> CASE r = id -> [row[r] EXCEPT !.state = "completed"]
                                       [] row[r].type = "export" -> [row[r] EXCEPT !.state = "cancelled"]
                                       [] OTHER -> row[r]]
     /\ erased' = TRUE /\ sole' = FALSE /\ access' = access \ {"session"}
     /\ raced' = raced \cup Overtaken
     /\ LetGo(c)
     /\ IF heard THEN Done(c) /\ UNCHANGED unheard
        ELSE Goto(c, "fail") /\ unheard' = unheard \cup {id}
     /\ UNCHANGED <<logins, entering, left>>

-----------------------------------------------------------------------------
(***************************************************************************)
(* Failures, and the rest of the system.                                   *)
(***************************************************************************)
\* An export that holds its request waits for the user, and an erasure that holds the user
\* waits for the request: PostgreSQL ends one of the two transactions.
BreakDeadlock(c, d, victim) ==
  /\ req[c].at = "store" /\ userLock = d
  /\ req[d].at = "erase" /\ rowLock[req[c].id] = c
  /\ LetGo(victim) /\ Goto(victim, "fail")
  /\ UNCHANGED <<erased, sole, access, logins, entering, row, artifact, raced, unheard, left>>

\* The database or the cipher refuses inside the try block.
Refused(c) ==
  /\ "refuse" \in load.requests
  /\ req[c].at \in {"collect", "lock", "store", "lock request", "lock user", "erase"}
  /\ LetGo(c) /\ Goto(c, "fail")
  /\ UNCHANGED <<erased, sole, access, logins, entering, row, artifact, raced, unheard, left>>

\* The database or Redis refuses where nobody catches the error: in revoke_user_access, and in
\* the fail_export of an except block.
GivenUp(c) ==
  /\ "refuse" \in load.requests
  /\ req[c].at \in {"revoke", "deny", "fail"}
  /\ Leave(c) /\ Done(c)
  /\ UNCHANGED <<erased, sole, access, logins, entering, row, artifact, rowLock, userLock, raced, unheard>>

\* The process is gone, and its open transaction with it.
Stop(c) ==
  /\ "stop" \in load.requests /\ req[c].at # "idle"
  /\ LetGo(c) /\ Leave(c) /\ Done(c)
  /\ UNCHANGED <<erased, sole, access, logins, entering, row, artifact, raced, unheard>>

\* create_session: user_is_active is asked in a transaction of its own ...
LogIn ==
  /\ "login" \in load.requests /\ logins < MaxLogins /\ ~entering /\ ~erased
  /\ logins' = logins + 1
  /\ entering' = TRUE
  /\ UNCHANGED <<erased, sole, access, row, artifact, rowLock, userLock, req, raced, unheard, left>>

\* ... before the session is inserted; raced when an erasure is past its revocation.
OpenSession ==
  /\ entering /\ userLock = None
  /\ entering' = FALSE
  /\ access' = {"session", "token"}
  /\ raced' = IF erased \/ \E c \in Clients : req[c].at \in {"deny", "lock request", "lock user"}
              THEN raced \cup {0} ELSE raced
  /\ UNCHANGED <<erased, sole, logins, row, artifact, rowLock, userLock, req, unheard, left>>

\* Another owner leaves or is added (Membership).
OwnersChange ==
  /\ "owners" \in load.requests /\ ~erased
  /\ sole' = ~sole
  /\ UNCHANGED <<erased, access, logins, entering, row, artifact, rowLock, userLock, req, raced, unheard, left>>

-----------------------------------------------------------------------------
(***************************************************************************)
(* The audit history, newest first.                                        *)
(***************************************************************************)
\* audit_id is random: rows of one moment are sorted by chance.
Key == [at : 0..MaxTime, id : 1..MaxRows]

Before(x, y) == x.at < y.at \/ (x.at = y.at /\ x.id < y.id)

\* Mutant: the cursor is a time only, and the other rows of its moment count as listed.
BelowTime(cursor) == {x \in log : cursor = None \/ x.at < cursor.at}

\* The rows a cursor leaves to be listed.
Below(cursor) == {x \in log : cursor = None \/ Before(x, cursor)}

Tick ==
  /\ "audit" \in load.requests /\ now < MaxTime
  /\ now' = now + 1
  /\ UNCHANGED <<log, reader>>

\* A transaction that began at some time up to now commits a row with that time.
NewRow(at) == {k \in Key : k.at = at /\ \A x \in log : x.id # k.id}

RecordEvent(at) ==
  /\ "audit" \in load.requests
  /\ \E k \in NewRow(at) : log' = log \cup {k}
  /\ UNCHANGED <<now, reader>>

\* search: the role is asked for first, in a transaction of its own ...
AskAudit(allowed) ==
  /\ "audit" \in load.requests /\ reader.at = "idle"
  /\ reader' = IF allowed THEN [reader EXCEPT !.at = "search"] ELSE NoReader
  /\ UNCHANGED <<now, log>>

PageAfter(cursor) ==
  {x \in Below(cursor) : Cardinality({y \in Below(cursor) : Before(x, y)}) < PageSize}

\* ORDER BY occurred_at DESC, audit_id DESC: the rows of a page, the latest first.
Listings(page) ==
  {s \in Bijection(1..Cardinality(page), page) : \A i, j \in DOMAIN s : i < j => Before(s[j], s[i])}

\* ... then search_audit_logs reads one row more than it shows, to know whether to go on, and
\* adds a row of its own.
SearchAuditLogs ==
  LET page == PageAfter(reader.cursor)
      more == page # Below(reader.cursor)
  IN /\ reader.at = "search"
     /\ \E k \in NewRow(now) : log' = log \cup {k}
     /\ \E sorted \in Listings(page) :
          reader' = [at |-> IF more THEN "idle" ELSE "end",
                     cursor |-> IF more THEN Last(sorted) ELSE None,
                     listed |-> reader.listed \o sorted,
                     first |-> IF reader.cursor = None THEN log ELSE reader.first]
     /\ UNCHANGED now

StartOver ==
  /\ reader.at = "end"
  /\ reader' = NoReader
  /\ UNCHANGED <<now, log>>

-----------------------------------------------------------------------------
Work(c) ==
  \/ FindRequest(c) \/ InsertRequest(c)
  \/ CollectExportData(c) \/ LockExport(c) \/ FailExport(c)
  \/ RevokeAll(c) \/ DenyAccess(c) \/ LockErasure(c) \/ LockUser(c)
  \/ \E b \in BOOLEAN : StoreArtifact(c, b) \/ EraseAccount(c, b)
  \/ \E d \in Clients \ {c} : \E victim \in {c, d} : BreakDeadlock(c, d, victim)

GdprNext ==
  \/ \E c \in Clients : \/ \E type \in {"export", "erasure"}, k \in Keys : Ask(c, type, k)
                        \/ Work(c) \/ Refused(c) \/ GivenUp(c) \/ Stop(c)
  \/ LogIn \/ OpenSession \/ OwnersChange

AuditNext ==
  \/ Tick \/ SearchAuditLogs \/ StartOver
  \/ \E at \in 0..now : RecordEvent(at)
  \/ \E allowed \in BOOLEAN : AskAudit(allowed)

PrivacyNext ==
  /\ UNCHANGED load
  /\ \/ GdprNext /\ UNCHANGED avars
     \/ AuditNext /\ UNCHANGED gvars

\* A process that is not stopped goes on, and so does the deadlock detector.
PrivacySpec ==
  /\ PrivacyInit /\ [][PrivacyNext]_pvars
  /\ \A c \in Clients : WF_pvars(Work(c) /\ UNCHANGED <<load, avars>>)

-----------------------------------------------------------------------------
(***************************************************************************)
(* Properties.                                                             *)
(***************************************************************************)
\* A key has one request of a type, and one process works on it: a repeated key, at once or
\* later, never builds an export or runs an erasure a second time.
OneWorker ==
  /\ \A type \in {"export", "erasure"}, k \in Keys : Cardinality(Of(type, k)) <= 1
  /\ \A c, d \in Clients : req[c].id # 0 /\ req[c].id = req[d].id => c = d

\* An erased account leaves no stored export of its data, unless the export was collected
\* before the erasure and is stored after it; and no session and no access token is good for
\* it, unless a login met the erasure.
ErasedUnlessRaced ==
  erased => /\ \A r \in DOMAIN row : artifact[r] = "personal" => r \in raced
            /\ access # {} => 0 \in raced

\* What a request says is what happened: an erasure is completed when the account is erased,
\* and a failed export has stored nothing, unless the answer to the commit was lost.
AnswersAreTrue ==
  /\ (\E r \in Rows("erasure") : row[r].state = "completed") => erased
  /\ erased => \E r \in Rows("erasure") : row[r].state = "completed" \/ r \in unheard
  /\ \A r \in Rows("export") : row[r].state = "failed" /\ artifact[r] # None => r \in unheard

\* Every request comes to an end, deadlocks and refused transactions included, unless its
\* process is gone, or revoke_user_access or fail_export itself failed: nobody picks it up then.
RequestsSettle ==
  \A r \in 1..MaxRequests :
    (r \in DOMAIN row /\ row[r].state = "processing")
      ~> (r \in left \/ (r \in DOMAIN row /\ row[r].state # "processing"))

\* Paging to the end shows every row that was there at the first page, and no row twice,
\* however many rows of any age are added meanwhile.
PagesMeetOnce ==
  /\ IsInjective(reader.listed)
  /\ reader.at = "end" => reader.first \subseteq Range(reader.listed)

=============================================================================
