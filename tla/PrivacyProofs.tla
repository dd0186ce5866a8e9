---------------------------- MODULE PrivacyProofs ----------------------------
(***************************************************************************)
(* Exports and erasure of one account, for any number of clients, keys and *)
(* requests.  Every request works on a row of its own, which it has locked *)
(* from the moment it changes it (WorkInv); on that rest what is stored    *)
(* after an erasure (ErasureInv) and what the requests say (AnswerInv).    *)
(***************************************************************************)
EXTENDS Privacy, FiniteSetTheorems, TLAPS

\* The steps of a request, and those in which it has a row of its own or a lock.
AtExport == {"collect", "lock", "store"}
AtErasure == {"revoke", "deny", "lock request", "lock user", "erase"}
Working == AtExport \cup AtErasure \cup {"fail"}
Holding == {"store", "lock user", "erase"}

\* The steps of an erasure that is past revoke_user_access.
Past == {"lock request", "lock user", "erase"}

Contents == {None, "personal", "anonymous"}

RequestState ==
  [at : Working \cup {"idle", "find", "insert"}, type : {"export", "erasure", None},
   key : Keys \cup {None}, id : Nat, seen : Contents]

Tables ==
  /\ row \in Seq(RequestRow)
  /\ artifact \in Seq(Contents) /\ Len(artifact) = Len(row)
  /\ rowLock \in Seq(Clients \cup {None}) /\ Len(rowLock) = Len(row)
  /\ \A r \in DOMAIN row : row[r].type = "erasure" => artifact[r] = None
  /\ userLock \in Clients \cup {None}
  /\ req \in [Clients -> RequestState]

\* What the step a request is at says about its row and its locks.
Placed(c) ==
  /\ req[c].at = "idle" => req[c] = Idle
  /\ req[c].at # "idle" => req[c].type \in {"export", "erasure"} /\ req[c].key \in Keys
  /\ req[c].at \notin Working => req[c].id = 0
  /\ req[c].at \in Working => /\ req[c].id \in DOMAIN row
                              /\ row[req[c].id].type = req[c].type
  /\ req[c].at \in AtExport => req[c].type = "export"
  /\ req[c].at \in AtErasure => req[c].type = "erasure"
  /\ req[c].at \in Holding => rowLock[req[c].id] = c
  /\ req[c].at \in {"lock", "store"} => req[c].seen \in {"personal", "anonymous"}
  /\ req[c].at = "erase" => userLock = c

\* A lock is held by the request that works on the row.
Holds(c) ==
  /\ \A r \in DOMAIN row : rowLock[r] = c => req[c].id = r /\ req[c].at \in Holding
  /\ userLock = c => req[c].at = "erase"

\* One row for a type and a key, and one request that works on it.
OneRow == \A r, s \in DOMAIN row : row[r].type = row[s].type /\ row[r].key = row[s].key => r = s
OneRequest == \A c, d \in Clients : req[c].id # 0 /\ req[c].id = req[d].id => c = d

WorkInv == Tables /\ (\A c \in Clients : Placed(c) /\ Holds(c)) /\ OneRow /\ OneRequest

\* After the erasure the only personal data that is stored, or is about to be, was read before
\* it; an erasure that is past its revocation has locked everybody out.
ErasureInv ==
  /\ erased => /\ \A r \in DOMAIN row : artifact[r] = "personal" => r \in raced
               /\ \A c \in Clients : req[c].at \in {"lock", "store"} /\ req[c].seen = "personal"
                                       => req[c].id \in raced
  /\ (erased \/ \E c \in Clients : req[c].at \in Past) => access = {} \/ 0 \in raced
  /\ (\E c \in Clients : req[c].at = "deny") => "session" \notin access \/ 0 \in raced
  /\ access \subseteq {"session", "token"}

\* Whoever is still at a request that has had its effect has not heard of it.
AnswerInv ==
  /\ AnswersAreTrue
  /\ \A c \in Clients : req[c].at \in Working =>
       /\ req[c].type = "erasure" /\ row[req[c].id].state = "completed" => req[c].id \in unheard
       /\ artifact[req[c].id] # None => req[c].id \in unheard

-----------------------------------------------------------------------------
\* The tables have one row each for every request.
LEMMA TableDomains ==
  ASSUME Tables
  PROVE  /\ Len(row) \in Nat /\ DOMAIN row = 1..Len(row)
         /\ DOMAIN artifact = DOMAIN row /\ DOMAIN rowLock = DOMAIN row
         /\ \A r \in DOMAIN row : /\ row[r] \in RequestRow /\ artifact[r] \in Contents
                                  /\ rowLock[r] \in Clients \cup {None}
         /\ 0 \notin DOMAIN row
  BY DEF Tables

\* A sequence whose elements are replaced one by one.
LEMMA SameLength ==
  ASSUME NEW S, NEW T, NEW s \in Seq(S), NEW f, f = [k \in DOMAIN s |-> f[k]],
         \A k \in DOMAIN s : f[k] \in T
  PROVE  f \in Seq(T) /\ Len(f) = Len(s) /\ DOMAIN f = DOMAIN s
<1>1. DOMAIN s = 1..Len(s) /\ Len(s) \in Nat
  OBVIOUS
<1>2. f = [k \in 1..Len(s) |-> f[k]] /\ \A k \in 1..Len(s) : f[k] \in T
  BY <1>1
<1>3. f \in Seq(T) /\ Len(f) = Len(s)
  BY <1>1, <1>2
<1>4. QED
  BY <1>1, <1>3

\* A sequence of which one element is replaced.
LEMMA OneEntry ==
  ASSUME NEW S, NEW s \in Seq(S), NEW id \in DOMAIN s, NEW x \in S, NEW f, f = [s EXCEPT ![id] = x]
  PROVE  /\ f \in Seq(S) /\ Len(f) = Len(s) /\ DOMAIN f = DOMAIN s
         /\ f[id] = x /\ \A k \in DOMAIN s : k # id => f[k] = s[k]
<1>1. /\ f = [k \in DOMAIN s |-> f[k]]
      /\ f[id] = x /\ \A k \in DOMAIN s : k # id => f[k] = s[k]
  OBVIOUS
<1>2. \A k \in DOMAIN s : f[k] \in S
  BY <1>1
<1>3. QED
  BY <1>1, <1>2, SameLength

\* A step of one client that takes no row and no lock of another, and that leaves its own
\* request placed.
LEMMA OneMoves ==
  ASSUME WorkInv, NEW c \in Clients, NEW r \in RequestState, req' = [req EXCEPT ![c] = r],
         Tables', OneRow', DOMAIN row \subseteq DOMAIN row',
         \A k \in DOMAIN row : row'[k].type = row[k].type,
         \A k \in DOMAIN row : rowLock[k] \in Clients \ {c} => rowLock'[k] = rowLock[k],
         \A k \in DOMAIN row' : rowLock'[k] \in Clients \ {c} => k \in DOMAIN row /\ rowLock[k] = rowLock'[k],
         userLock \in Clients \ {c} => userLock' = userLock,
         userLock' \in Clients \ {c} => userLock' = userLock,
         Placed(c)', Holds(c)',
         r.id # 0 => \A d \in Clients \ {c} : req[d].id # r.id
  PROVE  WorkInv'
<1>1. \A d \in Clients : req'[d] = IF d = c THEN r ELSE req[d]
  BY DEF WorkInv, Tables
<1>2. ASSUME NEW d \in Clients \ {c} PROVE Placed(d)' /\ Holds(d)'
  <2>1. req'[d] = req[d] /\ Placed(d) /\ Holds(d)
    BY <1>1 DEF WorkInv
  <2>2. req[d].at \in Holding => req[d].id \in DOMAIN row /\ rowLock[req[d].id] = d
    BY <2>1 DEF Placed, Holding, Working, AtExport, AtErasure
  <2>3. Placed(d)'
    BY <2>1, <2>2 DEF Placed
  <2>4. Holds(d)'
    BY <2>1 DEF Holds
  <2>5. QED
    BY <2>3, <2>4
<1>3. OneRequest'
  BY <1>1 DEF WorkInv, OneRequest
<1>4. QED
  BY <1>2, <1>3 DEF WorkInv

\* What a request may have, at every step it can be at.
LEMMA RequestStates ==
  ASSUME NEW q \in RequestState
  PROVE  /\ \A at \in Working \cup {"idle", "find", "insert"} :
              /\ [q EXCEPT !.at = at] \in RequestState
              /\ [q EXCEPT !.at = at].at = at /\ [q EXCEPT !.at = at].id = q.id
              /\ [q EXCEPT !.at = at].type = q.type /\ [q EXCEPT !.at = at].key = q.key
              /\ [q EXCEPT !.at = at].seen = q.seen
         /\ Idle \in RequestState /\ Idle.at = "idle" /\ Idle.id = 0
  BY DEF RequestState, Idle, Contents

\* A row whose state changes, and keeps its type and key.
WithState(q, state) == [q EXCEPT !.state = state]

LEMMA RowStates ==
  /\ \A q \in RequestRow : /\ WithState(q, "completed") \in RequestRow
                           /\ WithState(q, "completed").type = q.type
                           /\ WithState(q, "completed").key = q.key
                           /\ WithState(q, "completed").state = "completed"
  /\ \A q \in RequestRow : /\ WithState(q, "failed") \in RequestRow
                           /\ WithState(q, "failed").type = q.type
                           /\ WithState(q, "failed").key = q.key
                           /\ WithState(q, "failed").state = "failed"
  /\ \A q \in RequestRow : /\ WithState(q, "cancelled") \in RequestRow
                           /\ WithState(q, "cancelled").type = q.type
                           /\ WithState(q, "cancelled").key = q.key
                           /\ WithState(q, "cancelled").state = "cancelled"
  BY DEF RequestRow, WithState

\* A step that changes at most the states of rows: the tables stay well formed, and what the
\* request itself looks like is all there is left to see.
LEMMA StepKeepsWork ==
  ASSUME WorkInv, NEW c \in Clients, NEW r \in RequestState, req' = [req EXCEPT ![c] = r],
         row' \in Seq(RequestRow), Len(row') = Len(row),
         \A k \in DOMAIN row : row'[k].type = row[k].type /\ row'[k].key = row[k].key,
         artifact' \in Seq(Contents), Len(artifact') = Len(row),
         \A k \in DOMAIN row : row[k].type = "erasure" => artifact'[k] = None,
         rowLock' \in Seq(Clients \cup {None}), Len(rowLock') = Len(row),
         \A k \in DOMAIN row : rowLock'[k] = rowLock[k] \/ (rowLock[k] \in {c, None} /\ rowLock'[k] \in {c, None}),
         userLock' = userLock \/ (userLock \in {c, None} /\ userLock' \in {c, None}),
         Placed(c)', Holds(c)',
         r.id # 0 => r.id = req[c].id
  PROVE  WorkInv'
<1>1. DOMAIN row' = DOMAIN row /\ DOMAIN rowLock' = DOMAIN row
  BY TableDomains DEF WorkInv
<1>2. Tables'
  BY <1>1 DEF WorkInv, Tables
<1>3. OneRow'
  BY <1>1 DEF WorkInv, OneRow
<1>4. None \notin Clients
  BY PrivacyAssumption
<1>5. r.id # 0 => \A d \in Clients \ {c} : req[d].id # r.id
  BY DEF WorkInv, OneRequest
<1>6. \A k \in DOMAIN row : rowLock[k] \in Clients \ {c} => rowLock'[k] = rowLock[k]
  BY <1>4
<1>7. \A k \in DOMAIN row' : rowLock'[k] \in Clients \ {c} => k \in DOMAIN row /\ rowLock[k] = rowLock'[k]
  BY <1>1, <1>4
<1>8. /\ userLock \in Clients \ {c} => userLock' = userLock
      /\ userLock' \in Clients \ {c} => userLock' = userLock
  BY <1>4
<1>9. DOMAIN row \subseteq DOMAIN row' /\ \A k \in DOMAIN row : row'[k].type = row[k].type
  BY <1>1
<1>10. QED
  BY <1>2, <1>3, <1>5, <1>6, <1>7, <1>8, <1>9, OneMoves

\* The locks of one client, given back.
LEMMA UnlockedRows ==
  ASSUME Tables, NEW c \in Clients
  PROVE  /\ Unlocked(c) \in Seq(Clients \cup {None}) /\ Len(Unlocked(c)) = Len(row)
         /\ \A k \in DOMAIN row : Unlocked(c)[k] = IF rowLock[k] = c THEN None ELSE rowLock[k]
         /\ \A k \in DOMAIN row : Unlocked(c)[k] # c
         /\ \A k \in DOMAIN row : \/ Unlocked(c)[k] = rowLock[k]
                                  \/ rowLock[k] \in {c, None} /\ Unlocked(c)[k] \in {c, None}
<1>1. \A k \in DOMAIN row : rowLock[k] \in Clients \cup {None}
  BY TableDomains
<1>2. /\ Unlocked(c) = [k \in DOMAIN row |-> Unlocked(c)[k]]
      /\ \A k \in DOMAIN row : Unlocked(c)[k] = IF rowLock[k] = c THEN None ELSE rowLock[k]
  BY DEF Unlocked
<1>3. \A k \in DOMAIN row : Unlocked(c)[k] \in Clients \cup {None}
  BY <1>1, <1>2
<1>4. row \in Seq(RequestRow)
  BY DEF Tables
<1>5. Unlocked(c) \in Seq(Clients \cup {None}) /\ Len(Unlocked(c)) = Len(row)
  BY <1>2, <1>3, <1>4, SameLength
<1>6. None # c
  BY PrivacyAssumption
<1>7. QED
  BY <1>2, <1>5, <1>6

\* The tables, as a step finds them that leaves them alone.
LEMMA TablesKept ==
  ASSUME Tables
  PROVE  /\ row \in Seq(RequestRow)
         /\ artifact \in Seq(Contents) /\ Len(artifact) = Len(row)
         /\ rowLock \in Seq(Clients \cup {None}) /\ Len(rowLock) = Len(row)
         /\ \A k \in DOMAIN row : row[k].type = "erasure" => artifact[k] = None
  BY DEF Tables

\* A request that ends and holds no lock any more.
LEMMA EndKeepsWork ==
  ASSUME WorkInv, NEW c \in Clients, req' = [req EXCEPT ![c] = Idle],
         row' \in Seq(RequestRow), Len(row') = Len(row),
         \A k \in DOMAIN row : row'[k].type = row[k].type /\ row'[k].key = row[k].key,
         artifact' \in Seq(Contents), Len(artifact') = Len(row),
         \A k \in DOMAIN row : row[k].type = "erasure" => artifact'[k] = None,
         \/ rowLock' = Unlocked(c)
         \/ rowLock' = rowLock /\ \A k \in DOMAIN row : rowLock[k] # c,
         \/ userLock' = IF userLock = c THEN None ELSE userLock
         \/ userLock' = userLock /\ userLock # c
  PROVE  WorkInv'
<1>1. Idle \in RequestState /\ Idle.at = "idle" /\ Idle.id = 0 /\ req'[c] = Idle
  BY RequestStates DEF WorkInv, Tables, RequestState, Idle, Contents
<1>2. DOMAIN row' = DOMAIN row
  BY TableDomains DEF WorkInv
<1>3. Placed(c)'
  BY <1>1 DEF Placed, Working, AtExport, AtErasure, Holding
<1>4. /\ rowLock' \in Seq(Clients \cup {None}) /\ Len(rowLock') = Len(row)
      /\ \A k \in DOMAIN row : rowLock'[k] # c
      /\ \A k \in DOMAIN row : rowLock'[k] = rowLock[k] \/ (rowLock[k] \in {c, None} /\ rowLock'[k] \in {c, None})
  BY UnlockedRows, TablesKept DEF WorkInv
<1>5. userLock' # c /\ (userLock' = userLock \/ (userLock \in {c, None} /\ userLock' \in {c, None}))
  BY PrivacyAssumption
<1>6. Holds(c)'
  BY <1>2, <1>4, <1>5 DEF Holds
<1>7. QED
  BY <1>1, <1>3, <1>4, <1>5, <1>6, StepKeepsWork
\* A request that goes on to a step at which it holds no lock.
LEMMA GoesOnKeepsWork ==
  ASSUME WorkInv, NEW c \in Clients, NEW r \in RequestState, req' = [req EXCEPT ![c] = r],
         row' \in Seq(RequestRow), Len(row') = Len(row),
         \A k \in DOMAIN row : row'[k].type = row[k].type /\ row'[k].key = row[k].key,
         artifact' \in Seq(Contents), Len(artifact') = Len(row),
         \A k \in DOMAIN row : row[k].type = "erasure" => artifact'[k] = None,
         \/ rowLock' = Unlocked(c)
         \/ rowLock' = rowLock /\ \A k \in DOMAIN row : rowLock[k] # c,
         \/ userLock' = IF userLock = c THEN None ELSE userLock
         \/ userLock' = userLock /\ userLock # c,
         r.at \notin Holding \cup {"idle"}, r.type \in {"export", "erasure"}, r.key \in Keys,
         r.at \notin Working => r.id = 0,
         r.at \in Working => r.id = req[c].id /\ r.id \in DOMAIN row /\ row[r.id].type = r.type,
         r.at \in AtExport => r.type = "export",
         r.at \in AtErasure => r.type = "erasure",
         r.at = "lock" => r.seen \in {"personal", "anonymous"}
  PROVE  WorkInv'
<1>1. req'[c] = r
  BY DEF WorkInv, Tables
<1>2. DOMAIN row' = DOMAIN row
  BY TableDomains DEF WorkInv
<1>3. Placed(c)'
  BY <1>1, <1>2 DEF Placed, Holding
<1>4. /\ rowLock' \in Seq(Clients \cup {None}) /\ Len(rowLock') = Len(row)
      /\ \A k \in DOMAIN row : rowLock'[k] # c
      /\ \A k \in DOMAIN row : rowLock'[k] = rowLock[k] \/ (rowLock[k] \in {c, None} /\ rowLock'[k] \in {c, None})
  BY UnlockedRows, TablesKept DEF WorkInv
<1>5. userLock' # c /\ (userLock' = userLock \/ (userLock \in {c, None} /\ userLock' \in {c, None}))
  BY PrivacyAssumption
<1>6. Holds(c)'
  BY <1>2, <1>4, <1>5 DEF Holds
<1>7. r.id # 0 => r.id = req[c].id
  OBVIOUS
<1>8. QED
  BY <1>3, <1>4, <1>5, <1>6, <1>7, StepKeepsWork

\* Nobody who is at another step holds a lock.
LEMMA HoldsNothing ==
  ASSUME WorkInv, NEW c \in Clients, req[c].at \notin Holding
  PROVE  (\A k \in DOMAIN row : rowLock[k] # c) /\ userLock # c
  BY DEF WorkInv, Holds, Holding

\* What every request is, whatever the step.
LEMMA RequestFacts ==
  ASSUME WorkInv, NEW c \in Clients
  PROVE  req[c] \in RequestState /\ Placed(c) /\ Tables
  BY DEF WorkInv, Tables

\* The table with the state of one request set.
Marked(id, state) == [row EXCEPT ![id].state = state]

\* The rows whose state a step changes.
LEMMA RowChange ==
  ASSUME Tables, NEW id \in DOMAIN row, NEW state, state \in {"completed", "failed", "cancelled"},
         NEW table, table = Marked(id, state)
  PROVE  /\ table \in Seq(RequestRow) /\ Len(table) = Len(row) /\ DOMAIN table = DOMAIN row
         /\ \A k \in DOMAIN row : table[k].type = row[k].type /\ table[k].key = row[k].key
         /\ table[id].state = state
         /\ \A k \in DOMAIN row : k # id => table[k] = row[k]
<1>1. \A k \in DOMAIN row : row[k] \in RequestRow
  BY TableDomains
<1>2. /\ WithState(row[id], state) \in RequestRow
      /\ WithState(row[id], state).type = row[id].type
      /\ WithState(row[id], state).key = row[id].key
      /\ WithState(row[id], state).state = state
  BY <1>1, RowStates
<1>3. /\ table = [k \in DOMAIN row |-> table[k]]
      /\ table[id] = WithState(row[id], state)
      /\ \A k \in DOMAIN row : k # id => table[k] = row[k]
  BY DEF Marked, WithState
<1>4. /\ table[id] \in RequestRow /\ table[id].type = row[id].type /\ table[id].key = row[id].key
      /\ table[id].state = state
  BY <1>1, <1>2, <1>3
<1>5. row \in Seq(RequestRow) /\ \A k \in DOMAIN row : table[k] \in RequestRow
  BY <1>1, <1>3, <1>4 DEF Tables
<1>6. table \in Seq(RequestRow) /\ Len(table) = Len(row) /\ DOMAIN table = DOMAIN row
  BY <1>3, <1>5, SameLength
<1>7. \A k \in DOMAIN row : table[k].type = row[k].type /\ table[k].key = row[k].key
  BY <1>3, <1>4
<1>8. QED
  BY <1>3, <1>4, <1>6, <1>7

\* request_export and request_erasure, up to the row.
LEMMA AskKeepsWork ==
  ASSUME WorkInv, NEW c \in Clients, NEW type \in {"export", "erasure"}, NEW k \in Keys, Ask(c, type, k)
  PROVE  WorkInv'
<1> DEFINE r == [Idle EXCEPT !.at = "find", !.type = type, !.key = k]
<1>1. r \in RequestState /\ r.at = "find" /\ r.id = 0 /\ r.type = type /\ r.key = k
  BY DEF RequestState, Idle, Contents
<1>2. req' = [req EXCEPT ![c] = r] /\ UNCHANGED <<row, artifact, rowLock, userLock>> /\ req[c] = Idle
  BY DEF Ask, Step
<1> HIDE DEF r
<1>3. req[c].at \notin Holding
  BY <1>2 DEF Idle, Holding
<1>4. (\A j \in DOMAIN row : rowLock[j] # c) /\ userLock # c
  BY <1>3, HoldsNothing
<1>5. r.at \notin Working /\ r.at \notin Holding \cup {"idle"}
  BY <1>1 DEF Working, AtExport, AtErasure, Holding
<1>6. r.at \notin AtExport /\ r.at \notin AtErasure /\ r.at # "lock"
  BY <1>1 DEF AtExport, AtErasure
<1>7. QED
  BY <1>1, <1>2, <1>4, <1>5, <1>6, RequestFacts, TablesKept, GoesOnKeepsWork

\* A step that only moves its request on, with no lock before or after.
LEMMA GotoKeepsWork ==
  ASSUME WorkInv, NEW c \in Clients, NEW at \in {"insert", "deny", "lock request", "fail"}, Goto(c, at),
         UNCHANGED <<row, artifact>>,
         \/ rowLock' = Unlocked(c)
         \/ rowLock' = rowLock /\ req[c].at \notin Holding,
         \/ userLock' = IF userLock = c THEN None ELSE userLock
         \/ userLock' = userLock /\ req[c].at \notin Holding,
         req[c].at # "idle",
         at = "insert" => req[c].at \notin Working,
         at # "insert" => req[c].at \in Working,
         at \in {"deny", "lock request"} => req[c].type = "erasure"
  PROVE  WorkInv'
<1> DEFINE r == [req[c] EXCEPT !.at = at]
<1>1. req[c] \in RequestState /\ Placed(c) /\ Tables
  BY RequestFacts
<1>2. at \in Working \cup {"idle", "find", "insert"}
  BY DEF Working, AtErasure
<1>3. /\ r \in RequestState /\ r.at = at /\ r.id = req[c].id /\ r.type = req[c].type /\ r.key = req[c].key
      /\ r.seen = req[c].seen
  BY <1>1, <1>2, RequestStates
<1>4. req' = [req EXCEPT ![c] = r]
  BY DEF Goto, Step
<1> HIDE DEF r
<1>5. req[c].at \notin Holding => (\A k \in DOMAIN row : rowLock[k] # c) /\ userLock # c
  BY HoldsNothing
<1>6. r.at \notin Holding \cup {"idle"} /\ r.at # "lock" /\ r.at \notin AtExport
  BY <1>3 DEF Holding, AtExport
<1>7. r.type \in {"export", "erasure"} /\ r.key \in Keys
  BY <1>1, <1>3 DEF Placed
<1>8. /\ r.at \notin Working => r.id = 0
      /\ r.at \in Working => r.id = req[c].id /\ r.id \in DOMAIN row /\ row[r.id].type = r.type
  BY <1>1, <1>3 DEF Placed, Working, AtExport, AtErasure
<1>9. r.at \in AtErasure => r.type = "erasure"
  BY <1>3 DEF AtErasure
<1>10. QED
  BY <1>1, <1>3, <1>4, <1>5, <1>6, <1>7, <1>8, <1>9, TablesKept, GoesOnKeepsWork

\* get_or_create_export, get_or_create_erasure: the key is looked for.
LEMMA FindRequestKeepsWork ==
  ASSUME WorkInv, NEW c \in Clients, FindRequest(c)
  PROVE  WorkInv'
<1>1. /\ req[c].at = "find" /\ UNCHANGED <<row, artifact, rowLock, userLock>>
      /\ Done(c) \/ Goto(c, "insert")
  BY DEF FindRequest
<1>2. req[c].at \notin Holding /\ req[c].at \notin Working /\ req[c].at # "idle"
  BY <1>1 DEF Holding, Working, AtExport, AtErasure
<1>3. CASE Goto(c, "insert")
  BY <1>1, <1>2, <1>3, GotoKeepsWork
<1>4. CASE Done(c)
  BY <1>1, <1>2, <1>4, HoldsNothing, RequestFacts, TablesKept, EndKeepsWork DEF Done, Step
<1>5. QED
  BY <1>1, <1>3, <1>4
\* The unique constraint lets a row in only for a new key, and gives it to the request alone.
LEMMA InsertRequestKeepsWork ==
  ASSUME WorkInv, NEW c \in Clients, InsertRequest(c)
  PROVE  WorkInv'
<1> DEFINE q == req[c]
           n == Len(row) + 1
           new == [type |-> q.type, key |-> q.key, state |-> "processing"]
           r == [q EXCEPT !.id = n, !.at = IF q.type = "export" THEN "collect" ELSE "revoke"]
<1>1. q \in RequestState /\ Placed(c) /\ Tables /\ q.at = "insert"
  BY RequestFacts DEF InsertRequest
<1>2. q.type \in {"export", "erasure"} /\ q.key \in Keys
  BY <1>1 DEF Placed
<1>3. (\A k \in DOMAIN row : rowLock[k] # c) /\ userLock # c
  BY <1>1, HoldsNothing DEF Holding
<1>4. UNCHANGED userLock
  BY DEF InsertRequest
<1>5. CASE ~KeyIsNew(q.type, q.key)
  <2>1. Done(c) /\ UNCHANGED <<row, artifact, rowLock>>
    BY <1>5 DEF InsertRequest
  <2>2. QED
    BY <1>1, <1>3, <1>4, <2>1, TablesKept, EndKeepsWork DEF Done, Step
<1>6. CASE KeyIsNew(q.type, q.key)
  <2>1. /\ row' = Append(row, new) /\ artifact' = Append(artifact, None)
        /\ rowLock' = Append(rowLock, None) /\ req' = [req EXCEPT ![c] = r]
    BY <1>6 DEF InsertRequest, Step
  <2>2. Len(row) \in Nat /\ n \in Nat /\ n # 0
    BY <1>1, TableDomains
  <2>3. new \in RequestRow /\ new.type = q.type /\ new.key = q.key
    BY <1>2 DEF RequestRow
  <2>4. /\ r \in RequestState /\ r.id = n /\ r.type = q.type /\ r.key = q.key
        /\ r.at = IF q.type = "export" THEN "collect" ELSE "revoke"
    BY <1>1, <2>2 DEF RequestState, Working, AtExport, AtErasure
  <2> HIDE DEF new, r, q
  <2>5. /\ row \in Seq(RequestRow) /\ artifact \in Seq(Contents) /\ rowLock \in Seq(Clients \cup {None})
        /\ None \in Contents /\ Len(artifact) = Len(row) /\ Len(rowLock) = Len(row)
    BY <1>1 DEF Tables, Contents
  <2>6. /\ row' \in Seq(RequestRow) /\ Len(row') = n /\ DOMAIN row' = DOMAIN row \cup {n}
        /\ n \notin DOMAIN row /\ row'[n] = new /\ \A k \in DOMAIN row : row'[k] = row[k]
    BY <2>1, <2>3, <2>5
  <2>7. /\ artifact' \in Seq(Contents) /\ Len(artifact') = n /\ artifact'[n] = None
        /\ \A k \in DOMAIN row : artifact'[k] = artifact[k]
    BY <1>1, <2>1, <2>5, TableDomains
  <2>8. /\ rowLock' \in Seq(Clients \cup {None}) /\ Len(rowLock') = n /\ rowLock'[n] = None
        /\ \A k \in DOMAIN row : rowLock'[k] = rowLock[k]
    BY <1>1, <2>1, <2>5, TableDomains
  <2> HIDE DEF n
  <2>9. Tables'
    <3>1. \A k \in DOMAIN row' : row'[k].type = "erasure" => artifact'[k] = None
      BY <1>1, <2>6, <2>7 DEF Tables
    <3>2. req' \in [Clients -> RequestState] /\ userLock' \in Clients \cup {None}
      BY <1>1, <1>4, <2>1, <2>4 DEF Tables
    <3>3. QED
      BY <2>6, <2>7, <2>8, <3>1, <3>2 DEF Tables
  <2>10. OneRow'
    <3>1. \A k \in DOMAIN row : ~(row[k].type = new.type /\ row[k].key = new.key)
      BY <1>6, <2>3 DEF KeyIsNew, Of, Rows
    <3>2. QED
      BY <2>6, <3>1 DEF WorkInv, OneRow
  <2>11. req'[c] = r
    BY <1>1, <2>1 DEF Tables
  <2>12. Placed(c)'
    BY <1>2, <2>3, <2>4, <2>6, <2>11 DEF Placed, Working, AtExport, AtErasure, Holding
  <2>13. None # c
    BY PrivacyAssumption
  <2>14. Holds(c)'
    BY <1>3, <1>4, <2>6, <2>8, <2>13 DEF Holds
  <2>15. \A d \in Clients \ {c} : req[d].id # r.id
    <3>1. ASSUME NEW d \in Clients PROVE req[d].id = 0 \/ req[d].id \in DOMAIN row
      BY DEF WorkInv, Placed
    <3>2. QED
      BY <2>2, <2>4, <2>6, <3>1
  <2>16. DOMAIN row \subseteq DOMAIN row' /\ \A k \in DOMAIN row : row'[k].type = row[k].type
    BY <2>6
  <2>17. /\ \A k \in DOMAIN row : rowLock[k] \in Clients \ {c} => rowLock'[k] = rowLock[k]
         /\ \A k \in DOMAIN row' : rowLock'[k] \in Clients \ {c} => k \in DOMAIN row /\ rowLock[k] = rowLock'[k]
    BY <2>6, <2>8, PrivacyAssumption
  <2>18. QED
    BY <1>4, <2>1, <2>4, <2>9, <2>10, <2>12, <2>14, <2>15, <2>16, <2>17, OneMoves
<1>7. QED
  BY <1>5, <1>6

\* collect_export_data.
LEMMA CollectKeepsWork ==
  ASSUME WorkInv, NEW c \in Clients, CollectExportData(c)
  PROVE  WorkInv'
<1> DEFINE what == IF erased THEN "anonymous" ELSE "personal"
           r == [req[c] EXCEPT !.at = "lock", !.seen = what]
<1>1. req[c] \in RequestState /\ Placed(c) /\ Tables /\ req[c].at = "collect"
  BY RequestFacts DEF CollectExportData
<1>2. what \in {"personal", "anonymous"}
  OBVIOUS
<1>3. req' = [req EXCEPT ![c] = r] /\ UNCHANGED <<row, artifact, rowLock, userLock>>
  BY DEF CollectExportData, Step
<1> HIDE DEF what
<1>4. /\ r \in RequestState /\ r.at = "lock" /\ r.id = req[c].id /\ r.type = req[c].type
      /\ r.key = req[c].key /\ r.seen = what
  BY <1>1, <1>2 DEF RequestState, Contents, Working, AtExport
<1> HIDE DEF r
<1>5. (\A k \in DOMAIN row : rowLock[k] # c) /\ userLock # c
  BY <1>1, HoldsNothing DEF Holding
<1>6. /\ r.at \notin Holding \cup {"idle"} /\ r.at \notin AtErasure
      /\ r.at \in Working /\ r.at \in AtExport /\ r.type = "export" /\ r.key \in Keys
      /\ r.id \in DOMAIN row /\ row[r.id].type = r.type
  BY <1>1, <1>4 DEF Placed, Holding, Working, AtExport, AtErasure
<1>7. QED
  BY <1>1, <1>2, <1>3, <1>4, <1>5, <1>6, TablesKept, GoesOnKeepsWork

\* complete_export and execute_erasure lock the row of their request.
LEMMA LockRowKeepsWork ==
  ASSUME WorkInv, NEW c \in Clients, LockExport(c) \/ LockErasure(c)
  PROVE  WorkInv'
<1> DEFINE id == req[c].id
           at == IF req[c].at = "lock" THEN "store" ELSE "lock user"
           r == [req[c] EXCEPT !.at = at]
<1>1. req[c] \in RequestState /\ Placed(c) /\ Tables /\ req[c].at \in {"lock", "lock request"}
  BY RequestFacts DEF LockExport, LockErasure
<1>2. /\ rowLock[id] = None /\ rowLock' = [rowLock EXCEPT ![id] = c]
      /\ req' = [req EXCEPT ![c] = r] /\ UNCHANGED <<row, artifact, userLock>>
  BY DEF LockExport, LockErasure, Goto, Step
<1>3. at \in Working \cup {"idle", "find", "insert"} /\ at \in Holding /\ at # "erase"
  BY DEF Working, AtExport, AtErasure, Holding
<1>4. /\ r \in RequestState /\ r.at = at /\ r.id = id /\ r.type = req[c].type /\ r.key = req[c].key
      /\ r.seen = req[c].seen
  BY <1>1, <1>3, RequestStates
<1> HIDE DEF r
<1>5. id \in DOMAIN row /\ row[id].type = req[c].type /\ req[c].at # "idle"
  BY <1>1 DEF Placed, Working, AtExport, AtErasure
<1>6. /\ rowLock' \in Seq(Clients \cup {None}) /\ Len(rowLock') = Len(row)
      /\ rowLock'[id] = c /\ \A k \in DOMAIN row : k # id => rowLock'[k] = rowLock[k]
  <2>1. rowLock \in Seq(Clients \cup {None}) /\ Len(rowLock) = Len(row)
    BY <1>1 DEF Tables
  <2>2. id \in DOMAIN rowLock /\ DOMAIN rowLock = DOMAIN row /\ c \in Clients \cup {None}
    BY <1>1, <1>5, TableDomains
  <2> HIDE DEF id
  <2>3. QED
    BY <1>2, <2>1, <2>2, OneEntry
<1>7. req'[c] = r
  BY <1>1, <1>2 DEF Tables
<1>8. (\A k \in DOMAIN row : rowLock[k] # c) /\ userLock # c
  BY <1>1, HoldsNothing DEF Holding
<1>9. Placed(c)'
  BY <1>1, <1>2, <1>4, <1>5, <1>6, <1>7 DEF Placed, Working, AtExport, AtErasure, Holding
<1>10. Holds(c)'
  BY <1>2, <1>3, <1>4, <1>6, <1>7, <1>8 DEF Holds
<1>11. \A k \in DOMAIN row : rowLock'[k] = rowLock[k] \/ (rowLock[k] \in {c, None} /\ rowLock'[k] \in {c, None})
  BY <1>2, <1>6
<1>12. QED
  BY <1>1, <1>2, <1>4, <1>6, <1>9, <1>10, <1>11, TablesKept, StepKeepsWork
\* complete_export stores what was collected.
LEMMA StoreKeepsWork ==
  ASSUME WorkInv, NEW c \in Clients, NEW heard \in BOOLEAN, StoreArtifact(c, heard)
  PROVE  WorkInv'
<1> DEFINE id == req[c].id
           r == [req[c] EXCEPT !.at = "fail"]
<1>1. req[c] \in RequestState /\ Placed(c) /\ Tables /\ req[c].at = "store"
  BY RequestFacts DEF StoreArtifact
<1>2. /\ userLock = None /\ UNCHANGED userLock /\ rowLock' = Unlocked(c)
      /\ artifact' = [artifact EXCEPT ![id] = req[c].seen]
      /\ row' = Marked(id, "completed")
      /\ req' = [req EXCEPT ![c] = Idle] \/ req' = [req EXCEPT ![c] = r]
  BY DEF StoreArtifact, Marked, Done, Goto, Step
<1>3. /\ id \in DOMAIN row /\ row[id].type = "export" /\ req[c].type = "export"
      /\ req[c].key \in Keys /\ req[c].seen \in Contents
  BY <1>1 DEF Placed, Working, AtExport, Contents
<1>4. /\ r \in RequestState /\ r.at = "fail" /\ r.id = id /\ r.type = "export" /\ r.key = req[c].key
  BY <1>1, <1>3, RequestStates DEF Working
<1> HIDE DEF r, id
<1>5. /\ row' \in Seq(RequestRow) /\ Len(row') = Len(row)
      /\ \A k \in DOMAIN row : row'[k].type = row[k].type /\ row'[k].key = row[k].key
  BY <1>1, <1>2, <1>3, RowChange
<1>6. /\ artifact' \in Seq(Contents) /\ Len(artifact') = Len(row)
      /\ \A k \in DOMAIN row : k # id => artifact'[k] = artifact[k]
  <2>1. artifact \in Seq(Contents) /\ Len(artifact) = Len(row)
    BY <1>1 DEF Tables
  <2>2. id \in DOMAIN artifact /\ DOMAIN artifact = DOMAIN row
    BY <1>1, <1>3, TableDomains
  <2>3. QED
    BY <1>2, <1>3, <2>1, <2>2, OneEntry
<1>7. \A k \in DOMAIN row : row[k].type = "erasure" => artifact'[k] = None
  BY <1>1, <1>3, <1>6 DEF Tables
<1>8. userLock # c
  BY <1>2, PrivacyAssumption
<1>9. CASE req' = [req EXCEPT ![c] = Idle]
  BY <1>2, <1>5, <1>6, <1>7, <1>8, <1>9, EndKeepsWork
<1>10. CASE req' = [req EXCEPT ![c] = r]
  <2>1. /\ r.at \notin Holding \cup {"idle"} /\ r.at \in Working /\ r.at \notin AtExport
        /\ r.at \notin AtErasure /\ r.at # "lock"
    BY <1>4 DEF Holding, Working, AtExport, AtErasure
  <2>2. r.id = req[c].id
    BY <1>4 DEF id
  <2>3. /\ r.type \in {"export", "erasure"} /\ r.key \in Keys
        /\ r.at \notin Working => r.id = 0
        /\ r.at \in Working => r.id = req[c].id /\ r.id \in DOMAIN row /\ row[r.id].type = r.type
        /\ r.at \in AtExport => r.type = "export"
        /\ r.at \in AtErasure => r.type = "erasure"
        /\ r.at = "lock" => r.seen \in {"personal", "anonymous"}
    BY <1>3, <1>4, <2>1, <2>2
  <2>4. /\ rowLock' = Unlocked(c)
        /\ userLock' = userLock /\ userLock # c
    BY <1>2, <1>8
  <2>5. QED
    BY <1>4, <1>5, <1>6, <1>7, <1>10, <2>1, <2>3, <2>4, GoesOnKeepsWork
<1>11. QED
  BY <1>2, <1>9, <1>10

\* fail_export.
LEMMA FailKeepsWork ==
  ASSUME WorkInv, NEW c \in Clients, FailExport(c)
  PROVE  WorkInv'
<1> DEFINE id == req[c].id
<1>1. req[c] \in RequestState /\ Placed(c) /\ Tables /\ req[c].at = "fail"
  BY RequestFacts DEF FailExport
<1>2. /\ row' = Marked(id, "failed") /\ req' = [req EXCEPT ![c] = Idle]
      /\ UNCHANGED <<artifact, rowLock, userLock>>
  BY DEF FailExport, Marked, Done, Step
<1>3. id \in DOMAIN row
  BY <1>1 DEF Placed, Working
<1> HIDE DEF id
<1>4. /\ row' \in Seq(RequestRow) /\ Len(row') = Len(row)
      /\ \A k \in DOMAIN row : row'[k].type = row[k].type /\ row'[k].key = row[k].key
  BY <1>1, <1>2, <1>3, RowChange
<1>5. (\A k \in DOMAIN row : rowLock[k] # c) /\ userLock # c
  BY <1>1, HoldsNothing DEF Holding
<1>6. QED
  BY <1>1, <1>2, <1>4, <1>5, TablesKept, EndKeepsWork

\* revoke_user_access.
LEMMA RevokeKeepsWork ==
  ASSUME WorkInv, NEW c \in Clients, RevokeAll(c) \/ DenyAccess(c)
  PROVE  WorkInv'
<1>1. /\ req[c] \in RequestState /\ Placed(c) /\ req[c].at \in {"revoke", "deny"}
      /\ UNCHANGED <<row, artifact, rowLock, userLock>>
      /\ Goto(c, "deny") \/ Goto(c, "lock request")
  BY RequestFacts DEF RevokeAll, DenyAccess
<1>2. req[c].at \notin Holding /\ req[c].at \in Working /\ req[c].at # "idle" /\ req[c].type = "erasure"
  BY <1>1 DEF Placed, Holding, Working, AtErasure
<1>3. QED
  BY <1>1, <1>2, GotoKeepsWork

\* A request that is given up has no transaction open.
LEMMA GivenUpKeepsWork ==
  ASSUME WorkInv, NEW c \in Clients, GivenUp(c)
  PROVE  WorkInv'
<1>1. /\ req[c] \in RequestState /\ Placed(c) /\ Tables /\ req[c].at \in {"revoke", "deny", "fail"}
      /\ UNCHANGED <<row, artifact, rowLock, userLock>> /\ Done(c)
  BY RequestFacts DEF GivenUp
<1>2. req[c].at \notin Holding /\ req[c].at # "idle"
  BY <1>1 DEF Holding
<1>3. QED
  BY <1>1, <1>2, HoldsNothing, TablesKept, EndKeepsWork DEF Done, Step

\* execute_erasure locks the user, or finds that it may not go on.
LEMMA LockUserKeepsWork ==
  ASSUME WorkInv, NEW c \in Clients, LockUser(c)
  PROVE  WorkInv'
<1> DEFINE id == req[c].id
           r == [req[c] EXCEPT !.at = "erase"]
<1>1. req[c] \in RequestState /\ Placed(c) /\ Tables /\ req[c].at = "lock user"
  BY RequestFacts DEF LockUser
<1>2. /\ userLock = None /\ UNCHANGED artifact
      /\ \/ /\ row' = row \/ row' = Marked(id, "failed")
            /\ LetGo(c) /\ req' = [req EXCEPT ![c] = Idle]
         \/ userLock' = c /\ req' = [req EXCEPT ![c] = r] /\ UNCHANGED <<row, rowLock>>
  BY DEF LockUser, Marked, Done, Goto, Step
<1>3. /\ id \in DOMAIN row /\ row[id].type = "erasure" /\ req[c].type = "erasure" /\ rowLock[id] = c
      /\ req[c].key \in Keys
  BY <1>1 DEF Placed, Working, AtErasure, Holding
<1>4. /\ r \in RequestState /\ r.at = "erase" /\ r.id = id /\ r.type = "erasure" /\ r.key = req[c].key
  BY <1>1, <1>3, RequestStates DEF Working, AtErasure
<1>5. CASE userLock' = c /\ req' = [req EXCEPT ![c] = r] /\ UNCHANGED <<row, rowLock>>
  <2>1. req'[c] = r
    BY <1>1, <1>5 DEF Tables
  <2> HIDE DEF r, id
  <2>2. Placed(c)'
    BY <1>3, <1>4, <1>5, <2>1 DEF Placed, Working, AtExport, AtErasure, Holding
  <2>3. Holds(c)'
    <3>1. \A k \in DOMAIN row : rowLock[k] = c => k = id
      BY DEF WorkInv, Holds, id
    <3>2. QED
      BY <1>4, <1>5, <2>1, <3>1 DEF Holds, Holding
  <2>4. r.id = req[c].id
    BY <1>4 DEF id
  <2>5. userLock' = userLock \/ (userLock \in {c, None} /\ userLock' \in {c, None})
    BY <1>2, <1>5
  <2>6. QED
    BY <1>1, <1>2, <1>4, <1>5, <2>2, <2>3, <2>4, <2>5, TablesKept, StepKeepsWork
<1>6. CASE /\ row' = row \/ row' = Marked(id, "failed")
           /\ LetGo(c) /\ req' = [req EXCEPT ![c] = Idle]
  <2>1. /\ row' \in Seq(RequestRow) /\ Len(row') = Len(row)
        /\ \A k \in DOMAIN row : row'[k].type = row[k].type /\ row'[k].key = row[k].key
    <3>1. CASE row' = row
      BY <1>1, <3>1, TablesKept
    <3>2. CASE row' = Marked(id, "failed")
      <4>1. Tables /\ id \in DOMAIN row /\ "failed" \in {"completed", "failed", "cancelled"}
        BY <1>1, <1>3
      <4> HIDE DEF id
      <4>2. QED
        BY <3>2, <4>1, RowChange
    <3>3. QED
      BY <1>6, <3>1, <3>2
  <2>2. QED
    BY <1>1, <1>2, <1>6, <2>1, TablesKept, EndKeepsWork DEF LetGo
<1>7. QED
  BY <1>2, <1>5, <1>6

\* The table once the erasure of a request commits.
Cleared(id) ==
  [r \in DOMAIN row |-> CASE r = id -> [row[r] EXCEPT !.state = "completed"]
                          [] row[r].type = "export" -> [row[r] EXCEPT !.state = "cancelled"]
                          [] OTHER -> row[r]]

\* The rows of an account whose erasure commits.
LEMMA ErasedRows ==
  ASSUME Tables, NEW id \in DOMAIN row, row[id].type = "erasure", NEW table, table = Cleared(id)
  PROVE  /\ table \in Seq(RequestRow) /\ Len(table) = Len(row) /\ DOMAIN table = DOMAIN row
         /\ \A k \in DOMAIN row : table[k].type = row[k].type /\ table[k].key = row[k].key
         /\ table[id].state = "completed"
         /\ \A k \in DOMAIN row : row[k].type = "export" => table[k].state = "cancelled"
         /\ \A k \in DOMAIN row : k # id /\ row[k].type = "erasure" => table[k] = row[k]
<1>1. row \in Seq(RequestRow) /\ \A k \in DOMAIN row : row[k] \in RequestRow
  BY TableDomains DEF Tables
<1>2. \A k \in DOMAIN row : row[k].type \in {"export", "erasure"}
  BY <1>1 DEF RequestRow
<1>3. /\ table[id] = WithState(row[id], "completed")
      /\ \A k \in DOMAIN row : row[k].type = "export" => table[k] = WithState(row[k], "cancelled")
      /\ \A k \in DOMAIN row : k # id /\ row[k].type # "export" => table[k] = row[k]
      /\ table = [k \in DOMAIN row |-> table[k]]
  BY DEF Cleared, WithState
<1>4. \A k \in DOMAIN row : /\ table[k] \in RequestRow
                            /\ table[k].type = row[k].type /\ table[k].key = row[k].key
                            /\ row[k].type = "export" => table[k].state = "cancelled"
  <2> SUFFICES ASSUME NEW k \in DOMAIN row
               PROVE  /\ table[k] \in RequestRow
                      /\ table[k].type = row[k].type /\ table[k].key = row[k].key
                      /\ row[k].type = "export" => table[k].state = "cancelled"
    OBVIOUS
  <2>1. CASE k = id
    BY <1>1, <1>3, <2>1, RowStates
  <2>2. CASE row[k].type = "export"
    BY <1>1, <1>3, <2>2, RowStates
  <2>3. CASE k # id /\ row[k].type # "export"
    BY <1>1, <1>3, <2>3
  <2>4. QED
    BY <2>1, <2>2, <2>3
<1>5. table \in Seq(RequestRow) /\ Len(table) = Len(row) /\ DOMAIN table = DOMAIN row
  <2>1. row \in Seq(RequestRow) /\ table = [k \in DOMAIN row |-> table[k]]
    BY <1>1, <1>3
  <2>2. \A k \in DOMAIN row : table[k] \in RequestRow
    BY <1>4
  <2>3. QED
    BY <2>1, <2>2, SameLength
<1>6. table[id].state = "completed"
  BY <1>1, <1>3, RowStates
<1>7. QED
  BY <1>3, <1>4, <1>5, <1>6

\* No artifact is left.
LEMMA NoArtifacts ==
  ASSUME Tables, NEW f, f = [r \in DOMAIN row |-> None]
  PROVE  f \in Seq(Contents) /\ Len(f) = Len(row) /\ \A k \in DOMAIN row : f[k] = None
<1>1. row \in Seq(RequestRow) /\ None \in Contents
  BY DEF Tables, Contents
<1>2. f = [k \in DOMAIN row |-> f[k]] /\ \A k \in DOMAIN row : f[k] \in Contents
  BY <1>1
<1>3. QED
  BY <1>1, <1>2, SameLength

\* The rest of execute_erasure.
LEMMA EraseKeepsWork ==
  ASSUME WorkInv, NEW c \in Clients, NEW heard \in BOOLEAN, EraseAccount(c, heard)
  PROVE  WorkInv'
<1> DEFINE id == req[c].id
           r == [req[c] EXCEPT !.at = "fail"]
<1>1. req[c] \in RequestState /\ Placed(c) /\ Tables /\ req[c].at = "erase"
  BY RequestFacts DEF EraseAccount
<1>2. /\ artifact' = [k \in DOMAIN row |-> None]
      /\ row' = Cleared(id)
      /\ LetGo(c)
      /\ req' = [req EXCEPT ![c] = Idle] \/ req' = [req EXCEPT ![c] = r]
  BY DEF EraseAccount, Cleared, Done, Goto, Step
<1>3. /\ id \in DOMAIN row /\ row[id].type = "erasure" /\ req[c].type = "erasure" /\ req[c].key \in Keys
  BY <1>1 DEF Placed, Working, AtErasure
<1>4. /\ r \in RequestState /\ r.at = "fail" /\ r.id = id /\ r.type = "erasure" /\ r.key = req[c].key
  BY <1>1, <1>3, RequestStates DEF Working
<1> HIDE DEF r, id
<1>5. /\ row' \in Seq(RequestRow) /\ Len(row') = Len(row)
      /\ \A k \in DOMAIN row : row'[k].type = row[k].type /\ row'[k].key = row[k].key
  BY <1>1, <1>2, <1>3, ErasedRows
<1>6. artifact' \in Seq(Contents) /\ Len(artifact') = Len(row) /\ \A k \in DOMAIN row : artifact'[k] = None
  BY <1>1, <1>2, NoArtifacts
<1>7. rowLock' = Unlocked(c) /\ userLock' = IF userLock = c THEN None ELSE userLock
  BY <1>2 DEF LetGo
<1>8. CASE req' = [req EXCEPT ![c] = Idle]
  BY <1>5, <1>6, <1>7, <1>8, EndKeepsWork
<1>9. CASE req' = [req EXCEPT ![c] = r]
  <2>1. /\ r.at \notin Holding \cup {"idle"} /\ r.at \in Working /\ r.at \notin AtExport
        /\ r.at \notin AtErasure /\ r.at # "lock"
    BY <1>4 DEF Holding, Working, AtExport, AtErasure
  <2>2. r.id = req[c].id
    BY <1>4 DEF id
  <2>3. QED
    BY <1>3, <1>4, <1>5, <1>6, <1>7, <1>9, <2>1, <2>2, GoesOnKeepsWork
<1>10. QED
  BY <1>2, <1>8, <1>9

\* A transaction that is ended, by the detector of deadlocks or otherwise, and a process that
\* is gone.
LEMMA EndedKeepsWork ==
  ASSUME WorkInv, NEW c \in Clients, req[c].at # "idle", LetGo(c), UNCHANGED <<row, artifact>>,
         Done(c) \/ (req[c].at \in Working /\ Goto(c, "fail"))
  PROVE  WorkInv'
<1>1. rowLock' = Unlocked(c) /\ userLock' = IF userLock = c THEN None ELSE userLock
  BY DEF LetGo
<1>2. CASE Done(c)
  BY <1>1, <1>2, RequestFacts, TablesKept, EndKeepsWork DEF Done, Step
<1>3. CASE req[c].at \in Working /\ Goto(c, "fail")
  BY <1>1, <1>3, GotoKeepsWork
<1>4. QED
  BY <1>2, <1>3
\* WorkInv is inductive.
LEMMA WorkInvNext == WorkInv /\ [PrivacyNext]_pvars => WorkInv'
<1> SUFFICES ASSUME WorkInv, [PrivacyNext]_pvars PROVE WorkInv'
  OBVIOUS
<1>1. ASSUME UNCHANGED <<row, artifact, rowLock, userLock, req>> PROVE WorkInv'
  BY <1>1 DEF WorkInv, Tables, Placed, Holds, OneRow, OneRequest
<1>2. ASSUME NEW c \in Clients, NEW d \in Clients \ {c}, NEW victim \in {c, d}, BreakDeadlock(c, d, victim)
      PROVE  WorkInv'
  <2>1. /\ victim \in Clients /\ req[victim].at \in {"store", "erase"} /\ LetGo(victim) /\ Goto(victim, "fail")
        /\ UNCHANGED <<row, artifact>>
    BY <1>2 DEF BreakDeadlock
  <2>2. req[victim].at # "idle" /\ req[victim].at \in Working
    BY <2>1 DEF Working, AtExport, AtErasure
  <2>3. QED
    BY <2>1, <2>2, EndedKeepsWork
<1>3. ASSUME NEW c \in Clients, Work(c) PROVE WorkInv'
  BY <1>2, <1>3, FindRequestKeepsWork, InsertRequestKeepsWork, CollectKeepsWork, LockRowKeepsWork,
     FailKeepsWork, LockUserKeepsWork, StoreKeepsWork, RevokeKeepsWork, EraseKeepsWork DEF Work
<1>4. ASSUME NEW c \in Clients, Refused(c) PROVE WorkInv'
  <2>1. req[c].at # "idle" /\ req[c].at \in Working /\ LetGo(c) /\ Goto(c, "fail") /\ UNCHANGED <<row, artifact>>
    BY <1>4 DEF Refused, Working, AtExport, AtErasure
  <2>2. QED
    BY <2>1, EndedKeepsWork
<1>5. ASSUME NEW c \in Clients, Stop(c) PROVE WorkInv'
  BY <1>5, EndedKeepsWork DEF Stop
<1>6. CASE GdprNext
  BY <1>1, <1>3, <1>4, <1>5, <1>6, AskKeepsWork, GivenUpKeepsWork DEF GdprNext, LogIn, OpenSession, OwnersChange
<1>7. CASE UNCHANGED gvars
  BY <1>1, <1>7 DEF gvars
<1>8. QED
  BY <1>6, <1>7 DEF PrivacyNext, pvars

\* No request is under way at first.
LEMMA WorkInvInit == PrivacyInit => WorkInv
<1> SUFFICES ASSUME PrivacyInit PROVE WorkInv
  OBVIOUS
<1>1. /\ row = << >> /\ artifact = << >> /\ rowLock = << >> /\ userLock = None
      /\ req = [c \in Clients |-> Idle]
  BY DEF PrivacyInit
<1>2. /\ Idle \in RequestState /\ Idle.at = "idle" /\ Idle.id = 0
  BY DEF Idle, RequestState, Contents
<1>3. Tables
  BY <1>1, <1>2 DEF Tables
<1>4. OneRow /\ OneRequest
  BY <1>1, <1>2 DEF OneRow, OneRequest
<1>5. ASSUME NEW c \in Clients PROVE Placed(c) /\ Holds(c)
  <2>1. req[c] = Idle /\ userLock # c
    BY <1>1, PrivacyAssumption
  <2>2. Placed(c)
    BY <1>2, <2>1 DEF Placed, Working, AtExport, AtErasure, Holding
  <2>3. Holds(c)
    BY <1>1, <2>1 DEF Holds
  <2>4. QED
    BY <2>2, <2>3
<1>6. QED
  BY <1>3, <1>4, <1>5 DEF WorkInv

\* The requests and their artifacts, the locks and what the clients have in hand stay well
\* typed, and an erasure never has an artifact.
THEOREM PrivacyTypeCorrect == PrivacySpec => []PrivacyTypeOK
<1>1. WorkInv => PrivacyTypeOK
  <2> SUFFICES ASSUME WorkInv PROVE PrivacyTypeOK
    OBVIOUS
  <2>1. Tables /\ \A c \in Clients : req[c].id \in {0} \cup DOMAIN row
    BY DEF WorkInv, Placed
  <2>2. QED
    BY <2>1, TableDomains DEF PrivacyTypeOK, Tables, Contents
<1>2. QED
  BY <1>1, WorkInvInit, WorkInvNext, PTL DEF PrivacySpec

\* A set of at most one element, counted.
LEMMA AtMostOne ==
  ASSUME NEW S, \A x, y \in S : x = y
  PROVE  Cardinality(S) <= 1
<1>1. CASE S = {}
  <2>1. Cardinality({}) = 0
    BY FS_EmptySet
  <2>2. QED
    BY <1>1, <2>1
<1>2. CASE S # {}
  <2>1. PICK x : x \in S
    BY <1>2
  <2>2. S = {x}
    BY <2>1
  <2>3. Cardinality({x}) = 1
    BY FS_Singleton
  <2>4. QED
    BY <2>2, <2>3
<1>3. QED
  BY <1>1, <1>2

\* get_or_create_export and get_or_create_erasure: a key has one request of a type, and one
\* process works on it, however often it is repeated.
THEOREM RequestsHaveOneWorker == PrivacySpec => []OneWorker
<1>1. WorkInv => OneWorker
  <2> SUFFICES ASSUME WorkInv PROVE OneWorker
    OBVIOUS
  <2>1. ASSUME NEW type \in {"export", "erasure"}, NEW k \in Keys PROVE Cardinality(Of(type, k)) <= 1
    <3>1. \A r, s \in Of(type, k) : r = s
      BY DEF Of, Rows, WorkInv, OneRow
    <3>2. QED
      BY <3>1, AtMostOne
  <2>2. QED
    BY <2>1 DEF WorkInv, OneRequest, OneWorker
<1>2. QED
  BY <1>1, WorkInvInit, WorkInvNext, PTL DEF PrivacySpec
-----------------------------------------------------------------------------
(***************************************************************************)
(* What is left of an erased account.                                      *)
(***************************************************************************)
\* A step of one client that erases nothing and lets nobody in.
LEMMA StepKeepsErasure ==
  ASSUME WorkInv, ErasureInv, NEW c \in Clients, NEW r, req' = [req EXCEPT ![c] = r],
         UNCHANGED <<erased, raced>>, access' \subseteq access,
         \A k \in DOMAIN row' : artifact'[k] = "personal" =>
           \/ k \in DOMAIN row /\ artifact[k] = "personal"
           \/ erased => k \in raced,
         r.at \in {"lock", "store"} /\ r.seen = "personal" =>
           \/ req[c].at \in {"lock", "store"} /\ req[c].seen = "personal" /\ req[c].id = r.id
           \/ ~erased,
         r.at \in Past => req[c].at \in Past \/ access' = {} \/ 0 \in raced,
         r.at = "deny" => "session" \notin access'
  PROVE  ErasureInv'
<1>1. \A d \in Clients : req'[d] = IF d = c THEN r ELSE req[d]
  BY DEF WorkInv, Tables
<1>2. erased' => /\ \A k \in DOMAIN row' : artifact'[k] = "personal" => k \in raced'
                 /\ \A d \in Clients : req'[d].at \in {"lock", "store"} /\ req'[d].seen = "personal"
                                         => req'[d].id \in raced'
  BY <1>1 DEF ErasureInv
<1>3. (erased' \/ \E d \in Clients : req'[d].at \in Past) => access' = {} \/ 0 \in raced'
  <2>1. erased \/ (\E d \in Clients : req[d].at \in Past) => access' = {} \/ 0 \in raced
    BY DEF ErasureInv
  <2>2. QED
    BY <1>1, <2>1
<1>4. (\E d \in Clients : req'[d].at = "deny") => "session" \notin access' \/ 0 \in raced'
  BY <1>1 DEF ErasureInv
<1>5. access' \subseteq {"session", "token"}
  BY DEF ErasureInv
<1>6. QED
  BY <1>2, <1>3, <1>4, <1>5 DEF ErasureInv

\* A step of one client that leaves the rows and what it has collected alone.
LEMMA PlainStepKeepsErasure ==
  ASSUME WorkInv, ErasureInv, NEW c \in Clients, NEW r, req' = [req EXCEPT ![c] = r],
         UNCHANGED <<erased, raced, access, row, artifact>>,
         r.at \in {"lock", "store"} =>
           req[c].at \in {"lock", "store"} /\ req[c].seen = r.seen /\ req[c].id = r.id,
         r.at \in Past => req[c].at \in Past, r.at # "deny"
  PROVE  ErasureInv'
  BY StepKeepsErasure

\* Going on, and being done.
LEMMA MoveFacts ==
  ASSUME WorkInv, NEW c \in Clients,
         NEW at \in {"insert", "store", "deny", "lock request", "lock user", "erase", "fail"}
  PROVE  /\ [req[c] EXCEPT !.at = at].at = at /\ [req[c] EXCEPT !.at = at].id = req[c].id
         /\ [req[c] EXCEPT !.at = at].seen = req[c].seen /\ [req[c] EXCEPT !.at = at].type = req[c].type
         /\ Idle.at = "idle"
  BY RequestFacts DEF RequestState, Idle

\* ErasureInv is inductive: an erasure commits once everybody is locked out, and it knows
\* whom it has overtaken.
LEMMA ErasureInvNext == WorkInv /\ ErasureInv /\ [PrivacyNext]_pvars => ErasureInv'
<1> SUFFICES ASSUME WorkInv, ErasureInv, [PrivacyNext]_pvars PROVE ErasureInv'
  OBVIOUS
<1>1. ASSUME NEW c \in Clients, NEW at \in {"insert", "store", "lock request", "lock user", "erase", "fail"},
             Goto(c, at), UNCHANGED <<erased, raced, access, row, artifact>>,
             at = "store" => req[c].at = "lock", at \in Past => req[c].at \in Past
      PROVE  ErasureInv'
  <2> DEFINE r == [req[c] EXCEPT !.at = at]
  <2>1. r.at = at /\ r.id = req[c].id /\ r.seen = req[c].seen
    <3>1. at \in {"insert", "store", "deny", "lock request", "lock user", "erase", "fail"}
      BY <1>1
    <3>2. QED
      BY <3>1, MoveFacts
  <2>2. req' = [req EXCEPT ![c] = r]
    BY <1>1 DEF Goto, Step
  <2> HIDE DEF r
  <2>3. QED
    BY <1>1, <2>1, <2>2, PlainStepKeepsErasure
<1>2. ASSUME NEW c \in Clients, Done(c), UNCHANGED <<erased, raced>>, access' \subseteq access,
             \A k \in DOMAIN row' : artifact'[k] = "personal" => k \in DOMAIN row /\ artifact[k] = "personal"
      PROVE  ErasureInv'
  <2>1. req' = [req EXCEPT ![c] = Idle] /\ Idle.at = "idle"
    BY <1>2 DEF Done, Step, Idle
  <2>2. QED
    BY <1>2, <2>1, StepKeepsErasure DEF Past
<1>3. ASSUME NEW c \in Clients, NEW type \in {"export", "erasure"}, NEW k \in Keys, Ask(c, type, k)
      PROVE  ErasureInv'
  <2> DEFINE r == [Idle EXCEPT !.at = "find", !.type = type, !.key = k]
  <2>1. r.at = "find" /\ req' = [req EXCEPT ![c] = r]
    BY <1>3 DEF Ask, Step, Idle
  <2> HIDE DEF r
  <2>2. QED
    BY <1>3, <2>1, PlainStepKeepsErasure DEF Ask, Past
<1>4. ASSUME NEW c \in Clients, FindRequest(c) PROVE ErasureInv'
  BY <1>1, <1>2, <1>4 DEF FindRequest, Past
<1>5. ASSUME NEW c \in Clients, InsertRequest(c) PROVE ErasureInv'
  <2>1. CASE KeyIsNew(req[c].type, req[c].key)
    <3> DEFINE r == [req[c] EXCEPT !.id = Len(row) + 1,
                                   !.at = IF req[c].type = "export" THEN "collect" ELSE "revoke"]
    <3>1. r.at \in {"collect", "revoke"}
      BY RequestFacts DEF RequestState
    <3>2. /\ req' = [req EXCEPT ![c] = r] /\ UNCHANGED <<erased, raced, access>>
          /\ row' = Append(row, [type |-> req[c].type, key |-> req[c].key, state |-> "processing"])
          /\ artifact' = Append(artifact, None)
      BY <1>5, <2>1 DEF InsertRequest, Step
    <3> HIDE DEF r
    <3>3. artifact \in Seq(Contents) /\ Len(artifact) = Len(row) /\ Tables /\ None \in Contents
      BY DEF WorkInv, Tables, Contents
    <3>4. Tables' /\ WorkInv'
      BY <1>5, InsertRequestKeepsWork DEF WorkInv
    <3>5. \A k \in DOMAIN artifact' : artifact'[k] = "personal" => k \in DOMAIN artifact /\ artifact[k] = "personal"
      BY <3>2, <3>3, PrivacyAssumption
    <3>6. DOMAIN artifact' = DOMAIN row' /\ DOMAIN artifact = DOMAIN row
      BY <3>3, <3>4, TableDomains DEF Tables
    <3>7. QED
      BY <3>1, <3>2, <3>5, <3>6, StepKeepsErasure DEF Past
  <2>2. CASE ~KeyIsNew(req[c].type, req[c].key)
    BY <1>2, <1>5, <2>2 DEF InsertRequest
  <2>3. QED
    BY <2>1, <2>2
<1>6. ASSUME NEW c \in Clients, CollectExportData(c) PROVE ErasureInv'
  <2> DEFINE r == [req[c] EXCEPT !.at = "lock", !.seen = IF erased THEN "anonymous" ELSE "personal"]
  <2>1. r.at = "lock" /\ (erased => r.seen = "anonymous") /\ req' = [req EXCEPT ![c] = r]
    BY <1>6, RequestFacts DEF CollectExportData, Step, RequestState
  <2> HIDE DEF r
  <2>2. QED
    BY <1>6, <2>1, StepKeepsErasure DEF CollectExportData, Past
<1>7. ASSUME NEW c \in Clients, LockExport(c) \/ LockErasure(c) PROVE ErasureInv'
  BY <1>1, <1>7 DEF LockExport, LockErasure, Past
<1>8. ASSUME NEW c \in Clients, NEW heard \in BOOLEAN, StoreArtifact(c, heard) PROVE ErasureInv'
  <2> DEFINE id == req[c].id
  <2>1. req[c].at = "store" /\ UNCHANGED <<erased, raced, access>> /\ Tables
    BY <1>8 DEF StoreArtifact, WorkInv
  <2>2. PICK r : req' = [req EXCEPT ![c] = r] /\ r.at \in {"idle", "fail"}
    <3>1. [req[c] EXCEPT !.at = "fail"].at = "fail" /\ Idle.at = "idle"
      BY MoveFacts
    <3>2. QED
      BY <1>8, <3>1 DEF StoreArtifact, Done, Goto, Step
  <2>3. id \in DOMAIN row
    BY <2>1 DEF WorkInv, Placed, Working, AtExport
  <2>4. DOMAIN row' = DOMAIN row /\ DOMAIN artifact = DOMAIN row
    BY <1>8, <2>1, TableDomains DEF StoreArtifact
  <2>5. artifact' = [artifact EXCEPT ![id] = req[c].seen]
    BY <1>8 DEF StoreArtifact
  <2>6. ASSUME NEW k \in DOMAIN row', artifact'[k] = "personal"
        PROVE  \/ k \in DOMAIN row /\ artifact[k] = "personal"
               \/ erased => k \in raced
    <3>1. CASE k = id
      BY <2>1, <2>3, <2>4, <2>5, <2>6, <3>1 DEF ErasureInv
    <3>2. CASE k # id
      BY <2>4, <2>5, <2>6, <3>2
    <3>3. QED
      BY <3>1, <3>2
  <2>7. QED
    BY <2>1, <2>2, <2>6, StepKeepsErasure DEF Past
<1>9. ASSUME NEW c \in Clients, FailExport(c) PROVE ErasureInv'
  <2>1. DOMAIN row' = DOMAIN row /\ Done(c) /\ UNCHANGED <<erased, raced, access, artifact>>
    BY <1>9 DEF FailExport
  <2>2. QED
    BY <1>2, <2>1
<1>10. ASSUME NEW c \in Clients, RevokeAll(c) \/ DenyAccess(c) PROVE ErasureInv'
  <2>1. CASE RevokeAll(c)
    <3> DEFINE r == [req[c] EXCEPT !.at = "deny"]
    <3>1. r.at = "deny"
      BY MoveFacts
    <3>2. req' = [req EXCEPT ![c] = r] /\ access' = access \ {"session"} /\ UNCHANGED <<erased, raced, row, artifact>>
      BY <2>1 DEF RevokeAll, Goto, Step
    <3> HIDE DEF r
    <3>3. QED
      BY <3>1, <3>2, StepKeepsErasure DEF Past
  <2>2. CASE DenyAccess(c)
    <3> DEFINE r == [req[c] EXCEPT !.at = "lock request"]
    <3>1. r.at = "lock request"
      BY MoveFacts
    <3>2. /\ req[c].at = "deny" /\ req' = [req EXCEPT ![c] = r] /\ UNCHANGED <<erased, raced, row, artifact>>
          /\ access' = access \ {"token"} \/ (("session" \in access \/ erased) /\ access' = access)
      BY <2>2 DEF DenyAccess, Goto, Step
    <3> HIDE DEF r
    <3>3. /\ access \subseteq {"session", "token"}
          /\ "session" \notin access \/ 0 \in raced
          /\ erased => access = {} \/ 0 \in raced
      BY <3>2 DEF ErasureInv
    <3>4. access' \subseteq access /\ (access' = {} \/ 0 \in raced)
      BY <3>2, <3>3
    <3>5. QED
      BY <3>1, <3>2, <3>4, StepKeepsErasure
  <2>3. QED
    BY <1>10, <2>1, <2>2
<1>11. ASSUME NEW c \in Clients, LockUser(c) PROVE ErasureInv'
  <2>1. CASE Done(c)
    <3>1. DOMAIN row' = DOMAIN row /\ UNCHANGED <<erased, raced, access, artifact>>
      BY <1>11 DEF LockUser
    <3>2. QED
      BY <1>2, <2>1, <3>1
  <2>2. CASE Goto(c, "erase") /\ UNCHANGED row
    BY <1>1, <1>11, <2>2 DEF LockUser, Past
  <2>3. QED
    BY <1>11, <2>1, <2>2 DEF LockUser
<1>12. ASSUME NEW c \in Clients, NEW heard \in BOOLEAN, EraseAccount(c, heard) PROVE ErasureInv'
  <2>1. /\ req[c].at = "erase" /\ erased' = TRUE /\ raced' = raced \cup Overtaken
        /\ access' = access \ {"session"}
        /\ artifact' = [r \in DOMAIN row |-> None] /\ DOMAIN row' = DOMAIN row
    BY <1>12 DEF EraseAccount
  <2>2. PICK r : req' = [req EXCEPT ![c] = r] /\ r.at \in {"idle", "fail"}
    <3>1. [req[c] EXCEPT !.at = "fail"].at = "fail" /\ Idle.at = "idle"
      BY MoveFacts
    <3>2. QED
      BY <1>12, <3>1 DEF EraseAccount, Done, Goto, Step
  <2>3. \A k \in DOMAIN row' : artifact'[k] # "personal"
    BY <2>1, PrivacyAssumption
  <2>4. ASSUME NEW d \in Clients, req'[d].at \in {"lock", "store"} PROVE req'[d].id \in raced'
    <3>1. req'[d] = req[d] /\ req[d].type = "export"
      BY <2>2, <2>4 DEF WorkInv, Tables, Placed, AtExport
    <3>2. QED
      BY <2>1, <2>4, <3>1 DEF Overtaken
  <2>5. access' \subseteq access /\ access \subseteq {"session", "token"} /\ (access' = {} \/ 0 \in raced')
    BY <2>1 DEF ErasureInv, Past
  <2>6. QED
    BY <2>3, <2>4, <2>5 DEF ErasureInv
<1>13. ASSUME NEW c \in Clients, NEW d \in Clients \ {c}, NEW victim \in {c, d}, BreakDeadlock(c, d, victim)
       PROVE  ErasureInv'
  BY <1>1, <1>13 DEF BreakDeadlock, Past
<1>14. ASSUME NEW c \in Clients, Refused(c) \/ GivenUp(c) PROVE ErasureInv'
  BY <1>1, <1>2, <1>14 DEF Refused, GivenUp, Past
<1>15. ASSUME NEW c \in Clients, Stop(c) PROVE ErasureInv'
  BY <1>2, <1>15 DEF Stop
<1>16. CASE OpenSession
  <2>1. \A c \in Clients : req[c].at # "erase"
    BY <1>16, PrivacyAssumption DEF OpenSession, WorkInv, Placed
  <2>2. QED
    BY <1>16, <2>1 DEF OpenSession, ErasureInv, Past
<1>17. CASE UNCHANGED <<erased, access, row, artifact, req, raced>>
  BY <1>17 DEF ErasureInv
<1>18. ASSUME NEW c \in Clients, Work(c) PROVE ErasureInv'
  BY <1>4, <1>5, <1>6, <1>7, <1>8, <1>9, <1>10, <1>11, <1>12, <1>13, <1>18 DEF Work
<1>19. QED
  BY <1>3, <1>14, <1>15, <1>16, <1>17, <1>18
  DEF PrivacyNext, GdprNext, LogIn, OwnersChange, pvars, gvars

\* execute_erasure and complete_export: an erased account leaves no stored export of its data
\* and nobody can use it, unless an export or a login met the erasure.
THEOREM ErasureIsComplete == PrivacySpec => []ErasedUnlessRaced
<1>1. PrivacyInit => ErasureInv
  <2> SUFFICES ASSUME PrivacyInit PROVE ErasureInv
    OBVIOUS
  <2>1. erased = FALSE /\ access = {"session", "token"} /\ \A c \in Clients : req[c].at = "idle"
    BY DEF PrivacyInit, Idle
  <2>2. QED
    BY <2>1 DEF ErasureInv, Past
<1>2. ErasureInv => ErasedUnlessRaced
  BY DEF ErasureInv, ErasedUnlessRaced
<1>3. QED
  BY <1>1, <1>2, WorkInvInit, WorkInvNext, ErasureInvNext, PTL DEF PrivacySpec
-----------------------------------------------------------------------------
(***************************************************************************)
(* What the requests say.                                                  *)
(***************************************************************************)
\* AnswersAreTrue and what the requests still at work know, row by row.
LEMMA AnswerRows ==
  AnswerInv <=>
    /\ \A r \in DOMAIN row : row[r].type = "erasure" /\ row[r].state = "completed" => erased
    /\ erased => \E r \in DOMAIN row : row[r].type = "erasure" /\ (row[r].state = "completed" \/ r \in unheard)
    /\ \A r \in DOMAIN row : row[r].type = "export" /\ row[r].state = "failed" /\ artifact[r] # None => r \in unheard
    /\ \A c \in Clients : req[c].at \in Working =>
         /\ req[c].type = "erasure" /\ row[req[c].id].state = "completed" => req[c].id \in unheard
         /\ artifact[req[c].id] # None => req[c].id \in unheard
  BY DEF AnswerInv, AnswersAreTrue, Rows

\* A step of one client that leaves the tables alone and stays at its request, if at any.
LEMMA StepKeepsAnswers ==
  ASSUME WorkInv, AnswerInv, NEW c \in Clients, NEW r, req' = [req EXCEPT ![c] = r],
         UNCHANGED <<row, artifact, erased, unheard>>,
         r.at \in Working => req[c].at \in Working /\ r.id = req[c].id /\ r.type = req[c].type
  PROVE  AnswerInv'
<1>1. \A d \in Clients : req'[d] = IF d = c THEN r ELSE req[d]
  BY DEF WorkInv, Tables
<1>2. AnswersAreTrue'
  BY DEF AnswerInv, AnswersAreTrue, Rows
<1>3. QED
  BY <1>1, <1>2 DEF AnswerInv

\* No other request becomes completed or gets an artifact.
OnlyAbout(id) ==
  \A k \in DOMAIN row : k # id =>
    /\ row[k].type = "erasure" /\ row'[k].state = "completed" => row[k].state = "completed"
    /\ artifact'[k] # None => artifact[k] # None

\* A step of one client that leaves its request or has not heard of its effect.
LEMMA EffectKeepsAnswers ==
  ASSUME WorkInv, AnswerInv, NEW c \in Clients, NEW r, req' = [req EXCEPT ![c] = r],
         NEW id, id = req[c].id, id \in DOMAIN row,
         AnswersAreTrue', unheard \subseteq unheard',
         r.at \in Working => r.id = id /\ id \in unheard',
         OnlyAbout(id)
  PROVE  AnswerInv'
<1>1. \A d \in Clients : req'[d] = IF d = c THEN r ELSE req[d]
  BY DEF WorkInv, Tables
<1>2. ASSUME NEW d \in Clients \ {c}, req[d].at \in Working
      PROVE  /\ req[d].id \in DOMAIN row /\ req[d].id # id /\ row[req[d].id].type = req[d].type
             /\ req[d].type = "erasure" /\ row[req[d].id].state = "completed" => req[d].id \in unheard
             /\ artifact[req[d].id] # None => req[d].id \in unheard
  <2>1. req[d].id \in DOMAIN row /\ row[req[d].id].type = req[d].type
    BY <1>2 DEF WorkInv, Placed
  <2>2. req[d].id # id
    BY <2>1, TableDomains DEF WorkInv, OneRequest
  <2>3. QED
    BY <1>2, <2>1, <2>2 DEF AnswerInv
<1>3. ASSUME NEW d \in Clients, req'[d].at \in Working
      PROVE  /\ req'[d].type = "erasure" /\ row'[req'[d].id].state = "completed" => req'[d].id \in unheard'
             /\ artifact'[req'[d].id] # None => req'[d].id \in unheard'
  <2>1. CASE d = c
    BY <1>1, <1>3, <2>1
  <2>2. CASE d # c
    BY <1>1, <1>2, <1>3, <2>2 DEF OnlyAbout
  <2>3. QED
    BY <2>1, <2>2
<1>4. QED
  BY <1>3 DEF AnswerInv

\* AnswerInv is inductive.
LEMMA AnswerInvNext == WorkInv /\ AnswerInv /\ [PrivacyNext]_pvars => AnswerInv'
<1> SUFFICES ASSUME WorkInv, AnswerInv, [PrivacyNext]_pvars PROVE AnswerInv'
  OBVIOUS
<1>1. ASSUME NEW c \in Clients, NEW at \in {"insert", "store", "deny", "lock request", "lock user", "erase", "fail"},
             Goto(c, at), UNCHANGED <<row, artifact, erased, unheard>>,
             at = "insert" \/ req[c].at \in Working
      PROVE  AnswerInv'
  <2> DEFINE r == [req[c] EXCEPT !.at = at]
  <2>1. r.at = at /\ r.id = req[c].id /\ r.type = req[c].type
    BY MoveFacts
  <2>2. req' = [req EXCEPT ![c] = r]
    BY <1>1 DEF Goto, Step
  <2> HIDE DEF r
  <2>3. r.at \in Working => req[c].at \in Working
    BY <1>1, <2>1 DEF Working, AtExport, AtErasure
  <2>4. QED
    BY <1>1, <2>1, <2>2, <2>3, StepKeepsAnswers
<1>2. ASSUME NEW c \in Clients, Done(c), UNCHANGED <<row, artifact, erased, unheard>>
      PROVE  AnswerInv'
  <2>1. req' = [req EXCEPT ![c] = Idle] /\ Idle.at = "idle"
    BY <1>2 DEF Done, Step, Idle
  <2>2. Idle.at \notin Working
    BY <2>1 DEF Working, AtExport, AtErasure
  <2>3. QED
    BY <1>2, <2>1, <2>2, StepKeepsAnswers
<1>3. ASSUME NEW c \in Clients, NEW type \in {"export", "erasure"}, NEW k \in Keys, Ask(c, type, k)
      PROVE  AnswerInv'
  <2> DEFINE r == [Idle EXCEPT !.at = "find", !.type = type, !.key = k]
  <2>1. r.at = "find" /\ req' = [req EXCEPT ![c] = r]
    BY <1>3 DEF Ask, Step, Idle
  <2> HIDE DEF r
  <2>2. r.at \notin Working
    BY <2>1 DEF Working, AtExport, AtErasure
  <2>3. QED
    BY <1>3, <2>1, <2>2, StepKeepsAnswers DEF Ask
<1>4. ASSUME NEW c \in Clients, FindRequest(c) PROVE AnswerInv'
  BY <1>1, <1>2, <1>4 DEF FindRequest
<1>5. ASSUME NEW c \in Clients, InsertRequest(c) PROVE AnswerInv'
  <2>1. CASE ~KeyIsNew(req[c].type, req[c].key)
    BY <1>2, <1>5, <2>1 DEF InsertRequest
  <2>2. CASE KeyIsNew(req[c].type, req[c].key)
    <3> DEFINE n == Len(row) + 1
               new == [type |-> req[c].type, key |-> req[c].key, state |-> "processing"]
               r == [req[c] EXCEPT !.id = n,
                                   !.at = IF req[c].type = "export" THEN "collect" ELSE "revoke"]
    <3>1. r.id = n
      BY RequestFacts DEF RequestState
    <3>2. /\ req' = [req EXCEPT ![c] = r] /\ UNCHANGED <<erased, unheard>>
          /\ row' = Append(row, new) /\ artifact' = Append(artifact, None)
      BY <1>5, <2>2 DEF InsertRequest, Step
    <3>3. new.state = "processing" /\ new \in RequestRow
      BY <1>5, RequestFacts DEF InsertRequest, Placed, RequestRow
    <3> HIDE DEF r, new
    <3>4. /\ row \in Seq(RequestRow) /\ artifact \in Seq(Contents) /\ None \in Contents
          /\ Len(artifact) = Len(row) /\ DOMAIN artifact = DOMAIN row
      BY TableDomains DEF WorkInv, Tables, Contents
    <3>5. /\ DOMAIN row' = DOMAIN row \cup {n} /\ n \notin DOMAIN row /\ row'[n] = new
          /\ \A k \in DOMAIN row : row'[k] = row[k]
      BY <3>2, <3>3, <3>4
    <3>6. artifact'[n] = None /\ \A k \in DOMAIN row : artifact'[k] = artifact[k]
      BY <3>2, <3>4
    <3> HIDE DEF n
    <3>7. AnswersAreTrue'
      <4>1. \A k \in DOMAIN row' : row'[k].state # "processing" \/ artifact'[k] # None =>
              k \in DOMAIN row /\ row'[k] = row[k] /\ artifact'[k] = artifact[k]
        BY <3>3, <3>5, <3>6
      <4>2. erased => \E k \in DOMAIN row' : row'[k].type = "erasure" /\ (row'[k].state = "completed" \/ k \in unheard')
        BY <3>2, <3>5, AnswerRows
      <4>3. \A k \in DOMAIN row' : row'[k].type = "erasure" /\ row'[k].state = "completed" => erased'
        BY <3>2, <4>1, AnswerRows
      <4>4. \A k \in DOMAIN row' : row'[k].type = "export" /\ row'[k].state = "failed" /\ artifact'[k] # None
              => k \in unheard'
        BY <3>2, <4>1, AnswerRows
      <4>5. QED
        BY <3>2, <4>2, <4>3, <4>4 DEF AnswersAreTrue, Rows
    <3>8. \A d \in Clients : req'[d] = IF d = c THEN r ELSE req[d]
      BY <3>2 DEF WorkInv, Tables
    <3>9. \A d \in Clients : req[d].at \in Working => req[d].id \in DOMAIN row
      BY DEF WorkInv, Placed
    <3>10. \A d \in Clients : req'[d].at \in Working =>
             /\ req'[d].type = "erasure" /\ row'[req'[d].id].state = "completed" => req'[d].id \in unheard'
             /\ artifact'[req'[d].id] # None => req'[d].id \in unheard'
      <4> SUFFICES ASSUME NEW d \in Clients, req'[d].at \in Working
                   PROVE  /\ req'[d].type = "erasure" /\ row'[req'[d].id].state = "completed" => req'[d].id \in unheard'
                          /\ artifact'[req'[d].id] # None => req'[d].id \in unheard'
        OBVIOUS
      <4>1. CASE d = c
        <5>1. req'[d].id = n /\ row'[n].state = "processing" /\ artifact'[n] = None
          BY <3>1, <3>3, <3>5, <3>6, <3>8, <4>1
        <5>2. QED
          BY <5>1
      <4>2. CASE d # c
        <5>1. req'[d] = req[d] /\ req[d].id \in DOMAIN row
          BY <3>8, <3>9, <4>2
        <5>2. row'[req[d].id] = row[req[d].id] /\ artifact'[req[d].id] = artifact[req[d].id]
          BY <3>5, <3>6, <5>1
        <5>3. unheard' = unheard
          BY <3>2
        <5>4. QED
          BY <5>1, <5>2, <5>3, AnswerRows
      <4>3. QED
        BY <4>1, <4>2
    <3>11. QED
      BY <3>7, <3>10 DEF AnswerInv
  <2>3. QED
    BY <2>1, <2>2
<1>6. ASSUME NEW c \in Clients, CollectExportData(c) PROVE AnswerInv'
  <2> DEFINE r == [req[c] EXCEPT !.at = "lock", !.seen = IF erased THEN "anonymous" ELSE "personal"]
  <2>1. r.id = req[c].id /\ r.type = req[c].type /\ req' = [req EXCEPT ![c] = r]
    BY <1>6, RequestFacts DEF CollectExportData, Step, RequestState
  <2>2. req[c].at \in Working
    BY <1>6 DEF CollectExportData, Working, AtExport
  <2> HIDE DEF r
  <2>3. QED
    BY <1>6, <2>1, <2>2, StepKeepsAnswers DEF CollectExportData
<1>7. ASSUME NEW c \in Clients, LockExport(c) \/ LockErasure(c) PROVE AnswerInv'
  BY <1>1, <1>7 DEF LockExport, LockErasure, Working, AtExport, AtErasure
<1>8. ASSUME NEW c \in Clients, NEW heard \in BOOLEAN, StoreArtifact(c, heard) PROVE AnswerInv'
  <2>1. PICK id : id = req[c].id
    OBVIOUS
  <2>2. /\ req[c].at = "store" /\ UNCHANGED erased /\ Tables /\ row' = Marked(id, "completed")
        /\ artifact' = [artifact EXCEPT ![id] = req[c].seen]
    BY <1>8, <2>1 DEF StoreArtifact, WorkInv, Marked
  <2>3. id \in DOMAIN row /\ row[id].type = "export"
    BY <2>1, <2>2 DEF WorkInv, Placed, Working, AtExport
  <2>4. PICK r : /\ req' = [req EXCEPT ![c] = r]
                 /\ r.at \in Working => r.id = id /\ unheard' = unheard \cup {id}
                 /\ unheard \subseteq unheard'
    <3>1. [req[c] EXCEPT !.at = "fail"].id = req[c].id /\ Idle.at \notin Working
      BY MoveFacts DEF Working, AtExport, AtErasure
    <3>2. QED
      BY <1>8, <2>1, <3>1 DEF StoreArtifact, Done, Goto, Step
  <2>5. /\ DOMAIN row' = DOMAIN row /\ row'[id].state = "completed"
        /\ \A k \in DOMAIN row : row'[k].type = row[k].type
        /\ \A k \in DOMAIN row : k # id => row'[k] = row[k]
    BY <2>2, <2>3, RowChange
  <2>6. \A k \in DOMAIN row : k # id => artifact'[k] = artifact[k]
    BY <2>2, TableDomains
  <2>7. AnswersAreTrue'
    <3>1. \A k \in DOMAIN row : row[k].type = "erasure" => row'[k] = row[k]
      BY <2>3, <2>5
    <3>2. /\ \A k \in DOMAIN row' : row'[k].type = "erasure" /\ row'[k].state = "completed" => erased'
          /\ erased' => \E k \in DOMAIN row' : row'[k].type = "erasure" /\ (row'[k].state = "completed" \/ k \in unheard')
      BY <2>2, <2>4, <2>5, <3>1, AnswerRows
    <3>3. \A k \in DOMAIN row' : row'[k].type = "export" /\ row'[k].state = "failed" /\ artifact'[k] # None
            => k \in unheard'
      BY <2>4, <2>5, <2>6, AnswerRows
    <3>4. QED
      BY <3>2, <3>3 DEF AnswersAreTrue, Rows
  <2>8. r.at \in Working => r.id = id /\ id \in unheard'
    BY <2>4
  <2>9. OnlyAbout(id)
    BY <2>5, <2>6 DEF OnlyAbout
  <2>10. req' = [req EXCEPT ![c] = r] /\ unheard \subseteq unheard' /\ id \in DOMAIN row
    BY <2>3, <2>4
  <2>11. QED
    BY <2>1, <2>7, <2>8, <2>9, <2>10, EffectKeepsAnswers
<1>9. ASSUME NEW c \in Clients, NEW id, id = req[c].id, req[c].at \in Working, Done(c),
             row' = Marked(id, "failed"), UNCHANGED <<artifact, erased, unheard>>,
             req[c].at = "fail" \/ (req[c].type = "erasure" /\ row[id].state # "completed")
      PROVE  AnswerInv'
  <2>1. req' = [req EXCEPT ![c] = Idle] /\ Idle.at \notin Working
    BY <1>9 DEF Done, Step, Idle, Working, AtExport, AtErasure
  <2>2. id \in DOMAIN row /\ row[id].type = req[c].type /\ Tables
    BY <1>9 DEF WorkInv, Placed
  <2>3. /\ DOMAIN row' = DOMAIN row /\ row'[id].state = "failed"
        /\ \A k \in DOMAIN row : row'[k].type = row[k].type
        /\ \A k \in DOMAIN row : k # id => row'[k] = row[k]
    BY <1>9, <2>2, RowChange
  <2>4. /\ row[id].type = "erasure" /\ row[id].state = "completed" => id \in unheard
        /\ artifact[id] # None => id \in unheard
    BY <1>9, <2>2, AnswerRows
  <2>5. AnswersAreTrue'
    <3>1. /\ \A k \in DOMAIN row' : row'[k].type = "erasure" /\ row'[k].state = "completed" => erased'
          /\ erased' => \E k \in DOMAIN row' : row'[k].type = "erasure" /\ (row'[k].state = "completed" \/ k \in unheard')
      <4>1. \A k \in DOMAIN row' : row'[k].type = "erasure" /\ row'[k].state = "completed" => erased'
        BY <1>9, <2>3, AnswerRows
      <4>2. ASSUME erased'
            PROVE  \E k \in DOMAIN row' : row'[k].type = "erasure" /\ (row'[k].state = "completed" \/ k \in unheard')
        <5>1. PICK k \in DOMAIN row : row[k].type = "erasure" /\ (row[k].state = "completed" \/ k \in unheard)
          BY <1>9, <4>2, AnswerRows
        <5>2. row'[k].type = "erasure" /\ (row'[k].state = "completed" \/ k \in unheard')
          BY <1>9, <2>3, <2>4, <5>1
        <5>3. QED
          BY <2>3, <5>2
      <4>3. QED
        BY <4>1, <4>2
    <3>2. \A k \in DOMAIN row' : row'[k].type = "export" /\ row'[k].state = "failed" /\ artifact'[k] # None
            => k \in unheard'
      BY <1>9, <2>3, <2>4, AnswerRows
    <3>3. QED
      BY <3>1, <3>2 DEF AnswersAreTrue, Rows
  <2>6. OnlyAbout(id)
    BY <1>9, <2>3 DEF OnlyAbout
  <2>7. /\ id = req[c].id /\ id \in DOMAIN row /\ unheard \subseteq unheard'
        /\ Idle.at \in Working => Idle.id = id /\ id \in unheard'
    BY <1>9, <2>1, <2>2
  <2>8. QED
    BY <2>1, <2>5, <2>6, <2>7, EffectKeepsAnswers
<1>10. ASSUME NEW c \in Clients, FailExport(c) PROVE AnswerInv'
  BY <1>9, <1>10 DEF FailExport, Marked, Working
<1>11. ASSUME NEW c \in Clients, RevokeAll(c) \/ DenyAccess(c) PROVE AnswerInv'
  BY <1>1, <1>11 DEF RevokeAll, DenyAccess, Working, AtErasure
<1>12. ASSUME NEW c \in Clients, LockUser(c) PROVE AnswerInv'
  <2>1. PICK id : id = req[c].id
    OBVIOUS
  <2>2. req[c].at \in Working /\ req[c].type = "erasure" /\ UNCHANGED <<artifact, erased, unheard>>
    BY <1>12 DEF LockUser, WorkInv, Placed, Working, AtErasure
  <2>3. CASE row[id].state # "completed" /\ Done(c) /\ row' = Marked(id, "failed")
    BY <1>9, <2>1, <2>2, <2>3
  <2>4. CASE Done(c) /\ row' = row
    BY <1>2, <2>2, <2>4
  <2>5. CASE Goto(c, "erase") /\ row' = row
    BY <1>1, <2>2, <2>5
  <2>6. QED
    BY <1>12, <2>1, <2>3, <2>4, <2>5 DEF LockUser, Marked
<1>13. ASSUME NEW c \in Clients, NEW heard \in BOOLEAN, EraseAccount(c, heard) PROVE AnswerInv'
  <2>1. PICK id : id = req[c].id
    OBVIOUS
  <2>2. /\ req[c].at = "erase" /\ erased' = TRUE /\ Tables /\ row' = Cleared(id)
        /\ artifact' = [k \in DOMAIN row |-> None]
    BY <1>13, <2>1 DEF EraseAccount, Cleared, WorkInv
  <2>3. id \in DOMAIN row /\ row[id].type = "erasure"
    BY <2>1, <2>2 DEF WorkInv, Placed, Working, AtErasure
  <2>4. PICK r : /\ req' = [req EXCEPT ![c] = r]
                 /\ r.at \in Working => r.id = id /\ unheard' = unheard \cup {id}
                 /\ unheard \subseteq unheard'
    <3>1. [req[c] EXCEPT !.at = "fail"].id = req[c].id /\ Idle.at \notin Working
      BY MoveFacts DEF Working, AtExport, AtErasure
    <3>2. QED
      BY <1>13, <2>1, <3>1 DEF EraseAccount, Done, Goto, Step
  <2>5. /\ DOMAIN row' = DOMAIN row /\ row'[id].state = "completed"
        /\ \A k \in DOMAIN row : row'[k].type = row[k].type
        /\ \A k \in DOMAIN row : k # id /\ row[k].type = "erasure" => row'[k] = row[k]
    BY <2>2, <2>3, ErasedRows
  <2>6. \A k \in DOMAIN row : artifact'[k] = None
    BY <2>2
  <2>7. AnswersAreTrue'
    BY <2>2, <2>3, <2>5, <2>6 DEF AnswersAreTrue, Rows
  <2>8. r.at \in Working => r.id = id /\ id \in unheard'
    BY <2>4
  <2>9. OnlyAbout(id)
    BY <2>5, <2>6 DEF OnlyAbout
  <2>10. req' = [req EXCEPT ![c] = r] /\ unheard \subseteq unheard' /\ id \in DOMAIN row
    BY <2>3, <2>4
  <2>11. QED
    BY <2>1, <2>7, <2>8, <2>9, <2>10, EffectKeepsAnswers
<1>14. ASSUME NEW c \in Clients, NEW d \in Clients \ {c}, NEW victim \in {c, d}, BreakDeadlock(c, d, victim)
       PROVE  AnswerInv'
  BY <1>1, <1>14 DEF BreakDeadlock, Working, AtExport, AtErasure
<1>15. ASSUME NEW c \in Clients, Refused(c) \/ GivenUp(c) PROVE AnswerInv'
  BY <1>1, <1>2, <1>15 DEF Refused, GivenUp, Working, AtExport, AtErasure
<1>16. ASSUME NEW c \in Clients, Stop(c) PROVE AnswerInv'
  BY <1>2, <1>16 DEF Stop
<1>17. CASE UNCHANGED <<erased, row, artifact, req, unheard>>
  BY <1>17 DEF AnswerInv, AnswersAreTrue, Rows
<1>18. ASSUME NEW c \in Clients, Work(c) PROVE AnswerInv'
  BY <1>4, <1>5, <1>6, <1>7, <1>8, <1>10, <1>11, <1>12, <1>13, <1>14, <1>18 DEF Work
<1>19. QED
  BY <1>3, <1>15, <1>16, <1>17, <1>18
  DEF PrivacyNext, GdprNext, LogIn, OpenSession, OwnersChange, pvars, gvars

\* fail_export, complete_export and execute_erasure: what a request says is what happened,
\* unless the answer to a commit was lost.
THEOREM RequestsTellTheTruth == PrivacySpec => []AnswersAreTrue
<1>1. PrivacyInit => AnswerInv
  <2> SUFFICES ASSUME PrivacyInit PROVE AnswerInv
    OBVIOUS
  <2>1. erased = FALSE /\ row = << >> /\ \A c \in Clients : req[c].at = "idle"
    BY DEF PrivacyInit, Idle
  <2>2. \A c \in Clients : req[c].at \notin Working
    BY <2>1 DEF Working, AtExport, AtErasure
  <2>3. DOMAIN row = {}
    BY <2>1
  <2>4. QED
    BY <2>1, <2>2, <2>3, AnswerRows
<1>2. AnswerInv => AnswersAreTrue
  BY DEF AnswerInv
<1>3. QED
  BY <1>1, <1>2, WorkInvInit, WorkInvNext, AnswerInvNext, PTL DEF PrivacySpec
-----------------------------------------------------------------------------
(***************************************************************************)
(* The audit history.                                                      *)
(***************************************************************************)
\* What is listed is there, once; the cursor is the oldest row that is listed; and what was
\* there at the first page is listed or still below the cursor.
AuditInv ==
  /\ log \in SUBSET Key /\ IsFiniteSet(log)
  /\ reader \in [at : {"idle", "search", "end"}, cursor : Key \cup {None}, listed : Seq(Key), first : SUBSET Key]
  /\ Range(reader.listed) \subseteq log /\ reader.first \subseteq log
  /\ IsInjective(reader.listed)
  /\ reader.at # "end" /\ reader.cursor = None => reader.listed = << >>
  /\ reader.cursor # None =>
       /\ reader.at # "end"
       /\ \A x \in Range(reader.listed) : ~Before(x, reader.cursor)
       /\ \A x \in reader.first : x \in Range(reader.listed) \/ Before(x, reader.cursor)
  /\ reader.at = "end" => reader.first \subseteq Range(reader.listed)

\* The order of the history is total, and no row is before itself.
LEMMA BeforeIsOrder ==
  ASSUME NEW x \in Key, NEW y \in Key, NEW z \in Key
  PROVE  /\ ~Before(x, x)
         /\ Before(x, y) => ~Before(y, x)
         /\ Before(x, y) /\ Before(y, z) => Before(x, z)
         /\ x = y \/ Before(x, y) \/ Before(y, x)
<1>1. /\ x.at \in Nat /\ x.id \in Nat /\ y.at \in Nat /\ y.id \in Nat /\ z.at \in Nat /\ z.id \in Nat
      /\ x.at = y.at /\ x.id = y.id => x = y
  BY PrivacyAssumption DEF Key
<1>2. QED
  BY <1>1 DEF Before

\* The rows of a set that are listed before one of them.
Later(B, x) == {y \in B : Before(x, y)}

\* A later row of a set has fewer rows before it in the list.
LEMMA LaterIsLess ==
  ASSUME NEW B \in SUBSET Key, IsFiniteSet(B), NEW x \in B, NEW y \in B, Before(x, y)
  PROVE  /\ Cardinality(Later(B, x)) \in Nat /\ Cardinality(Later(B, y)) \in Nat
         /\ Cardinality(Later(B, y)) < Cardinality(Later(B, x))
<1> DEFINE X == Later(B, x)
           Y == Later(B, y)
<1>1. X \in SUBSET B /\ Y \in SUBSET B
  BY DEF Later
<1>2. IsFiniteSet(X) /\ IsFiniteSet(Y)
  BY <1>1, FS_Subset
<1>3. Y \in SUBSET X
  BY BeforeIsOrder DEF Later
<1>4. y \in X /\ y \notin Y
  BY BeforeIsOrder DEF Later
<1> HIDE DEF X, Y
<1>5. Cardinality(Y) <= Cardinality(X) /\ Cardinality(Y) # Cardinality(X)
  BY <1>2, <1>3, <1>4, FS_Subset
<1>6. Cardinality(X) \in Nat /\ Cardinality(Y) \in Nat
  BY <1>2, FS_CardinalityType
<1>7. Cardinality(Y) < Cardinality(X)
  BY <1>5, <1>6
<1>8. QED
  BY <1>6, <1>7 DEF X, Y

\* A finite set of rows that is not empty has a latest one.
LEMMA LatestRow ==
  ASSUME NEW B \in SUBSET Key, IsFiniteSet(B), B # {}
  PROVE  \E x \in B : Cardinality(Later(B, x)) = 0
<1> SUFFICES ASSUME \A x \in B : Cardinality(Later(B, x)) # 0 PROVE FALSE
  OBVIOUS
<1> DEFINE n == Cardinality(B)
<1>1. n \in Nat /\ n # 0
  BY FS_CardinalityType, FS_EmptySet
<1>2. ASSUME NEW x \in B PROVE Cardinality(Later(B, x)) \in 1..(n - 1)
  <2> DEFINE X == Later(B, x)
  <2>1. X \in SUBSET B /\ x \notin X
    BY BeforeIsOrder DEF Later
  <2>2. Cardinality(X) # 0
    OBVIOUS
  <2> HIDE DEF X
  <2>3. IsFiniteSet(X) /\ Cardinality(X) <= n /\ Cardinality(X) # n
    BY <2>1, FS_Subset
  <2>4. Cardinality(X) \in Nat
    BY <2>3, FS_CardinalityType
  <2>5. Cardinality(X) \in 1..(n - 1)
    BY <1>1, <2>2, <2>3, <2>4
  <2>6. QED
    BY <2>5 DEF X
<1> DEFINE T == 1..(n - 1)
           f == [x \in B |-> Cardinality(Later(B, x))]
<1>3. f \in [B -> T]
  BY <1>2
<1>4. IsFiniteSet(T) /\ Cardinality(T) = n - 1
  <2>1. PICK m \in Nat : m = n - 1
    BY <1>1
  <2>2. IsFiniteSet(1..m) /\ Cardinality(1..m) = IF 1 > m THEN 0 ELSE m - 1 + 1
    <3>1. 1 \in Int /\ m \in Int
      OBVIOUS
    <3>2. QED
      BY ONLY <3>1, FS_Interval
  <2>3. Cardinality(1..m) = m
    BY <2>2
  <2>4. QED
    BY <2>1, <2>2, <2>3
<1>5. \A x \in B : f[x] = Cardinality(Later(B, x))
  OBVIOUS
<1> HIDE DEF T, f
<1>6. Cardinality(T) < Cardinality(B)
  BY <1>1, <1>4
<1>7. PICK x \in B, y \in B : x # y /\ f[x] = f[y]
  BY <1>3, <1>4, <1>6, FS_PigeonHole
<1>8. Cardinality(Later(B, x)) = Cardinality(Later(B, y))
  BY <1>5, <1>7
<1>9. Before(x, y) \/ Before(y, x)
  BY <1>7, BeforeIsOrder
<1>10. CASE Before(x, y)
  <2>1. /\ Cardinality(Later(B, x)) \in Nat /\ Cardinality(Later(B, y)) \in Nat
        /\ Cardinality(Later(B, y)) < Cardinality(Later(B, x))
    BY <1>10, LaterIsLess
  <2>2. QED
    BY <1>8, <2>1
<1>11. CASE Before(y, x)
  <2>1. /\ Cardinality(Later(B, x)) \in Nat /\ Cardinality(Later(B, y)) \in Nat
        /\ Cardinality(Later(B, x)) < Cardinality(Later(B, y))
    BY <1>11, LaterIsLess
  <2>2. QED
    BY <1>8, <2>1
<1>12. QED
  BY <1>9, <1>10, <1>11

\* search_audit_logs: a page is empty when nothing is left only, and what it leaves out is
\* older than all of it.
LEMMA PageIsLatest ==
  ASSUME NEW cursor, log \in SUBSET Key, IsFiniteSet(log)
  PROVE  /\ PageAfter(cursor) \subseteq Below(cursor) /\ Below(cursor) \subseteq log
         /\ IsFiniteSet(PageAfter(cursor))
         /\ Below(cursor) # {} => PageAfter(cursor) # {}
         /\ \A x \in Below(cursor) \ PageAfter(cursor), y \in PageAfter(cursor) : Before(x, y)
<1> DEFINE B == Below(cursor)
           P == PageAfter(cursor)
<1>1. B \in SUBSET log /\ B \in SUBSET Key
  BY DEF Below
<1>2. IsFiniteSet(B)
  BY <1>1, FS_Subset
<1>3. P = {x \in B : Cardinality(Later(B, x)) < PageSize}
  BY DEF PageAfter, Later
<1> HIDE DEF B, P
<1>4. IsFiniteSet(P) /\ P \subseteq B
  BY <1>2, <1>3, FS_Subset
<1>5. ASSUME B # {} PROVE P # {}
  <2>1. PICK x \in B : Cardinality(Later(B, x)) = 0
    BY <1>1, <1>2, <1>5, LatestRow
  <2>2. 0 < PageSize
    BY PrivacyAssumption
  <2>3. QED
    BY <1>3, <2>1, <2>2
<1>6. ASSUME NEW x \in B \ P, NEW y \in P, ~Before(x, y) PROVE FALSE
  <2>1. x \in Key /\ y \in Key /\ x \in B /\ y \in B /\ x # y
    BY <1>1, <1>4, <1>6
  <2>2. Before(y, x)
    BY <1>6, <2>1, BeforeIsOrder
  <2>3. /\ Cardinality(Later(B, x)) \in Nat /\ Cardinality(Later(B, y)) \in Nat
        /\ Cardinality(Later(B, x)) < Cardinality(Later(B, y))
    BY <1>1, <1>2, <2>1, <2>2, LaterIsLess
  <2>4. Cardinality(Later(B, y)) < PageSize /\ ~(Cardinality(Later(B, x)) < PageSize)
    BY <1>3, <1>6, <2>1
  <2>5. QED
    BY <2>3, <2>4, PrivacyAssumption
<1>7. QED
  BY <1>1, <1>4, <1>5, <1>6 DEF B, P
\* A listing holds the rows of its page, each once, and ends with the oldest.
LEMMA ListingOrder ==
  ASSUME NEW P \in SUBSET Key, IsFiniteSet(P), NEW sorted \in Listings(P)
  PROVE  /\ sorted \in Seq(Key) /\ IsInjective(sorted) /\ Range(sorted) = P
         /\ P # {} => /\ Last(sorted) \in P
                      /\ \A x \in P : ~Before(x, Last(sorted))
<1> DEFINE n == Cardinality(P)
<1>1. n \in Nat
  BY FS_CardinalityType
<1>2. /\ sorted \in [1..n -> P] /\ IsInjective(sorted) /\ \A x \in P : \E i \in 1..n : sorted[i] = x
      /\ \A i, j \in 1..n : i < j => Before(sorted[j], sorted[i])
  BY DEF Listings, Bijection, Injection, Surjection
<1> HIDE DEF n
<1>3. sorted \in Seq(Key) /\ Len(sorted) = n
  <2>1. sorted \in Seq(P) /\ Len(sorted) = n
    BY <1>1, <1>2
  <2>2. QED
    BY <2>1
<1>4. Range(sorted) = P
  BY <1>2 DEF Range
<1>5. ASSUME P # {} PROVE Last(sorted) \in P /\ \A x \in P : ~Before(x, Last(sorted))
  <2>1. PICK y \in P : TRUE
    BY <1>5
  <2>2. n \in 1..n
    BY <1>1, <1>2, <2>1
  <2>3. Last(sorted) = sorted[n] /\ sorted[n] \in P
    BY <1>2, <1>3, <2>2 DEF Last
  <2>4. ASSUME NEW x \in P PROVE ~Before(x, sorted[n])
    <3>1. PICK i \in 1..n : sorted[i] = x
      BY <1>2
    <3>2. i = n \/ Before(sorted[n], x)
      BY <1>1, <1>2, <2>2, <3>1
    <3>3. x \in Key /\ sorted[n] \in Key
      BY <2>3
    <3>4. QED
      BY <3>1, <3>2, <3>3, BeforeIsOrder
  <2>5. QED
    BY <2>3, <2>4
<1>6. QED
  BY <1>2, <1>3, <1>4, <1>5

\* Two lists without repetitions and without a common entry make one.
LEMMA Joined ==
  ASSUME NEW s \in Seq(Key), NEW t \in Seq(Key), IsInjective(s), IsInjective(t),
         Range(s) \cap Range(t) = {}
  PROVE  /\ s \o t \in Seq(Key) /\ IsInjective(s \o t)
         /\ Range(s \o t) = Range(s) \cup Range(t)
<1> DEFINE u == s \o t
<1>1. /\ u \in Seq(Key) /\ Len(u) = Len(s) + Len(t) /\ Len(s) \in Nat /\ Len(t) \in Nat
      /\ DOMAIN u = 1..(Len(s) + Len(t)) /\ DOMAIN s = 1..Len(s) /\ DOMAIN t = 1..Len(t)
  OBVIOUS
<1>2. \A i \in 1..Len(s) : u[i] = s[i]
  OBVIOUS
<1>3. \A i \in 1..Len(u) : i > Len(s) => u[i] = t[i - Len(s)] /\ i - Len(s) \in 1..Len(t)
  OBVIOUS
<1>4. \A j \in 1..Len(t) : j + Len(s) \in DOMAIN u /\ u[j + Len(s)] = t[j]
  BY <1>1, <1>3
<1> HIDE DEF u
<1>5. Range(u) = Range(s) \cup Range(t)
  <2>1. ASSUME NEW x \in Range(u) PROVE x \in Range(s) \cup Range(t)
    <3>1. PICK i \in DOMAIN u : u[i] = x
      BY DEF Range
    <3>2. CASE i \in DOMAIN s
      BY <1>1, <1>2, <3>1, <3>2 DEF Range
    <3>3. CASE i > Len(s)
      <4>1. x = t[i - Len(s)] /\ i - Len(s) \in DOMAIN t
        BY <1>1, <1>3, <3>1, <3>3
      <4>2. QED
        BY <4>1 DEF Range
    <3>4. QED
      BY <1>1, <3>1, <3>2, <3>3
  <2>2. ASSUME NEW x \in Range(s) PROVE x \in Range(u)
    <3>1. PICK i \in DOMAIN s : s[i] = x
      BY DEF Range
    <3>2. i \in DOMAIN u /\ u[i] = x
      BY <1>1, <1>2, <3>1
    <3>3. QED
      BY <3>2 DEF Range
  <2>3. ASSUME NEW x \in Range(t) PROVE x \in Range(u)
    <3>1. PICK i \in DOMAIN t : t[i] = x
      BY DEF Range
    <3>2. i + Len(s) \in DOMAIN u /\ u[i + Len(s)] = x
      BY <1>1, <1>4, <3>1
    <3>3. QED
      BY <3>2 DEF Range
  <2>4. QED
    BY <2>1, <2>2, <2>3
<1>6. ASSUME NEW i \in DOMAIN u, NEW j \in DOMAIN u, u[i] = u[j] PROVE i = j
  <2>1. ASSUME NEW a \in DOMAIN s, NEW b \in DOMAIN t, s[a] = t[b] PROVE FALSE
    BY <2>1 DEF Range
  <2>2. CASE i <= Len(s) /\ j <= Len(s)
    BY <1>1, <1>2, <1>6, <2>2 DEF IsInjective
  <2>3. CASE i > Len(s) /\ j > Len(s)
    <3>1. t[i - Len(s)] = t[j - Len(s)] /\ i - Len(s) \in DOMAIN t /\ j - Len(s) \in DOMAIN t
      BY <1>1, <1>3, <1>6, <2>3
    <3>2. i - Len(s) = j - Len(s)
      BY <3>1 DEF IsInjective
    <3>3. QED
      BY <1>1, <3>2
  <2>4. ASSUME NEW a \in DOMAIN u, NEW b \in DOMAIN u, a <= Len(s), b > Len(s), u[a] = u[b] PROVE FALSE
    <3>1. a \in DOMAIN s /\ u[a] = s[a] /\ b - Len(s) \in DOMAIN t /\ u[b] = t[b - Len(s)]
      BY <1>1, <1>2, <1>3, <2>4
    <3>2. QED
      BY <2>1, <2>4, <3>1
  <2>5. QED
    BY <1>1, <1>6, <2>2, <2>3, <2>4
<1>7. IsInjective(u)
  BY <1>6 DEF IsInjective
<1>8. QED
  BY <1>1, <1>5, <1>7 DEF u
\* Rows that are added, of whatever age, leave what the reader has seen as it is.
LEMMA RowsAreAdded ==
  ASSUME AuditInv, NEW k \in Key, log' = log \cup {k}
  PROVE  log \subseteq log' /\ log' \in SUBSET Key /\ IsFiniteSet(log')
<1>1. log \in SUBSET Key /\ IsFiniteSet(log)
  BY DEF AuditInv
<1>2. IsFiniteSet(log \cup {k})
  BY <1>1, FS_AddElement
<1>3. QED
  BY <1>1, <1>2

\* A reader who does not read meanwhile.
LEMMA ReaderWaits ==
  ASSUME AuditInv, log \subseteq log', log' \in SUBSET Key, IsFiniteSet(log'),
         \/ UNCHANGED reader
         \/ reader' = NoReader
         \/ reader.at = "idle" /\ reader' = [reader EXCEPT !.at = "search"]
  PROVE  AuditInv'
<1>1. CASE UNCHANGED reader
  BY <1>1 DEF AuditInv
<1>2. CASE reader' = NoReader
  <2>1. /\ reader'.at = "idle" /\ reader'.cursor = None /\ reader'.listed = << >> /\ reader'.first = {}
        /\ reader' \in [at : {"idle", "search", "end"}, cursor : Key \cup {None}, listed : Seq(Key), first : SUBSET Key]
    BY <1>2 DEF NoReader
  <2>2. Range(reader'.listed) = {} /\ IsInjective(reader'.listed)
    BY <2>1 DEF Range, IsInjective
  <2>3. QED
    BY <2>1, <2>2 DEF AuditInv
<1>3. CASE reader.at = "idle" /\ reader' = [reader EXCEPT !.at = "search"]
  <2>1. reader \in [at : {"idle", "search", "end"}, cursor : Key \cup {None}, listed : Seq(Key), first : SUBSET Key]
    BY DEF AuditInv
  <2>2. /\ reader'.at = "search" /\ reader'.cursor = reader.cursor /\ reader'.listed = reader.listed
        /\ reader'.first = reader.first
        /\ reader' \in [at : {"idle", "search", "end"}, cursor : Key \cup {None}, listed : Seq(Key), first : SUBSET Key]
    BY <1>3, <2>1
  <2>3. QED
    BY <1>3, <2>2 DEF AuditInv
<1>4. QED
  BY <1>1, <1>2, <1>3

\* search_audit_logs lists what is new to the reader, down to a cursor that is older than
\* what is listed and later than what is not.
LEMMA SearchKeepsAudit ==
  ASSUME AuditInv, SearchAuditLogs
  PROVE  AuditInv'
<1> DEFINE cursor == reader.cursor
           B == Below(reader.cursor)
           P == PageAfter(reader.cursor)
           more == P # B
<1>1. PICK k \in NewRow(now) : log' = log \cup {k}
  BY DEF SearchAuditLogs
<1>2. k \in Key
  BY DEF NewRow
<1>3. log \subseteq log' /\ log' \in SUBSET Key /\ IsFiniteSet(log')
  BY <1>1, <1>2, RowsAreAdded
<1>4. PICK sorted \in Listings(P) :
        reader' = [at |-> IF more THEN "idle" ELSE "end",
                   cursor |-> IF more THEN Last(sorted) ELSE None,
                   listed |-> reader.listed \o sorted,
                   first |-> IF reader.cursor = None THEN log ELSE reader.first]
  BY DEF SearchAuditLogs
<1>5. /\ log \in SUBSET Key /\ IsFiniteSet(log) /\ cursor \in Key \cup {None}
      /\ reader.listed \in Seq(Key) /\ Range(reader.listed) \subseteq log
      /\ reader.first \in SUBSET Key /\ reader.first \subseteq log /\ IsInjective(reader.listed)
      /\ reader.at = "search"
  BY DEF AuditInv, SearchAuditLogs
<1>6. /\ cursor = None => reader.listed = << >>
      /\ cursor # None => /\ \A x \in Range(reader.listed) : ~Before(x, cursor)
                          /\ \A x \in reader.first : x \in Range(reader.listed) \/ Before(x, cursor)
  BY <1>5 DEF AuditInv
<1>7. B = {x \in log : cursor = None \/ Before(x, cursor)}
  BY DEF Below
<1>8. /\ P \subseteq B /\ B \subseteq log /\ IsFiniteSet(P)
      /\ B # {} => P # {}
      /\ \A x \in B \ P, y \in P : Before(x, y)
  BY <1>5, PageIsLatest
<1>9. P \in SUBSET Key /\ P \subseteq log
  BY <1>5, <1>8
<1> HIDE DEF cursor, B, P
<1>10. /\ sorted \in Seq(Key) /\ IsInjective(sorted) /\ Range(sorted) = P
       /\ P # {} => Last(sorted) \in P /\ \A x \in P : ~Before(x, Last(sorted))
  BY <1>8, <1>9, ListingOrder
<1>11. ASSUME NEW x \in Range(reader.listed) PROVE cursor # None /\ x \notin P
  <2>1. reader.listed # << >>
    BY DEF Range
  <2>2. cursor # None /\ ~Before(x, cursor)
    BY <1>6, <2>1
  <2>3. QED
    BY <1>7, <1>8, <2>2
<1>12. Range(reader.listed) \cap Range(sorted) = {}
  BY <1>10, <1>11
<1> DEFINE listed == reader.listed \o sorted
<1>13. listed \in Seq(Key) /\ IsInjective(listed) /\ Range(listed) = Range(reader.listed) \cup P
  <2>1. /\ listed \in Seq(Key) /\ IsInjective(listed)
        /\ Range(listed) = Range(reader.listed) \cup Range(sorted)
    BY <1>5, <1>10, <1>12, Joined
  <2>2. QED
    BY <1>10, <2>1
<1> DEFINE first == IF cursor = None THEN log ELSE reader.first
<1>14. first \in SUBSET Key /\ first \subseteq log
  BY <1>5
<1>15. \A x \in first : x \in Range(listed) \/ x \in B \ P
  <2>1. CASE cursor = None
    BY <1>7, <1>13, <2>1
  <2>2. CASE cursor # None
    BY <1>5, <1>6, <1>7, <1>13, <2>2
  <2>3. QED
    BY <2>1, <2>2
<1>16. /\ reader'.at = (IF more THEN "idle" ELSE "end") /\ reader'.listed = listed /\ reader'.first = first
       /\ reader'.cursor = (IF more THEN Last(sorted) ELSE None)
       /\ reader' = [at |-> reader'.at, cursor |-> reader'.cursor, listed |-> listed, first |-> first]
  BY <1>4 DEF cursor
<1> HIDE DEF listed, first
<1>17. Range(reader'.listed) \subseteq log' /\ reader'.first \subseteq log'
  BY <1>3, <1>5, <1>9, <1>13, <1>14, <1>16
<1>18. CASE more
  <2> DEFINE last == Last(sorted)
  <2>1. P # {} /\ last \in P /\ \A x \in P : ~Before(x, last)
    BY <1>8, <1>10, <1>18
  <2>2. last \in Key /\ last # None
    BY <1>9, <2>1, PrivacyAssumption DEF Key
  <2>3. reader'.at = "idle" /\ reader'.cursor = last
    BY <1>16, <1>18
  <2> HIDE DEF last
  <2>4. ASSUME NEW x \in Range(listed), Before(x, last) PROVE FALSE
    <3>1. x \in Range(reader.listed) /\ x \in Key
      BY <1>5, <1>13, <2>1, <2>4
    <3>2. cursor # None /\ cursor \in Key /\ ~Before(x, cursor)
      BY <1>5, <1>6, <1>11, <3>1
    <3>3. Before(last, cursor)
      BY <1>7, <1>8, <2>1, <3>2
    <3>4. Before(x, last) /\ Before(last, cursor) => Before(x, cursor)
      BY <2>2, <3>1, <3>2, BeforeIsOrder
    <3>5. QED
      BY <2>4, <3>2, <3>3, <3>4
  <2>5. \A x \in first : x \in Range(listed) \/ Before(x, last)
    BY <1>8, <1>15, <2>1
  <2>6. reader' \in [at : {"idle", "search", "end"}, cursor : Key \cup {None}, listed : Seq(Key), first : SUBSET Key]
    BY <1>13, <1>14, <1>16, <2>2, <2>3
  <2>7. QED
    BY <1>3, <1>13, <1>16, <1>17, <2>2, <2>3, <2>4, <2>5, <2>6 DEF AuditInv
<1>19. CASE ~more
  <2>1. reader'.at = "end" /\ reader'.cursor = None
    BY <1>16, <1>19
  <2>2. first \subseteq Range(listed)
    BY <1>15, <1>19
  <2>3. reader' \in [at : {"idle", "search", "end"}, cursor : Key \cup {None}, listed : Seq(Key), first : SUBSET Key]
    BY <1>13, <1>14, <1>16, <2>1
  <2>4. QED
    BY <1>3, <1>13, <1>16, <1>17, <2>1, <2>2, <2>3 DEF AuditInv
<1>20. QED
  BY <1>18, <1>19

\* Every step keeps the audit history and its reader.
LEMMA AuditInvNext == AuditInv /\ [PrivacyNext]_pvars => AuditInv'
<1> SUFFICES ASSUME AuditInv, [PrivacyNext]_pvars PROVE AuditInv'
  OBVIOUS
<1>1. log \subseteq log /\ log \in SUBSET Key /\ IsFiniteSet(log)
  BY DEF AuditInv
<1>2. ASSUME NEW at \in 0..now, RecordEvent(at) PROVE AuditInv'
  <2>1. PICK k \in NewRow(at) : log' = log \cup {k}
    BY <1>2 DEF RecordEvent
  <2>2. k \in Key
    BY DEF NewRow
  <2>3. log \subseteq log' /\ log' \in SUBSET Key /\ IsFiniteSet(log')
    BY <2>1, <2>2, RowsAreAdded
  <2>4. UNCHANGED reader
    BY <1>2 DEF RecordEvent
  <2>5. QED
    BY <2>3, <2>4, ReaderWaits
<1>3. ASSUME NEW allowed \in BOOLEAN, AskAudit(allowed) PROVE AuditInv'
  BY <1>1, <1>3, ReaderWaits DEF AskAudit
<1>4. CASE StartOver
  BY <1>1, <1>4, ReaderWaits DEF StartOver
<1>5. CASE UNCHANGED <<log, reader>>
  BY <1>1, <1>5, ReaderWaits
<1>6. CASE AuditNext
  BY <1>2, <1>3, <1>4, <1>5, <1>6, SearchKeepsAudit DEF AuditNext, Tick
<1>7. QED
  BY <1>5, <1>6 DEF PrivacyNext, pvars, avars

\* search_audit_logs: whoever pages to the end has met every row of the first moment, and no
\* row twice, whatever is written meanwhile and however many rows share a moment.
THEOREM HistoryIsReadOnce == PrivacySpec => []PagesMeetOnce
<1>1. PrivacyInit => AuditInv
  <2> SUFFICES ASSUME PrivacyInit PROVE AuditInv
    OBVIOUS
  <2>1. log = {} /\ reader = NoReader
    BY DEF PrivacyInit
  <2>2. /\ reader.at = "idle" /\ reader.cursor = None /\ reader.listed = << >> /\ reader.first = {}
        /\ reader \in [at : {"idle", "search", "end"}, cursor : Key \cup {None}, listed : Seq(Key), first : SUBSET Key]
    BY <2>1 DEF NoReader
  <2>3. Range(reader.listed) = {} /\ IsInjective(reader.listed)
    BY <2>2 DEF Range, IsInjective
  <2>4. QED
    BY <2>1, <2>2, <2>3, FS_EmptySet DEF AuditInv
<1>2. AuditInv => PagesMeetOnce
  BY DEF AuditInv, PagesMeetOnce
<1>3. QED
  BY <1>1, <1>2, AuditInvNext, PTL DEF PrivacySpec
=============================================================================
