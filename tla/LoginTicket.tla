----------------------------- MODULE LoginTicket -----------------------------
(***************************************************************************)
(* What the workflow tokens of a login promise, without saying where they  *)
(* are kept.  A login starts once.  It is a ticket: one holder at a time,  *)
(* and once lost or used it never comes back.  It gains the assurance of a *)
(* second factor only through a proof spent for it, and a proof is spent   *)
(* once, for one login.  It is exchanged once at most: for a session, or,  *)
(* with a proof spent for it, for a link to a social identity.  What a     *)
(* proof is, is not said here; the enrollment of a first factor is one.    *)
(***************************************************************************)
EXTENDS Naturals

CONSTANT Logins

VARIABLES
  origin,    \* "none", then "low" or "guarded": whether the first step sufficed
  holders,   \* places that hold the login: a stored token or a running request
  assured,   \* held logins with a second factor behind them
  pledge,    \* proofs spent, each with the login it was spent for
  sessions,  \* logins exchanged for a session
  links      \* logins exchanged for a linked identity

ticketVars == <<origin, holders, assured, pledge, sessions, links>>

TicketInit ==
  /\ origin = [l \in Logins |-> "none"]
  /\ holders = [l \in Logins |-> 0]
  /\ assured = {}
  /\ pledge = {}
  /\ sessions = {}
  /\ links = {}

Start(l) ==
  /\ origin[l] = "none"
  /\ \E o \in {"low", "guarded"} : origin' = [origin EXCEPT ![l] = o]
  /\ holders' = [holders EXCEPT ![l] = 1]
  /\ UNCHANGED <<assured, pledge, sessions, links>>

\* The token expires, is refused or voided, or the request that held it stops.
Lose(l) ==
  /\ holders[l] = 1
  /\ holders' = [holders EXCEPT ![l] = 0]
  /\ assured' = assured \ {l}
  /\ UNCHANGED <<origin, pledge, sessions, links>>

Spend(l) ==
  /\ \E e \in pledge' :
       /\ e.login = l
       /\ \A d \in pledge : d.proof # e.proof
       /\ pledge' = pledge \cup {e}
  /\ UNCHANGED <<origin, holders, assured, sessions, links>>

Elevate(l) ==
  /\ holders[l] = 1
  /\ l \notin assured
  /\ \E e \in pledge : e.login = l
  /\ assured' = assured \cup {l}
  /\ UNCHANGED <<origin, holders, pledge, sessions, links>>

Redeem(l) ==
  /\ holders[l] = 1
  /\ origin[l] = "low" \/ l \in assured
  /\ holders' = [holders EXCEPT ![l] = 0]
  /\ assured' = assured \ {l}
  /\ sessions' = sessions \cup {l}
  /\ UNCHANGED <<origin, pledge, links>>

Link(l) ==
  /\ holders[l] = 1
  /\ \E e \in pledge : e.login = l
  /\ holders' = [holders EXCEPT ![l] = 0]
  /\ assured' = assured \ {l}
  /\ links' = links \cup {l}
  /\ UNCHANGED <<origin, pledge, sessions>>

TicketNext ==
  \E l \in Logins : Start(l) \/ Lose(l) \/ Spend(l) \/ Elevate(l) \/ Redeem(l) \/ Link(l)

TicketSpec == TicketInit /\ [][TicketNext]_ticketVars

\* What a ticket buys: one thing, once.  A session has an easy login or a proof behind it, an
\* identity always a proof, and no proof stands behind two logins.
BuysOnce ==
  /\ sessions \cap links = {}
  /\ \A l \in sessions \cup links : holders[l] = 0
  /\ \A l \in sessions : origin[l] = "low" \/ \E e \in pledge : e.login = l
  /\ \A l \in links \cup assured : \E e \in pledge : e.login = l
  /\ \A d, e \in pledge : d.proof = e.proof => d.login = e.login
=============================================================================
