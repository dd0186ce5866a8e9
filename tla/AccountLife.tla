----------------------------- MODULE AccountLife -----------------------------
(***************************************************************************)
(* What registration and referral promise together.  A contact has at most *)
(* one account; it is opened once, becomes active only from pending, and   *)
(* stays shut when staff shut it.  A referral is open until it is taken by *)
(* the account it was meant for or dies; one that was taken cannot die,    *)
(* and it is earned in the very step that makes its account active.        *)
(***************************************************************************)
EXTENDS Naturals

CONSTANTS Contacts, Referrals, None

VARIABLES
  life,    \* life[m]: of the account of contact m
  stage,   \* stage[r]: of a referral
  taker    \* taker[r]: the contact that took it

lifeVars == <<life, stage, taker>>

LifeInit ==
  /\ life \in [Contacts -> {"absent", "active"}]
  /\ stage = [r \in Referrals |-> "none"]
  /\ taker = [r \in Referrals |-> None]

\* An account is opened, with the referral it came from if that is still open.
Open(m) ==
  /\ life[m] = "absent"
  /\ life' = [life EXCEPT ![m] = "pending"]
  /\ \/ UNCHANGED <<stage, taker>>
     \/ \E r \in Referrals :
          /\ stage[r] = "open"
          /\ stage' = [stage EXCEPT ![r] = "taken"]
          /\ taker' = [taker EXCEPT ![r] = m]

Activate(m) ==
  /\ life[m] = "pending"
  /\ life' = [life EXCEPT ![m] = "active"]
  /\ stage' = [r \in Referrals |-> IF stage[r] = "taken" /\ taker[r] = m THEN "earned" ELSE stage[r]]
  /\ UNCHANGED taker

Shut(m) ==
  /\ life[m] \in {"pending", "active"}
  /\ life' = [life EXCEPT ![m] = "suspended"]
  /\ UNCHANGED <<stage, taker>>

Invite(r) ==
  /\ stage[r] = "none"
  /\ stage' = [stage EXCEPT ![r] = "open"]
  /\ UNCHANGED <<life, taker>>

Die(R) ==
  /\ \A r \in R : stage[r] = "open"
  /\ stage' = [r \in Referrals |-> IF r \in R THEN "dead" ELSE stage[r]]
  /\ UNCHANGED <<life, taker>>

LifeNext ==
  \/ \E m \in Contacts : Open(m) \/ Activate(m) \/ Shut(m)
  \/ \E r \in Referrals : Invite(r)
  \/ \E R \in SUBSET Referrals : Die(R)

LifeSpec == LifeInit /\ [][LifeNext]_lifeVars

\* What a referral is worth: it is earned only by an account that became active, an account
\* that waits has earned nobody anything, and no account earns two.
EarnedByOne ==
  /\ \A r \in Referrals : taker[r] # None <=> stage[r] \in {"taken", "earned"}
  /\ \A r \in Referrals : stage[r] = "taken" => life[taker[r]] \in {"pending", "suspended"}
  /\ \A r \in Referrals : stage[r] = "earned" => life[taker[r]] \in {"active", "suspended"}
  /\ \A q, r \in Referrals : taker[q] # None /\ taker[q] = taker[r] => q = r
=============================================================================
