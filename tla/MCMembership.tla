--------------------------- MODULE MCMembership ---------------------------
(* Small instances of Membership for TLC. *)
EXTENDS Membership, TLC

\* After an overlap of requests about one member only AcceptedOnce is left to check: such a
\* behaviour is followed as long as no other kind of overlap joins it.
MemberRaceAlone == "member" \in raced => raced = {"member"}

Symmetry == Permutations(Users) \cup Permutations(Emails) \cup Permutations(Invitations) \cup Permutations(Txs)
=============================================================================
