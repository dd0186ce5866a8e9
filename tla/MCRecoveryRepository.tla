------------------------ MODULE MCRecoveryRepository ------------------------
(* Small instances of RecoveryRepository for TLC. *)
EXTENDS RecoveryRepository, TLC

\* Links and governed requests, or contact changes: a state that has begun with both is
\* checked and not continued, and neither is one where a governed request meets issues of
\* links that overlap.
Apart ==
  /\ \A u \in Users : Cardinality(LiveLinks(u)) <= 1
  /\ \A s, t \in Txs : issuing[s] # NoIssue /\ issuing[t] # NoIssue => s = t

OnePart ==
  \/ /\ \A x \in Changes : change[x] = NoChange
     /\ Apart \/ \A g \in Resets : reset[g] = NoReset
  \/ /\ \A l \in Links : link[l] = NoLink
     /\ \A g \in Resets : reset[g] = NoReset
     /\ \A t \in Txs : issuing[t] = NoIssue

Symmetry == Permutations(Links) \cup Permutations(Txs) \cup Permutations(Resets) \cup Permutations(Passwords)
=============================================================================
