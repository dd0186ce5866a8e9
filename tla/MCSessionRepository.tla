------------------------ MODULE MCSessionRepository ------------------------
(* Small instances of SessionRepository for TLC. *)
EXTENDS SessionRepository, TLC

Symmetry == Permutations(Fids) \cup Permutations(Txs)
=============================================================================
