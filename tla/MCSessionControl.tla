-------------------------- MODULE MCSessionControl --------------------------
(* Small instances of SessionControl for TLC. *)
EXTENDS SessionControl, TLC

Symmetry == Permutations(Fids) \cup Permutations(Txs)
=============================================================================
