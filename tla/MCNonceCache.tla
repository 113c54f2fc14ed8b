---------------------------- MODULE MCNonceCache ----------------------------
(* An instance of NonceCache for TLC: more nonces than room.                *)
EXTENDS NonceCache, TLC
Symmetry == Permutations(Nonces) \cup Permutations(Handlers)
=============================================================================
