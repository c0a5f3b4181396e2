-------------------------- MODULE MCVideoDispatch --------------------------
(* Small instances of VideoDispatch. *)
EXTENDS VideoDispatch, TLC

CONSTANTS d, j1, j2

Symmetric == Permutations({j1, j2})
=============================================================================
