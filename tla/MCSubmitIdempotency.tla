------------------------ MODULE MCSubmitIdempotency ------------------------
(* Small instances of SubmitIdempotency. *)
EXTENDS SubmitIdempotency, TLC

CONSTANTS h1, h2, h3, p1, p2

Symmetric == Permutations({h1, h2, h3}) \cup Permutations({p1, p2})
=============================================================================
