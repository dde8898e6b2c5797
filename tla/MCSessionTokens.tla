-------------------------- MODULE MCSessionTokens --------------------------
(* Instances of SessionTokens for TLC.  Sessions, ids and requests are     *)
(* each interchangeable.                                                   *)
EXTENDS SessionTokens, TLC

Interchangeable == Permutations(Sids) \cup Permutations(Jtis) \cup Permutations(Reqs)
=============================================================================
