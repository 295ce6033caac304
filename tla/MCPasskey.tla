------------------------------ MODULE MCPasskey ------------------------------
(* Small instances of Passkey for TLC.                                     *)
EXTENDS Passkey, TLC

Symmetry == Permutations(Requests) \union Permutations(Ids)
=============================================================================
