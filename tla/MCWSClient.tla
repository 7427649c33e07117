----------------------------- MODULE MCWSClient -----------------------------
(* Small instances of WSClient for TLC. *)
EXTENDS WSClientInv, TLC

\* Interchangeable callers; sound for the invariants and action properties.
RequestSymmetry == Permutations(Requests)

=============================================================================
