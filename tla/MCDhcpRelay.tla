----------------------------- MODULE MCDhcpRelay -----------------------------
(* Small instances of DhcpRelay for TLC. *)
EXTENDS DhcpRelay, TLC

CONSTANTS c1, c2   \* two clients

Symmetry == Permutations({c1, c2})
=============================================================================
