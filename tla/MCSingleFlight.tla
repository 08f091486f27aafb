--------------------------- MODULE MCSingleFlight ---------------------------
(* Small instances of SingleFlight for TLC. *)
EXTENDS SingleFlight, TLC

Sym == Permutations(Runners)
=============================================================================
