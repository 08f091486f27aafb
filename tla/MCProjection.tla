--------------------------- MODULE MCProjection ---------------------------
(* Small instances of Projection for TLC. *)
EXTENDS Projection
============================================================================
