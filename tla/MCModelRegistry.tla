--------------------------- MODULE MCModelRegistry ---------------------------
(* An instance of ModelRegistry for TLC. *)
EXTENDS ModelRegistry
=============================================================================
