--------------------------- MODULE MCAuthRefresh ---------------------------
(* Instances of AuthRefresh for TLC: model values for the goroutines and the
   management calls. *)
EXTENDS AuthRefresh
=============================================================================
