---------------------- MODULE MCFirstAvailableModel ----------------------
(* An instance of FirstAvailableModel for TLC. *)
EXTENDS FirstAvailableModel
=============================================================================
