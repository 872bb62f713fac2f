------------------------------- MODULE MCHost -------------------------------
(* Model-checking instance of Host. *)
EXTENDS Host, TLC
=============================================================================
