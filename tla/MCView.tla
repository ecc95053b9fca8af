------------------------------- MODULE MCView -------------------------------
(* Instances of UserView, that is of TZ with its history, for TLC. *)
EXTENDS UserView, MCTZ
=============================================================================
