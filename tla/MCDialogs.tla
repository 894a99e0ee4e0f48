------------------------------ MODULE MCDialogs ------------------------------
(* Instances of Dialogs for TLC: the bounds are given in the configuration. *)
EXTENDS Dialogs
==============================================================================
