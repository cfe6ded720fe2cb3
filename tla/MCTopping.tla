------------------------------ MODULE MCTopping ------------------------------
(* Small instances of Topping for TLC.                                      *)
EXTENDS Topping, TLC
=============================================================================
