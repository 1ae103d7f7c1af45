--------------------------- MODULE MCCustomerApp ---------------------------
(***************************************************************************)
(* An instance of CustomerApp.  Its keys are drawn at random and compared  *)
(* for equality only.                                                      *)
(***************************************************************************)
EXTENDS CustomerApp, TLC

Alike == Permutations(Order)
=============================================================================
