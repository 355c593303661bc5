------------------------------ MODULE MCRunGroup ------------------------------
(***************************************************************************)
(* The TLC instance of RunGroup, which has no parameters.                  *)
(***************************************************************************)
EXTENDS RunGroup
=============================================================================
