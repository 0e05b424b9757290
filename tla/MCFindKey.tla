------------------------------ MODULE MCFindKey -------------------------------
(***************************************************************************)
(* FindKey for TLC.  Two GPUs are enough for every interaction of main     *)
(* with "this worker" and "another worker"; the invariants are proved for  *)
(* any number of them.                                                     *)
(***************************************************************************)
EXTENDS FindKeyProofs
===============================================================================
