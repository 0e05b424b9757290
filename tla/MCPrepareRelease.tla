--------------------------- MODULE MCPrepareRelease ---------------------------
(***************************************************************************)
(* KernelLaunch for TLC: three GPUs, so that a failing one can stand       *)
(* between two that succeed.                                               *)
(***************************************************************************)
EXTENDS KernelLaunch
===============================================================================
