----------------------------- MODULE MCTestKernel -----------------------------
(***************************************************************************)
(* TestKernel for TLC: two warps of two lanes, so that a match in one lane *)
(* meets a match in its own warp and in the other one.                     *)
(***************************************************************************)
EXTENDS TestKernel

Offsets == 0 .. Warps*WarpSize*BatchesPerThread*B - 1

\* No match, up to two anywhere, or a few chosen ones.
None    == {{}}
Few     == {{}, {1, 14}}
UpToTwo == {{}} \union {{o, p} : o, p \in Offsets}
===============================================================================
