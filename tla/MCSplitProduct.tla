---------------------------- MODULE MCSplitProduct ----------------------------
(***************************************************************************)
(* SplitProduct for TLC.  Words hold 0 .. 2, the smallest W for which a    *)
(* product of two words has a high word.                                   *)
(***************************************************************************)
EXTENDS SplitProduct

\* Eight-word operands: even words alike, odd words alike, and one word of the rest apart.
Striped ==
  {[[k \in 0..N-1 |-> IF k % 2 = 0 THEN x ELSE y] EXCEPT ![m] = z] :
     x, y \in {1, W-1}, z \in 0..W-1, m \in {1, N-2, N-1}}
===============================================================================
