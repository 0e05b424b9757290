----------------------------- MODULE MCFieldUnit ------------------------------
(***************************************************************************)
(* FieldUnit for TLC, on numbers of six words of 0 .. 3: the numbers near  *)
(* 0, K, half of R, P and R, and operands whose words make the longest     *)
(* carry chains.                                                           *)
(***************************************************************************)
EXTENDS FieldUnit

Near(n) == (n-3 .. n+3) \intersect Number

Edges == UNION {Near(n) : n \in {0, K, 2*K, R \div 2, P, R}}

\* Even words alike, odd words alike, and one word of the rest apart.
Striped ==
  {[[k \in 0..N-1 |-> IF k % 2 = 0 THEN y ELSE z] EXCEPT ![n] = w] :
     y, z \in {1, W-1}, w \in 0..W-1, n \in {1, N-2, N-1}}
===============================================================================
