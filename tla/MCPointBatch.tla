----------------------------- MODULE MCPointBatch -----------------------------
(***************************************************************************)
(* PointBatch for TLC: P = 1291 and a curve of 1303 points.  The scalars   *)
(* lie below and around the order and around twice the order, so that sums *)
(* meet the base point, its opposite and infinity.                         *)
(***************************************************************************)
EXTENDS PointBatch

Base == <<1, 2>>

Keys == (0..300) \union (1280..1330) \union (2600..2612)

\* The table's multiples and the jump, and others below the order.
Tabled == (1..100) \union (1234..1302)
===============================================================================
