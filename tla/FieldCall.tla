------------------------------- MODULE FieldCall -------------------------------
(***************************************************************************)
(* One call of a field operation of the kernel or of the host on any       *)
(* operands, against what its comment promises.                            *)
(***************************************************************************)
EXTENDS FieldMath

CONSTANT Tried   \* the operands tried

ASSUME TriedAssumption == Tried \subseteq Number

VARIABLES
  op,        \* the operation called, or "none"
  a, b, c,   \* its operands
  r          \* what it returned

vars == <<op, a, b, c, r>>

Init ==
  /\ op = "none" /\ r = 0
  /\ a \in Tried /\ b \in Tried /\ c \in Tried

\* An operand the operation does not take is 0.
Return(name, value) ==
  /\ op = "none" /\ op' = name
  /\ name = "neg" => b = 0
  /\ name # "sub3" => c = 0
  /\ r' = value
  /\ UNCHANGED <<a, b, c>>

Neg     == Return("neg", neg_mod(a))
Add     == Return("add", add_mod(a, b))
Sub     == Return("sub", sub_mod(a, b))
Sub3    == Return("sub3", sub_mod3(a, b, c))
Prefix  == Return("prefix", sub_mod_is_odd_prefix(a, b))
HostAdd == Return("AddModP", AddModP(a, b))
HostSub == Return("SubModP", SubModP(a, b))
HostMul == Return("MulModP", MulModP(a, b))
Over    == op # "none" /\ UNCHANGED vars

Next == Neg \/ Add \/ Sub \/ Sub3 \/ Prefix
        \/ HostAdd \/ HostSub \/ HostMul \/ Over

Spec == Init /\ [][Next]_vars

-------------------------------------------------------------------------------
(* Properties                                                              *)

\* What the comments promise: the operation on the integers, modulo P.
Ideal ==
  CASE op \in {"add", "AddModP"} -> a + b
    [] op \in {"sub", "SubModP"} -> a - b
    [] op = "sub3" -> a - b - c

Additive == {"add", "sub", "sub3", "AddModP", "SubModP"}

\* The sums and differences of the kernel and of the host are exact: one conditional correction is
\* enough, although sub_mod3 subtracts twice. The first operand may be a product mul_mod left
\* unreduced, and then so may the result be; the kernel passes products in that place only.
SumsAreExact ==
  (op \in Additive /\ b \in Residue /\ c \in Residue) =>
    /\ (r - Ideal) % P = 0
    /\ a \in Residue => r \in Residue

\* On reduced operands the prefix byte is the parity of the reduced difference.
PrefixIsParity ==
  (op = "prefix" /\ a \in Residue /\ b \in Residue) => r = 2 + (((a - b) % P) % 2)

\* MulModP keeps every carry: its result is congruent to the product and fits four limbs.
HostProductCongruent ==
  op = "MulModP" => r \in Number /\ (r - (a * b)) % P = 0
===============================================================================
