---------------------------- MODULE MCSettlements ----------------------------
(***************************************************************************)
(* Settlements for TLC: every repayment is of one employer's employees.    *)
(***************************************************************************)
EXTENDS Settlements, TLC

CONSTANTS m1

OneEmployer == [p \in Repayment |-> m1]

Symmetry == Permutations(Request) \cup Permutations(Repayment)
=============================================================================
