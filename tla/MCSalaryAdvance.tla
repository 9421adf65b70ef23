-------------------------- MODULE MCSalaryAdvance ---------------------------
(***************************************************************************)
(* SalaryAdvance for TLC: every application is one employee's, and the     *)
(* orders are one for each application or all for the first.               *)
(***************************************************************************)
EXTENDS SalaryAdvance, TLC

CONSTANTS e1, a1, a2, o1, o2

OneEmployee == [a \in App |-> e1]
AnOrderEach == (o1 :> a1) @@ (o2 :> a2)
BothOrdersOfOne == (o1 :> a1) @@ (o2 :> a1)
OneOrder == (o1 :> a1)

Swap == (a1 :> a2) @@ (a2 :> a1) @@ (o1 :> o2) @@ (o2 :> o1)
Symmetry == Permutations(Request) \cup {Swap}
=============================================================================
