---------------------------- MODULE MCLendingOffice ----------------------------
(* Small offices for TLC.  Ids of different kinds share their names. *)
EXTENDS LendingOffice, TLC

(* A cap below and one above its ceiling; for the stale terms, two below.  *)
MCRules == {[cap |-> 1, ceiling |-> 2], [cap |-> 3, ceiling |-> 2]}
CapsBelow == {[cap |-> 1, ceiling |-> 2], [cap |-> 3, ceiling |-> 3]}

(* January to August; paydays at the end, the beginning and past the end of *)
(* a month, cutoffs before and after them.                                  *)
MCFirstDay == <<1, 32, 60, 91, 121, 152, 182, 213, 244>>
MCPayroll == {[date |-> 28, cutoff |-> 22], [date |-> 30, cutoff |-> 31],
              [date |-> 31, cutoff |-> 15], [date |-> 5, cutoff |-> 22]}

(* 500 000.3 paise are free of interest; 36 % a year, 1.25 % or 1.255 %,   *)
(* and 18 %, with ten parts to a decimal place.                            *)
MCTerms == [threshold : {5000003}, annualRate : {36000}, feeRate : {1250, 1255}, gstRate : {18000}]

Symmetry ==
    Permutations(Request) \cup Permutations(Version) \cup Permutations(RequiredKyc)
        \cup Permutations(Details)
=============================================================================
