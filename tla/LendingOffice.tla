---------------------------- MODULE LendingOffice ----------------------------
(***************************************************************************)
(* What has to be settled before an advance can be lent: the employee's    *)
(* documents and bank account, the terms, the number of the application    *)
(* and the cost and the day of its repayment, a desk each.  A column that  *)
(* one desk reads and the handlers of another write (isEnabled, the status *)
(* of the application) moves freely in the desk that reads it.  So         *)
(* whatever a desk does while all of them are at work it also does alone:  *)
(* a behaviour of this module is one of a single desk, with the others at  *)
(* rest in an initial state.                                               *)
(***************************************************************************)
EXTENDS EmployeeSetup, LendingTerms, ApplicationNumbers, RepaymentTerms

CONSTANT Desks \* the desks that may be at work

ASSUME DesksAssumption == Desks \subseteq {"setup", "terms", "numbers", "repayment"}

VARIABLE desk \* the one at work

vars == <<desk, calls, setupVars, termsVars, numberVars, repaymentVars>>

----------------------------------------------------------------------------
(* The desks whose initial states differ rest in one of them. *)
Resting ==
    /\ desk # "terms" => \A v \in active : rules[v] = {CHOOSE rule \in Rules : TRUE}
    /\ desk # "numbers" => imported = (CHOOSE n \in Imported : TRUE)
    /\ desk # "repayment" => today = 1 /\ payroll = (CHOOSE p \in Payroll : TRUE)

Init ==
    /\ desk \in Desks
    /\ SetupInit /\ TermsInit /\ NumbersInit /\ RepaymentInit
    /\ Resting

(* The work of each desk, which leaves the rows of the others alone. *)
SetupDesk ==
    /\ desk = "setup"
    /\ SetupNext
    /\ UNCHANGED <<desk, termsVars, numberVars, repaymentVars>>

TermsDesk ==
    /\ desk = "terms"
    /\ TermsNext
    /\ UNCHANGED <<desk, setupVars, numberVars, repaymentVars>>

NumbersDesk ==
    /\ desk = "numbers"
    /\ NumbersNext
    /\ UNCHANGED <<desk, setupVars, termsVars, repaymentVars>>

RepaymentDesk ==
    /\ desk = "repayment"
    /\ RepaymentNext
    /\ UNCHANGED <<desk, setupVars, termsVars, numberVars>>

Next == SetupDesk \/ TermsDesk \/ NumbersDesk \/ RepaymentDesk

Spec == Init /\ [][Next]_vars

----------------------------------------------------------------------------
(* The state of every desk keeps its type, and the handlers in flight are  *)
(* those of the desk at work.                                              *)
TypeOK ==
    /\ desk = "setup" => SetupTypeOK
    /\ desk = "terms" => TermsTypeOK
    /\ desk = "numbers" => NumbersTypeOK
    /\ desk = "repayment" => RepaymentTypeOK
==============================================================================
