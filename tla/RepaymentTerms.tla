---------------------------- MODULE RepaymentTerms -----------------------------
(***************************************************************************)
(* When an advance is recovered and what it costs.  PricingService freezes *)
(* a snapshot when the employee applies, after a preview, and computes the *)
(* repayment from it when the advance is disbursed, days later;            *)
(* EligibilityService asks PayrollUtil for the payroll cycle of the same   *)
(* request.  A day is its number from the first day of the calendar, as    *)
(* JavaScript's Date carries a day past the end of its month into the      *)
(* next; money is in paise.                                                *)
(***************************************************************************)
EXTENDS Handlers, Integers, Sequences, FiniteSets

CONSTANTS
    FirstDay,  \* the first day of each month of the calendar, in order
    Payroll,   \* employers' settings: payrollDate and payrollCutoffDate
    Terms,     \* thresholds and rates, as below
    Parts,     \* parts of a column's last decimal place they are given in
    Principal, \* amounts an employee may ask for, in paise
    MaxDelay   \* bound on the days between application and disbursal

(* payrollDate and payrollCutoffDate are 1 to 31 and independent           *)
(* (CreateEmployerDto).  Threshold and rates may have more decimals than   *)
(* their columns keep - the pricing rules are free JSON, and a threshold   *)
(* is min(salary * percentage, cap) - and are in Parts of the last place   *)
(* of these: of a paisa, of 0.01 % a year, and of 0.0001 for fee and tax.  *)
ASSUME PayrollAssumption == Payroll \subseteq [date : 1..31, cutoff : 1..31]
ASSUME RatesAssumption ==
    /\ Terms \subseteq [threshold : Nat, annualRate : Nat, feeRate : Nat, gstRate : Nat]
    /\ Parts \in Nat \ {0}
ASSUME CalendarAssumption ==
    /\ FirstDay \in Seq(Nat) /\ Len(FirstDay) > 3 /\ FirstDay[1] = 1
    /\ \A m \in 1..Len(FirstDay) - 1 : FirstDay[m + 1] - FirstDay[m] \in 28..31
    /\ Principal \subseteq Nat \ {0} /\ MaxDelay \in Nat

VARIABLES
    today,   \* the day it is
    payroll, \* the employer's payroll settings
    advance  \* the application, as the set of its one row: what was shown and frozen

repaymentVars == <<today, payroll, advance>>

----------------------------------------------------------------------------
(* The calendar.  Requests are made in all months but the last three, so   *)
(* that every date a request leads to is in it.                            *)
MonthOf(day) == CHOOSE m \in 1..Len(FirstDay) - 1 : day \in FirstDay[m]..FirstDay[m + 1] - 1
DayOf(day) == day - FirstDay[MonthOf(day)] + 1
LengthOf(m) == FirstDay[m + 1] - FirstDay[m]

LastRequestDay == FirstDay[Len(FirstDay) - 3] - 1

(* resolveRecoveryDate: new Date(year, month or month + 1, payrollDay). *)
RecoveryAfterCutoff(day, p) == \* the cutoff day still counts for this month
    FirstDay[IF DayOf(day) <= p.cutoff THEN MonthOf(day) ELSE MonthOf(day) + 1] + p.date - 1

RecoveryDate(day, p) ==
    FirstDay[IF DayOf(day) < p.cutoff THEN MonthOf(day) ELSE MonthOf(day) + 1] + p.date - 1

(* calculateDueDate: setMonth(month + 1) keeps the day, and so may skip a  *)
(* shorter month; then setDate(payrollDate).                               *)
DueDate(day, p) ==
    LET moved == IF DayOf(day) < p.cutoff THEN day
                 ELSE FirstDay[MonthOf(day) + 1] + DayOf(day) - 1
    IN  FirstDay[MonthOf(moved)] + p.date - 1

(* The days as they are counted. *)
DaysUnbounded(from, to) == to - from

(* daysBetween: at least one day.  The request's time of day rounds up. *)
DaysBetween(from, to) == IF to - from >= 1 THEN to - from ELSE 1

----------------------------------------------------------------------------
(* toDecimalPlaces(2) and a column of two decimals round half up. *)
Round(n, d) == (2 * n + d) \div (2 * d)
Least(x, y) == IF x <= y THEN x ELSE y

(* computeRepaymentBreakdown *)
RepaymentBreakdown(principal, s) ==
    LET interestFree  == Round(Least(Parts * principal, s.threshold), Parts)
        bearing       == principal - interestFree
        interest      == Round(bearing * s.annualRate * s.days, 3650000 * Parts)
        processingFee == Round(principal * s.feeRate, 10000 * Parts)
        gst           == Round((interest + processingFee) * s.gstRate, 10000 * Parts)
    IN  [interestFree |-> interestFree, bearing |-> bearing, interest |-> interest,
         processingFee |-> processingFee, gst |-> gst,
         total |-> principal + interest + processingFee + gst]

(* computeSnapshot *)
SnapshotOf(day, p, t) ==
    [threshold |-> t.threshold, annualRate |-> t.annualRate, feeRate |-> t.feeRate,
     gstRate |-> t.gstRate, days |-> DaysBetween(day, RecoveryDate(day, p)),
     recovery |-> RecoveryDate(day, p)]

(* The snapshot's columns: Decimal(12, 2) for the threshold, Decimal(5, 2) *)
(* and Decimal(5, 4) for the rates.                                        *)
Column(n) == Parts * Round(n, Parts)

Stored(s) == [s EXCEPT !.threshold = Column(@), !.annualRate = Column(@),
                       !.feeRate = Column(@), !.gstRate = Column(@)]

(* Rates that their columns hold as they are. *)
ExactRates(t) == \A rate \in {t.annualRate, t.feeRate, t.gstRate} : Column(rate) = rate

----------------------------------------------------------------------------
Snapshot == [threshold : Nat, annualRate : Nat, feeRate : Nat, gstRate : Nat, days : Nat \ {0},
             recovery : Nat]

Offer == [day : Nat, principal : Principal, terms : Terms, snapshot : Snapshot,
          cycle : 1..Len(FirstDay), shown : Nat, approved : Principal \cup {0}, owed : Nat]

RepaymentTypeOK ==
    /\ today \in 1..LastRequestDay + MaxDelay
    /\ payroll \in Payroll
    /\ advance \in SUBSET Offer /\ Cardinality(advance) <= 1
    /\ \A a \in advance : a.day \in 1..today
    /\ calls = {}

RepaymentInit ==
    /\ today \in 1..LastRequestDay
    /\ payroll \in Payroll
    /\ advance = {}
    /\ calls = {}

(* A day passes. *)
NextDay ==
    /\ IF advance = {} THEN today < LastRequestDay
       ELSE \A a \in advance : a.owed = 0 /\ today < a.day + MaxDelay
    /\ today' = today + 1
    /\ UNCHANGED <<payroll, advance, calls>>

(* The employee looks at the preview and applies on the same day: create   *)
(* counts the request in the cycle of calculateDueDate, which its          *)
(* eligibility check looks at, and freezes the snapshot.                   *)
Submit(principal, t) ==
    /\ advance = {}
    /\ LET s == SnapshotOf(today, payroll, t)
       IN  advance' = {[day |-> today, principal |-> principal, terms |-> t,
                        snapshot |-> Stored(s),
                        cycle |-> MonthOf(DueDate(today, payroll)),
                        shown |-> RepaymentBreakdown(principal, s).total,
                        approved |-> 0, owed |-> 0]}
    /\ UNCHANGED <<today, payroll, calls>>

(* The disbursal, of the amount that was approved, from the frozen columns. *)
DisburseRecomputed(a, amount) == \* counts the days from the disbursal
    /\ a.owed = 0 /\ amount <= a.principal
    /\ advance' = {[a EXCEPT !.approved = amount,
           !.owed = RepaymentBreakdown(amount,
               [a.snapshot EXCEPT !.days = DaysBetween(today, a.snapshot.recovery)]).total]}
    /\ UNCHANGED <<today, payroll, calls>>

Disburse(a, amount) ==
    /\ a.owed = 0 /\ amount <= a.principal
    /\ advance' = {[a EXCEPT !.approved = amount,
                             !.owed = RepaymentBreakdown(amount, a.snapshot).total]}
    /\ UNCHANGED <<today, payroll, calls>>

RepaymentNext ==
    \/ NextDay
    \/ \E principal \in Principal, t \in Terms : Submit(principal, t)
    \/ \E a \in advance, amount \in Principal : Disburse(a, amount)

RepaymentSpec == RepaymentInit /\ [][RepaymentNext]_<<repaymentVars, calls>>

----------------------------------------------------------------------------
(* At rates that their columns hold, an advance never costs more than the  *)
(* preview showed, and exactly that when it is approved as asked for,      *)
(* however long the disbursal takes and although the threshold and every   *)
(* step of the calculation are rounded ("Must never be called again at     *)
(* disbursal - use the frozen DB values instead", pricing.service.ts:60).  *)
QuoteKept ==
    \A a \in advance : ExactRates(a.terms) /\ a.approved # 0 =>
        a.owed <= a.shown /\ (a.approved = a.principal => a.owed = a.shown)

(* At any rates, an advance approved as asked for costs what the preview   *)
(* showed: "The returned object maps 1-to-1 to LoanApplication snapshot    *)
(* columns." (pricing.service.ts:59).  Violated: README, section 4.        *)
QuoteAlwaysKept == \A a \in advance : a.approved = a.principal => a.owed = a.shown

(* The two calendars agree: the cycle a request counts in is that of its   *)
(* recovery, unless the next month is too short to have the request's day  *)
(* (calculateDueDate and resolveRecoveryDate).                             *)
CyclesAgree ==
    \A a \in advance :
        DayOf(a.day) <= LengthOf(MonthOf(a.day) + 1) => a.cycle = MonthOf(a.snapshot.recovery)

(* A request is never due before it is made, for an employer whose cutoff  *)
(* is at most the day after payday (resolveRecoveryDate).                  *)
NeverDueBefore ==
    \A a \in advance : payroll.cutoff <= payroll.date + 1 => a.day <= a.snapshot.recovery
=============================================================================
