----------------------------- MODULE Settlements -----------------------------
(***************************************************************************)
(* The way back of the money: a repayment is paid directly or recovered    *)
(* through its employer's settlement of a month, the nightly jobs mark     *)
(* what is late, and the employer's risk status follows.                   *)
(* PayrollService, EmployerSettlementsService, RepaymentsService.pay and   *)
(* the jobs of BusinessJobsService.                                        *)
(*                                                                         *)
(* As in AdvanceStore, a handler that has read and not yet written is a    *)
(* record of calls, and a transaction is one step.                         *)
(***************************************************************************)
EXTENDS Naturals

CONSTANTS
    Employer,   \* employers
    Repayment,  \* ids of repayments rows, used or still to be used
    EmployerOf, \* the employer of the employee who owes each repayment
    Months,     \* how many months the settlements may run over
    Request     \* ids of requests and job runs: how many may be in flight

ASSUME EmployerAssumption == EmployerOf \in [Repayment -> Employer]
ASSUME MonthsAssumption == Months \in Nat \ {0}

(* The unique key of a settlement: one per employer and cycle. *)
Settlement == Employer \X (1..Months)

VARIABLES
    repayment,   \* repayments.status, "NONE" before the row exists
    due,         \* repayments whose dueDate has passed
    repaid,      \* repayments whose loan application is REPAID
    settlement,  \* employer_settlements.status, "NONE" before the row exists
    lines,       \* the repayments of a settlement's line items
    outstanding, \* the repayments that make up its outstandingAmount
    late,        \* whether its dueDate, and the grace after it, have passed
    month,       \* the current month
    risk,        \* employers.riskStatus
    calls        \* handlers between two of their statements

repaymentVars == <<repayment, repaid>>
settlementVars == <<settlement, lines, outstanding>>
clockVars == <<due, late, month>>
vars == <<repaymentVars, settlementVars, clockVars, risk, calls>>

----------------------------------------------------------------------------
RepaymentStatus == {"NONE", "SCHEDULED", "OVERDUE", "PAID"}
(* DRAFT, PARTIALLY_PAID and CANCELLED exist in the schema; nothing writes them. *)
SettlementStatus == {"NONE", "GENERATED", "OVERDUE", "PAID"}
Lateness == {"current", "due", "grace over"}
RiskStatus == {"GOOD", "WARNING", "BLOCKED"}

DisburseCall == [req : Request, op : {"disburse"}, id : Repayment]
RecoveryCall == [req : Request, op : {"recover"}, id : Settlement,
                 chosen : SUBSET Repayment]
(* updateEmployerRiskStatus: level "?" before it has read the settlements, *)
(* mark the settlement it is still to mark OVERDUE.                        *)
RiskCall == [req : Request, op : {"risk"}, id : Employer,
             level : RiskStatus \cup {"?"}, mark : SUBSET Settlement]
RepaymentJob == [req : Request, op : {"repaymentsOverdue"}, chosen : SUBSET Repayment]
SettlementJob == [req : Request, op : {"settlementsOverdue"}, chosen : SUBSET Settlement]
Call == DisburseCall \cup RecoveryCall \cup RiskCall \cup RepaymentJob \cup SettlementJob

TypeOK ==
    /\ repayment \in [Repayment -> RepaymentStatus]
    /\ due \in SUBSET Repayment
    /\ repaid \in SUBSET Repayment
    /\ settlement \in [Settlement -> SettlementStatus]
    /\ lines \in [Settlement -> SUBSET Repayment]
    /\ outstanding \in [Settlement -> SUBSET Repayment]
    /\ late \in [Settlement -> Lateness]
    /\ month \in 1..Months
    /\ risk \in [Employer -> RiskStatus]
    /\ calls \in SUBSET Call

Init ==
    /\ repayment = [p \in Repayment |-> "NONE"]
    /\ due = {} /\ repaid = {}
    /\ settlement = [s \in Settlement |-> "NONE"]
    /\ lines = [s \in Settlement |-> {}]
    /\ outstanding = [s \in Settlement |-> {}]
    /\ late = [s \in Settlement |-> "current"]
    /\ month = 1
    /\ risk = [e \in Employer |-> "GOOD"]
    /\ calls = {}

Begin(call) ==
    /\ \A c \in calls : c.req # call.req
    /\ calls' = calls \cup {call}

End(c) == calls' = calls \ {c}

Unmoved == UNCHANGED <<repaymentVars, settlementVars, clockVars, risk>>

(* A later check throws, a unique key refuses, or the server goes down. *)
Abort(c) == End(c) /\ Unmoved

----------------------------------------------------------------------------
(* disburse turns away the employees of a BLOCKED employer, and then       *)
(* schedules the repayment with the payout.                                *)
DisburseRead(r, p) ==
    /\ repayment[p] = "NONE"
    /\ risk[EmployerOf[p]] # "BLOCKED"
    /\ Begin([req |-> r, op |-> "disburse", id |-> p])
    /\ Unmoved

DisburseWrite(c) ==
    /\ c.op = "disburse"
    /\ repayment' = [repayment EXCEPT ![c.id] = IF @ = "NONE" THEN "SCHEDULED" ELSE @]
    /\ End(c)
    /\ UNCHANGED <<repaid, settlementVars, clockVars, risk>>

(* A direct payment that leaves the application where it was. *)
PayRepaymentOnly(p) ==
    /\ repayment[p] \notin {"NONE", "PAID"}
    /\ repayment' = [repayment EXCEPT ![p] = "PAID"]
    /\ UNCHANGED <<repaid, settlementVars, clockVars, risk, calls>>

(* RepaymentsService.pay: the claim and the application's REPAID are one   *)
(* transaction, which no settlement hears of.                              *)
Pay(p) ==
    /\ repayment[p] \notin {"NONE", "PAID"}
    /\ repayment' = [repayment EXCEPT ![p] = "PAID"]
    /\ repaid' = repaid \cup {p}
    /\ UNCHANGED <<settlementVars, clockVars, risk, calls>>

----------------------------------------------------------------------------
Billed == UNION {lines[s] : s \in Settlement}

(* processRecovery looks for a settlement of the current month, and for    *)
(* the employer's due SCHEDULED repayments that no settlement has yet.     *)
RecoverRead(r, e) ==
    LET chosen == {p \in Repayment : /\ EmployerOf[p] = e
                                     /\ repayment[p] = "SCHEDULED"
                                     /\ p \in due \ Billed}
    IN /\ settlement[<<e, month>>] = "NONE"
       /\ chosen # {}
       /\ Begin([req |-> r, op |-> "recover", id |-> <<e, month>>, chosen |-> chosen])
       /\ Unmoved

(* No unique key on the repayment of a line item. *)
RecoverUnguarded(c) ==
    /\ c.op = "recover"
    /\ settlement[c.id] = "NONE"
    /\ settlement' = [settlement EXCEPT ![c.id] = "GENERATED"]
    /\ lines' = [lines EXCEPT ![c.id] = c.chosen]
    /\ outstanding' = [outstanding EXCEPT ![c.id] = c.chosen]
    /\ End(c)
    /\ UNCHANGED <<repaymentVars, clockVars, risk>>

(* Its transaction inserts the settlement and its line items, each under a *)
(* unique key.                                                             *)
RecoverWrite(c) ==
    /\ c.op = "recover"
    /\ settlement[c.id] = "NONE"
    /\ c.chosen \cap Billed = {}
    /\ settlement' = [settlement EXCEPT ![c.id] = "GENERATED"]
    /\ lines' = [lines EXCEPT ![c.id] = c.chosen]
    /\ outstanding' = [outstanding EXCEPT ![c.id] = c.chosen]
    /\ End(c)
    /\ UNCHANGED <<repaymentVars, clockVars, risk>>

(* updateEmployerRiskStatus, for a request of the admin, for the daily job *)
(* and at the end of markPaid.                                             *)
RiskBegin(r, e) ==
    Begin([req |-> r, op |-> "risk", id |-> e, level |-> "?", mark |-> {}])

(* markPaid that takes what it is told of as a part of what is owed. *)
MarkPaidPartly(r, s) ==
    /\ settlement[s] \notin {"NONE", "PAID"}
    /\ settlement' = [settlement EXCEPT ![s] = "PARTIALLY_PAID"]
    /\ RiskBegin(r, s[1])
    /\ UNCHANGED <<repaymentVars, lines, outstanding, clockVars, risk>>

(* markPaid that closes only what is not late. *)
MarkPaidKeepsLate(r, s) ==
    /\ settlement[s] \notin {"NONE", "PAID"}
    /\ settlement' = [settlement EXCEPT ![s] = "PAID"]
    /\ outstanding' = [outstanding EXCEPT ![s] = {}]
    /\ repayment' = [p \in Repayment |->
                        IF p \in lines[s] /\ repayment[p] = "SCHEDULED"
                        THEN "PAID" ELSE repayment[p]]
    /\ repaid' = repaid \cup lines[s]
    /\ RiskBegin(r, s[1])
    /\ UNCHANGED <<lines, clockVars, risk>>

(* markPaid takes the settlement as paid in full: one transaction closes   *)
(* its repayments and their applications; the risk status is another.      *)
MarkPaid(r, s) ==
    /\ settlement[s] \notin {"NONE", "PAID"}
    /\ settlement' = [settlement EXCEPT ![s] = "PAID"]
    /\ outstanding' = [outstanding EXCEPT ![s] = {}]
    /\ repayment' = [p \in Repayment |-> IF p \in lines[s] THEN "PAID" ELSE repayment[p]]
    /\ repaid' = repaid \cup lines[s]
    /\ RiskBegin(r, s[1])
    /\ UNCHANGED <<lines, clockVars, risk>>

----------------------------------------------------------------------------
CheckRisk(r, e) == RiskBegin(r, e) /\ Unmoved

(* The unpaid settlements of e that are as late as one of ages. *)
Unpaid(e, ages) ==
    {s \in Settlement : /\ s[1] = e
                        /\ settlement[s] \in {"GENERATED", "OVERDUE"}
                        /\ late[s] \in ages}

AssessedAs(c, level, mark) ==
    calls' = (calls \ {c}) \cup {[c EXCEPT !.level = level, !.mark = mark]}

(* A risk that is never more than a warning. *)
RiskReadLenient(c) ==
    /\ c.op = "risk" /\ c.level = "?"
    /\ AssessedAs(c, IF Unpaid(c.id, {"due", "grace over"}) = {} THEN "GOOD" ELSE "WARNING", {})
    /\ Unmoved

(* It reads the unpaid settlements: the first it meets whose grace is over *)
(* blocks the employer and is to be marked; one past its due date warns.   *)
RiskRead(c) ==
    /\ c.op = "risk" /\ c.level = "?"
    /\ \/ \E s \in Unpaid(c.id, {"grace over"}) : AssessedAs(c, "BLOCKED", {s})
       \/ /\ Unpaid(c.id, {"grace over"}) = {}
          /\ AssessedAs(c, IF Unpaid(c.id, {"due"}) = {} THEN "GOOD" ELSE "WARNING", {})
    /\ Unmoved

(* The mark is written by id, whatever the settlement has become. *)
RiskMark(c) ==
    /\ c.op = "risk" /\ c.mark # {}
    /\ settlement' = [s \in Settlement |-> IF s \in c.mark THEN "OVERDUE" ELSE settlement[s]]
    /\ AssessedAs(c, c.level, {})
    /\ UNCHANGED <<repaymentVars, lines, outstanding, clockVars, risk>>

(* A risk status that is only ever raised. *)
RiskWriteRaises(c) ==
    /\ c.op = "risk" /\ c.level # "?" /\ c.mark = {}
    /\ risk' = [risk EXCEPT ![c.id] = IF c.level = "GOOD" THEN @ ELSE c.level]
    /\ End(c)
    /\ UNCHANGED <<repaymentVars, settlementVars, clockVars>>

RiskWrite(c) ==
    /\ c.op = "risk" /\ c.level # "?" /\ c.mark = {}
    /\ risk' = [risk EXCEPT ![c.id] = c.level]
    /\ End(c)
    /\ UNCHANGED <<repaymentVars, settlementVars, clockVars>>

----------------------------------------------------------------------------
(* markRepaymentsOverdue lists the due repayments not PAID nor yet OVERDUE *)
RepaymentsOverdueRead(r) ==
    LET chosen == {p \in due : repayment[p] \notin {"PAID", "OVERDUE"}} IN
    /\ chosen # {}
    /\ Begin([req |-> r, op |-> "repaymentsOverdue", chosen |-> chosen])
    /\ Unmoved

(* ... and writes OVERDUE to those ids. *)
RepaymentsOverdueWrite(c) ==
    /\ c.op = "repaymentsOverdue"
    /\ repayment' = [p \in Repayment |-> IF p \in c.chosen THEN "OVERDUE" ELSE repayment[p]]
    /\ End(c)
    /\ UNCHANGED <<repaid, settlementVars, clockVars, risk>>

(* A settlement job that does not leave out what is paid. *)
SettlementsOverdueAnyRead(r) ==
    LET chosen == {s \in Settlement : settlement[s] \notin {"NONE", "OVERDUE"}
                                      /\ late[s] # "current"} IN
    /\ chosen # {}
    /\ Begin([req |-> r, op |-> "settlementsOverdue", chosen |-> chosen])
    /\ Unmoved

(* markSettlementsOverdue, in the same way. *)
SettlementsOverdueRead(r) ==
    LET chosen == {s \in Settlement : settlement[s] = "GENERATED" /\ late[s] # "current"} IN
    /\ chosen # {}
    /\ Begin([req |-> r, op |-> "settlementsOverdue", chosen |-> chosen])
    /\ Unmoved

SettlementsOverdueWrite(c) ==
    /\ c.op = "settlementsOverdue"
    /\ settlement' = [s \in Settlement |-> IF s \in c.chosen THEN "OVERDUE" ELSE settlement[s]]
    /\ End(c)
    /\ UNCHANGED <<repaymentVars, lines, outstanding, clockVars, risk>>

----------------------------------------------------------------------------
(* Time. *)
FallsDue(p) ==
    /\ repayment[p] # "NONE" /\ p \notin due
    /\ due' = due \cup {p}
    /\ UNCHANGED <<repaymentVars, settlementVars, late, month, risk, calls>>

Ages(s) ==
    /\ settlement[s] # "NONE" /\ late[s] # "grace over"
    /\ late' = [late EXCEPT ![s] = IF @ = "current" THEN "due" ELSE "grace over"]
    /\ UNCHANGED <<repaymentVars, settlementVars, due, month, risk, calls>>

MonthPasses ==
    /\ month < Months
    /\ month' = month + 1
    /\ UNCHANGED <<repaymentVars, settlementVars, due, late, risk, calls>>

----------------------------------------------------------------------------
Continue(c) ==
    \/ DisburseWrite(c)
    \/ RecoverWrite(c)
    \/ RiskRead(c)
    \/ RiskMark(c)
    \/ RiskWrite(c)
    \/ RepaymentsOverdueWrite(c)
    \/ SettlementsOverdueWrite(c)
    \/ Abort(c)

Next ==
    \/ \E r \in Request, p \in Repayment : DisburseRead(r, p)
    \/ \E r \in Request, e \in Employer : RecoverRead(r, e) \/ CheckRisk(r, e)
    \/ \E r \in Request, s \in Settlement : MarkPaid(r, s)
    \/ \E r \in Request : RepaymentsOverdueRead(r) \/ SettlementsOverdueRead(r)
    \/ \E c \in calls : Continue(c)
    \/ \E p \in Repayment : Pay(p) \/ FallsDue(p)
    \/ \E s \in Settlement : Ages(s)
    \/ MonthPasses

Spec == Init /\ [][Next]_vars

(* The jobs come back every night and the admin every month: each finds a  *)
(* request to run in, and is not cut short for ever.  Nobody has to pay.   *)
Fairness ==
    /\ \A r \in Request : WF_vars(\E c \in calls : c.req = r /\ Continue(c))
    /\ \A e \in Employer :
        /\ SF_vars(\E r \in Request : RecoverRead(r, e))
        /\ SF_vars(\E c \in calls : c.op = "recover" /\ c.id[1] = e /\ RecoverWrite(c))
        /\ SF_vars(\E r \in Request : CheckRisk(r, e))
        /\ SF_vars(\E c \in calls : c.op = "risk" /\ c.id = e /\ RiskRead(c))
        /\ SF_vars(\E c \in calls : c.op = "risk" /\ c.id = e /\ RiskMark(c))
        /\ SF_vars(\E c \in calls : c.op = "risk" /\ c.id = e /\ RiskWrite(c))

FairSpec == Spec /\ Fairness

----------------------------------------------------------------------------
(* A repayment is recovered through one settlement at most, when recovery  *)
(* runs of one month or of two race.                                       *)
BilledOnce ==
    \A s, t \in Settlement : lines[s] \cap lines[t] # {} => s = t

(* What is paid, directly or through its settlement, has its application   *)
(* REPAID, whatever a late nightly job writes over it; otherwise the       *)
(* employee could never ask for an advance again.                          *)
PaidIsRepaid ==
    /\ \A p \in Repayment : repayment[p] = "PAID" => p \in repaid
    /\ \A s \in Settlement : settlement[s] = "PAID" => lines[s] \subseteq repaid

(* When handlers do not overlap, a settlement that is PAID has all its     *)
(* repayments PAID, late ones too.                                         *)
SettlementCloses ==
    \A s \in Settlement : settlement[s] = "PAID" =>
        \A p \in lines[s] : repayment[p] = "PAID"

(* When handlers do not overlap, a settlement that is PAID stays so: no    *)
(* job and no risk assessment opens it again.                              *)
StaysPaid ==
    [][\A s \in Settlement : settlement[s] = "PAID" => settlement'[s] = "PAID"]_vars

(* An employer whose settlement stays unpaid past its grace is blocked.    *)
LateIsBlocked ==
    \A s \in Settlement :
        settlement[s] \notin {"NONE", "PAID"} /\ late[s] = "grace over"
        ~> risk[s[1]] = "BLOCKED" \/ settlement[s] = "PAID"

(* An employer with nothing left to pay does not stay under suspicion.     *)
RiskClears ==
    \A e \in Employer :
        <>[](\A s \in Settlement : s[1] = e => settlement[s] \in {"NONE", "PAID"})
        => <>[](risk[e] = "GOOD")

(* The route's own description: "Find all due repayments for employer",    *)
(* create the settlement.                                                  *)
DueIsRecovered ==
    \A p \in Repayment :
        p \in due ~> p \in Billed \/ repayment[p] = "PAID"

(* pay "marks repayment as completed": from then on it is PAID.            *)
CompletedIsFinal ==
    [][\A p \in Repayment : repayment[p] = "PAID" => repayment'[p] = "PAID"]_vars

(* The schema's description of outstandingAmount: decremented as payments  *)
(* are received.                                                           *)
OutstandingIsOwed ==
    \A s \in Settlement : \A p \in outstanding[s] : repayment[p] # "PAID"
=============================================================================
