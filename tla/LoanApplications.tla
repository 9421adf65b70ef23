-------------------------- MODULE LoanApplications --------------------------
(***************************************************************************)
(* LoanApplicationsService and the expiry cron of BusinessJobsService.     *)
(* Every decision reads the application, checks its status, and then       *)
(* writes by id: the write does not look at the status again.              *)
(***************************************************************************)
EXTENDS PlatformFees

Untouched == UNCHANGED <<appVars, fee, orderVars, payoutVars>>
OnlyStatus == UNCHANGED <<employerApproved, adminApproved, fee, orderVars, payoutVars>>

(* A decision on an application read in one of the statuses from. *)
Read(r, op, a, from, at) ==
    /\ status[a] \in from
    /\ BeginOn(r, op, a, at)
    /\ Untouched

(* Its write, when nothing but the status is of interest. *)
Decide(c, op, to) ==
    /\ At(c, op, "write")
    /\ SetStatus(c.app, to)
    /\ End(c)
    /\ OnlyStatus

----------------------------------------------------------------------------
(* EligibilityService.check: no application of the employee is active.     *)
(* KYC, bank account, product, cooldown and limits read other tables and   *)
(* only refuse.                                                            *)
Eligible(e) == \A b \in App : EmployeeOf[b] = e => status[b] \notin ActiveStatuses

(* create checks eligibility, under a fresh id for the row to come, ...    *)
CreateRead(r, a) ==
    /\ \A c \in calls : c.op = "create" => c.app # a
    /\ Eligible(EmployeeOf[a])
    /\ Read(r, "create", a, {"NONE"}, "write")

(* ... and inserts the row; a racing submission is left to the index.      *)
CreateWrite(c) == Decide(c, "create", "SUBMITTED")

CancelRead(r, a) == Read(r, "cancel", a, {"SUBMITTED"}, "write")
CancelWrite(c) == Decide(c, "cancel", "CANCELLED")

EmployerRejectRead(r, a) == Read(r, "employerReject", a, {"SUBMITTED"}, "write")
EmployerRejectWrite(c) == Decide(c, "employerReject", "EMPLOYER_REJECTED")

----------------------------------------------------------------------------
(* An approval that may be given again to what is already in review. *)
EmployerApprovesAgain(r, a) ==
    Read(r, "employerApprove", a, {"SUBMITTED", "EMPLOYER_APPROVED"}, "check")

EmployerApproveRead(r, a) == Read(r, "employerApprove", a, {"SUBMITTED"}, "check")

InProgressStatuses == ActiveStatuses \ {"SUBMITTED"}

(* No other application of the employee is in progress. *)
EmployerApproveCheck(c) ==
    /\ At(c, "employerApprove", "check")
    /\ \A b \in App \ {c.app} :
          EmployeeOf[b] = EmployeeOf[c.app] => status[b] \notin InProgressStatuses
    /\ GoOn(c, "write")
    /\ Untouched

(* One transaction: the approval and the fee that comes with it. *)
EmployerApproveWrite(c) ==
    /\ At(c, "employerApprove", "write")
    /\ SetStatus(c.app, "AWAITING_PLATFORM_FEE_PAYMENT")
    /\ employerApproved' = employerApproved \cup {c.app}
    /\ fee' = FeeEnsured(c.app)
    /\ End(c)
    /\ UNCHANGED <<adminApproved, orderVars, payoutVars>>

(* bulkAction starts its decisions together: each is a call of its own,    *)
(* and an id may be listed twice.                                          *)

----------------------------------------------------------------------------
(* An approval by the admin that takes what the employer has approved. *)
AdminApprovesUnpaid(r, a) ==
    Read(r, "adminApprove", a,
         {"AWAITING_PLATFORM_FEE_PAYMENT", "EMPLOYER_APPROVED"}, "write")

AdminApproveRead(r, a) == Read(r, "adminApprove", a, {"EMPLOYER_APPROVED"}, "fee")

AdminApproveWrite(c) ==
    /\ At(c, "adminApprove", "write")
    /\ SetStatus(c.app, "READY_FOR_DISBURSAL")
    /\ adminApproved' = adminApproved \cup {c.app}
    /\ End(c)
    /\ UNCHANGED <<employerApproved, fee, orderVars, payoutVars>>

(* Any application still open, paid out or not. *)
RejectableWhileOpen == ActiveStatuses

RejectableStatuses ==
    {"SUBMITTED", "AWAITING_PLATFORM_FEE_PAYMENT", "EMPLOYER_APPROVED",
     "READY_FOR_DISBURSAL"}

AdminRejectRead(r, a) == Read(r, "adminReject", a, RejectableStatuses, "write")
AdminRejectWrite(c) == Decide(c, "adminReject", "ADMIN_REJECTED")

----------------------------------------------------------------------------
(* An expiry job that looks for the applications waiting for their fee. *)
ExpiresAwaiting(r, stale) ==
    /\ stale # {}
    /\ \A a \in stale : status[a] = "AWAITING_PLATFORM_FEE_PAYMENT"
    /\ Begin([req |-> r, op |-> "expire", apps |-> stale])
    /\ Untouched

(* The expiry job lists the applications submitted more than three days    *)
(* ago - any of those still SUBMITTED, the clock being free - ...          *)
ExpireRead(r, stale) ==
    /\ stale # {}
    /\ \A a \in stale : status[a] = "SUBMITTED"
    /\ Begin([req |-> r, op |-> "expire", apps |-> stale])
    /\ Untouched

(* ... and expires those ids in one transaction. *)
ExpireWrite(c) ==
    /\ c.op = "expire"
    /\ status' = [a \in App |-> IF a \in c.apps THEN "EXPIRED" ELSE status[a]]
    /\ End(c)
    /\ OnlyStatus
=============================================================================
