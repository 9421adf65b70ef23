--------------------------- MODULE SalaryAdvance ----------------------------
(***************************************************************************)
(* A salary advance from its submission to its repayment: the employee's,  *)
(* the employer's and the admin's requests, the gateway's webhooks and the *)
(* expiry job, all interleaved at their awaited statements.                *)
(***************************************************************************)
EXTENDS LoanApplications, Disbursals

(* The first statements of a handler. *)
Start(r, a) ==
    \/ CreateRead(r, a)
    \/ CancelRead(r, a)
    \/ EmployerApproveRead(r, a)
    \/ EmployerRejectRead(r, a)
    \/ AdminApproveRead(r, a)
    \/ AdminRejectRead(r, a)
    \/ ReadForPayment(r, a)
    \/ WaiveRead(r, a)
    \/ CreateDisbursalRead(r, a)
    \/ DisburseRead(r, a)

(* What a handler in flight does next. *)
Continue(c) ==
    \/ CheckFee(c)
    \/ CreateWrite(c)
    \/ CancelWrite(c)
    \/ EmployerApproveCheck(c)
    \/ EmployerApproveWrite(c)
    \/ EmployerRejectWrite(c)
    \/ AdminApproveWrite(c)
    \/ AdminRejectWrite(c)
    \/ LookUpOrder(c)
    \/ \E o \in Order : CreateOrder(c, o)
    \/ WaiveWrite(c)
    \/ CreateDisbursalWrite(c)
    \/ DisburseWrite(c)
    \/ ExpireWrite(c)
    \/ Abort(c)

Gateway(o) ==
    \/ EmployeePays(o)
    \/ PaymentCaptured(o)
    \/ PaymentFailed(o)
    \/ OrderLapses(o)

Next ==
    \/ \E r \in Request, a \in App : Start(r, a)
    \/ \E r \in Request, stale \in SUBSET App : ExpireRead(r, stale)
    \/ \E c \in calls : Continue(c)
    \/ \E a \in App : Pay(a)
    \/ \E o \in Order : Gateway(o)

Spec == Init /\ [][Next]_vars

(* Every handler ends; the expiry job comes back day after day, finds a    *)
(* request to run in and an application that is by then old enough, and is *)
(* not cut short for ever; the gateway repeats a webhook until it is taken.*)
Fairness ==
    /\ \A r \in Request : WF_vars(\E c \in calls : c.req = r /\ Continue(c))
    /\ \A a \in App :
        /\ SF_vars(\E r \in Request, stale \in SUBSET App :
                       a \in stale /\ ExpireRead(r, stale))
        /\ SF_vars(\E c \in calls :
                       c.op = "expire" /\ a \in c.apps /\ ExpireWrite(c))
    /\ \A o \in Order : WF_vars(PaymentCaptured(o))

FairSpec == Spec /\ Fairness

----------------------------------------------------------------------------
(* One active advance per employee (ADR 005), whatever submissions and     *)
(* late writes of stale decisions race.                                    *)
OneActiveAdvance ==
    \A a, b \in App :
        /\ EmployeeOf[a] = EmployeeOf[b]
        /\ status[a] \in ActiveStatuses /\ status[b] \in ActiveStatuses
        => a = b

(* Nothing gets behind the platform fee: an application in review, ready,  *)
(* paid out or repaid, and any disbursal, has its fee paid or waived, also *)
(* while waivers, captures and repeated approvals cross.                   *)
FeeGate ==
    \A a \in App :
        \/ status[a] \in {"EMPLOYER_APPROVED", "READY_FOR_DISBURSAL",
                          "REPAYMENT_SCHEDULED", "REPAID"}
        \/ disbursal[a] # "NONE"
        => FeeCleared(a)

(* A capture is never recorded for nothing: the fee of a CAPTURED order is *)
(* cleared, whichever of checkout, webhooks and waiver came first.         *)
CaptureClearsFee ==
    \A o \in Order : orderStatus[o] = "CAPTURED" => FeeCleared(AppOf[o])

(* Payouts keep the contract: approvals and fee first and in order, the    *)
(* payout once, its debt with it, under every interleaving.                *)
Contract == INSTANCE PayoutContract WITH
    employerOk <- employerApproved,
    feeOk <- {a \in App : FeeCleared(a)},
    adminOk <- adminApproved,
    booked <- {a \in App : repayment[a] # "NONE"}

KeepsPayoutContract == Contract!Spec

----------------------------------------------------------------------------
(* What makes the properties above inductive.                              *)

(* A handler past its fee check acts on a cleared fee. *)
CheckedCalls ==
    \A c \in calls :
        c.op \in {"adminApprove", "createDisbursal", "disburse"} /\ c.at = "write"
        => FeeCleared(c.app)

(* Each approval was given before what it permits. *)
ApprovalsFirst ==
    \A a \in App :
        /\ fee[a] # "NONE" => a \in employerApproved
        /\ status[a] = "AWAITING_PLATFORM_FEE_PAYMENT" => fee[a] # "NONE"
        /\ status[a] = "READY_FOR_DISBURSAL" => a \in adminApproved
        /\ disbursal[a] # "NONE" => a \in adminApproved

ApprovedCalls ==
    \A c \in calls :
        /\ c.op \in {"initiatePayment", "waive"} => fee[c.app] # "NONE"
        /\ c.op = "createDisbursal" => c.app \in adminApproved

(* Orders are orders of a fee, and only they are paid. *)
OrdersHaveFee ==
    /\ \A o \in Order : orderStatus[o] # "NONE" => fee[AppOf[o]] # "NONE"
    /\ \A o \in paid : orderStatus[o] # "NONE"

(* A payout is taken once, with its debt. *)
DebtWithPayout ==
    \A a \in App :
        /\ repayment[a] # "NONE" <=> disbursal[a] = "SUCCESS"
        /\ payouts[a] = IF disbursal[a] = "SUCCESS" THEN 1 ELSE 0

IInv ==
    /\ TypeOK
    /\ OneActiveAdvance /\ FeeGate /\ CaptureClearsFee
    /\ CheckedCalls /\ ApprovalsFirst /\ ApprovedCalls
    /\ OrdersHaveFee /\ DebtWithPayout

----------------------------------------------------------------------------
(* The business flow.  The last pair is what the code also does: it pays   *)
(* out an application rejected after its disbursal was created.            *)
FlowSteps ==
    ({"NONE"} \X {"SUBMITTED"})
    \cup ({"SUBMITTED"} \X {"AWAITING_PLATFORM_FEE_PAYMENT", "EMPLOYER_REJECTED",
                            "CANCELLED", "EXPIRED", "ADMIN_REJECTED"})
    \cup ({"AWAITING_PLATFORM_FEE_PAYMENT"} \X {"EMPLOYER_APPROVED", "ADMIN_REJECTED"})
    \cup ({"EMPLOYER_APPROVED"} \X {"READY_FOR_DISBURSAL", "ADMIN_REJECTED"})
    \cup ({"READY_FOR_DISBURSAL"} \X {"REPAYMENT_SCHEDULED", "ADMIN_REJECTED"})
    \cup ({"REPAYMENT_SCHEDULED"} \X {"REPAID"})
    \cup ({"ADMIN_REJECTED"} \X {"REPAYMENT_SCHEDULED"})

(* When handlers do not overlap, an application follows the flow and stays *)
(* where the flow ends.                                                    *)
FollowsFlow ==
    [][\A a \in App :
          status'[a] # status[a] => <<status[a], status'[a]>> \in FlowSteps]_vars

(* When handlers do not overlap, an application that waits for its fee can *)
(* still pay it: a fee already cleared would leave it waiting for ever.    *)
AwaitingIsPayable ==
    \A a \in App :
        status[a] = "AWAITING_PLATFORM_FEE_PAYMENT" => fee[a] = "PENDING_PAYMENT"

(* Only an application that nobody acted on expires: the job notes         *)
(* "Application expired after no action for more than 3 days"              *)
(* (business-jobs.service.ts:47).  Violated when the job overlaps the      *)
(* approval: README, section 4.                                            *)
ExpiredWasIdle == \A a \in App : status[a] = "EXPIRED" => a \notin employerApproved

(* The repayment exists and is not PAID. *)
Owed(a) == repayment[a] \notin {"NONE", "PAID"}

(* An employee never owes two advances at a time (ADR 005 read as what the *)
(* employee owes, not as what the status column says).                     *)
OneOpenDebt ==
    \A a, b \in App :
        EmployeeOf[a] = EmployeeOf[b] /\ Owed(a) /\ Owed(b) => a = b

(* Money goes out only for an application that is ready for disbursal at   *)
(* that moment.                                                            *)
OnlyReadyIsFunded ==
    [][\A a \in App :
          disbursal[a] # "SUCCESS" /\ disbursal'[a] = "SUCCESS"
          => status[a] = "READY_FOR_DISBURSAL"]_vars

(* Every submission is decided: by the employee, the employer, the admin   *)
(* or, failing them, by the expiry job.                                    *)
SubmissionIsDecided ==
    \A a \in App : status[a] = "SUBMITTED" ~> status[a] # "SUBMITTED"

(* An employee who has paid is not left waiting for the fee. *)
PaidMovesOn ==
    \A o \in Order :
        o \in paid /\ status[AppOf[o]] = "AWAITING_PLATFORM_FEE_PAYMENT"
        ~> status[AppOf[o]] # "AWAITING_PLATFORM_FEE_PAYMENT"
=============================================================================
