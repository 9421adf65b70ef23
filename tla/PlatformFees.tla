---------------------------- MODULE PlatformFees ----------------------------
(***************************************************************************)
(* PlatformFeesService: the fee an employee pays once the employer has     *)
(* approved, the gateway orders that collect it, and the webhooks that     *)
(* report what happened to an order.                                       *)
(***************************************************************************)
EXTENDS AdvanceStore

Cleared == {"PAID", "WAIVED"}

(* isFeeCleared *)
FeeCleared(a) == fee[a] \in Cleared

(* adminApprove, and create and disburse of the disbursals, ask whether the *)
(* fee is cleared in a statement of its own before they write.             *)
CheckFee(c) ==
    /\ c.op # "expire" /\ c.at = "fee"
    /\ FeeCleared(c.app)
    /\ GoOn(c, "write")
    /\ UNCHANGED <<appVars, fee, orderVars, payoutVars>>

(* A version of ensureFee that starts the fee over. *)
FeeStartedOver(a) == [fee EXCEPT ![a] = "PENDING_PAYMENT"]

(* ensureFeeForApplication: the fee row is created once and then kept. *)
FeeEnsured(a) ==
    IF fee[a] = "NONE" THEN [fee EXCEPT ![a] = "PENDING_PAYMENT"] ELSE fee

----------------------------------------------------------------------------
(* initiatePayment reads the application with its fee; a cleared fee is    *)
(* answered with alreadyPaid.                                              *)
ReadForPayment(r, a) ==
    /\ status[a] = "AWAITING_PLATFORM_FEE_PAYMENT"
    /\ ~ FeeCleared(a)
    /\ BeginOn(r, "initiatePayment", a, "order")
    /\ fee' = FeeEnsured(a)
    /\ UNCHANGED <<appVars, orderVars, payoutVars>>

Reusable(o, a) == AppOf[o] = a /\ orderStatus[o] = "CREATED"

(* An unexpired CREATED order of the fee is handed out again; otherwise a  *)
(* new one is asked of the gateway.                                        *)
LookUpOrder(c) ==
    /\ At(c, "initiatePayment", "order")
    /\ IF \E o \in Order : Reusable(o, c.app) THEN End(c) ELSE GoOn(c, "write")
    /\ UNCHANGED <<appVars, fee, orderVars, payoutVars>>

CreateOrder(c, o) ==
    /\ At(c, "initiatePayment", "write")
    /\ AppOf[o] = c.app /\ orderStatus[o] = "NONE"
    /\ orderStatus' = [orderStatus EXCEPT ![o] = "CREATED"]
    /\ End(c)
    /\ UNCHANGED <<appVars, fee, paid, payoutVars>>

(* Fifteen minutes pass. *)
OrderLapses(o) ==
    /\ orderStatus[o] = "CREATED"
    /\ orderStatus' = [orderStatus EXCEPT ![o] = "LAPSED"]
    /\ UNCHANGED <<appVars, fee, paid, payoutVars, calls>>

(* The employee pays in the gateway's checkout, whatever the server holds: *)
(* an order carries no expiry at the gateway.                              *)
EmployeePays(o) ==
    /\ orderStatus[o] # "NONE" /\ o \notin paid
    /\ paid' = paid \cup {o}
    /\ UNCHANGED <<appVars, fee, orderStatus, payoutVars, calls>>

----------------------------------------------------------------------------
(* The capture moves the application on without looking at its status. *)
CaptureMovesAny(a) == [status EXCEPT ![a] = "EMPLOYER_APPROVED"]

(* The compare-and-set on the application inside markFeePaidFromOrder. *)
CaptureMoves(a) ==
    IF status[a] = "AWAITING_PLATFORM_FEE_PAYMENT"
    THEN [status EXCEPT ![a] = "EMPLOYER_APPROVED"]
    ELSE status

(* A capture that takes only the orders still waiting for a first attempt. *)
CaptureOfFreshOrder(o) ==
    LET a == AppOf[o] IN
    /\ orderStatus[o] = "CREATED"
    /\ orderStatus' = [orderStatus EXCEPT ![o] = "CAPTURED"]
    /\ fee' = [fee EXCEPT ![a] = IF FeeCleared(a) THEN @ ELSE "PAID"]
    /\ status' = IF FeeCleared(a) THEN status ELSE CaptureMoves(a)

(* The transaction of markFeePaidFromOrder: the order is CAPTURED, and a   *)
(* fee not yet cleared becomes PAID and takes its application to review.   *)
MarkFeePaid(o) ==
    LET a == AppOf[o] IN
    /\ orderStatus' = [orderStatus EXCEPT ![o] = "CAPTURED"]
    /\ fee' = [fee EXCEPT ![a] = IF FeeCleared(a) THEN @ ELSE "PAID"]
    /\ status' = IF FeeCleared(a) THEN status ELSE CaptureMoves(a)

(* verifyPayment, payment.captured and order.paid: any number of times, in *)
(* any order, at any distance from the payment.                            *)
PaymentCaptured(o) ==
    /\ o \in paid
    /\ MarkFeePaid(o)
    /\ UNCHANGED <<employerApproved, adminApproved, paid, payoutVars, calls>>

(* A failure that closes the order for good. *)
FailureClosesOrder(o) ==
    /\ orderStatus[o] # "NONE"
    /\ orderStatus' = [orderStatus EXCEPT ![o] = "FAILED"]
    /\ UNCHANGED <<appVars, fee, paid, payoutVars, calls>>

(* payment.failed writes ATTEMPTED over whatever the order holds. *)
PaymentFailed(o) ==
    /\ orderStatus[o] # "NONE"
    /\ orderStatus' = [orderStatus EXCEPT ![o] = "ATTEMPTED"]
    /\ UNCHANGED <<appVars, fee, paid, payoutVars, calls>>

----------------------------------------------------------------------------
(* waive reads the fee and its application ...                             *)
WaiveRead(r, a) ==
    /\ fee[a] = "PENDING_PAYMENT"
    /\ BeginOn(r, "waive", a,
               IF status[a] = "AWAITING_PLATFORM_FEE_PAYMENT" THEN "move" ELSE "write")
    /\ UNCHANGED <<appVars, fee, orderVars, payoutVars>>

(* ... and in one transaction writes WAIVED and, when the application read *)
(* was awaiting the fee, EMPLOYER_APPROVED.                                *)
WaiveWrite(c) ==
    /\ c.op = "waive"
    /\ IF c.at = "move" THEN SetStatus(c.app, "EMPLOYER_APPROVED")
                        ELSE UNCHANGED status
    /\ fee' = [fee EXCEPT ![c.app] = "WAIVED"]
    /\ End(c)
    /\ UNCHANGED <<employerApproved, adminApproved, orderVars, payoutVars>>
=============================================================================
