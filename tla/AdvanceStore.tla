---------------------------- MODULE AdvanceStore ----------------------------
(***************************************************************************)
(* The database tables a salary advance goes through (loan applications,   *)
(* platform fees, payment orders, disbursals, repayments) and the requests *)
(* the server has in flight.                                               *)
(*                                                                         *)
(* A handler of the server is a sequence of awaited database statements,   *)
(* and any other handler may run between two of them.  A handler that has  *)
(* read a row and not yet written is therefore a record of the set calls;  *)
(* its next statement is an action of its own.  A Prisma $transaction, and *)
(* a single update statement, commit in one step.                          *)
(***************************************************************************)
EXTENDS Naturals

CONSTANTS
    Employee,   \* employees
    App,        \* ids of loan_applications rows, used or still to be used
    Order,      \* ids of payment_orders rows, used or still to be used
    Request,    \* ids of requests and cron runs: how many may be in flight
    EmployeeOf, \* the employee each application belongs to
    AppOf       \* the application whose platform fee each order pays

ASSUME OwnerAssumption == EmployeeOf \in [App -> Employee]
ASSUME OrderAssumption == AppOf \in [Order -> App]

VARIABLES
    status,           \* loan_applications.status, "NONE" before the row exists
    employerApproved, \* applications with employerApprovedAt set
    adminApproved,    \* applications with adminApprovedAt set
    fee,              \* loan_application_fees.status, "NONE" before the row exists
    orderStatus,      \* payment_orders.status, "NONE" before the row exists
    paid,             \* orders the gateway has collected the money of
    disbursal,        \* disbursals.status, "NONE" before the row exists
    payouts,          \* how many disburse transactions have taken the payout
    repayment,        \* repayments.status, "NONE" before the row exists
    calls             \* handlers between two of their statements

appVars == <<status, employerApproved, adminApproved>>
orderVars == <<orderStatus, paid>>
payoutVars == <<disbursal, payouts, repayment>>
vars == <<appVars, fee, orderVars, payoutVars, calls>>

----------------------------------------------------------------------------
(* The partial unique index of the loan_applications table names these.    *)
ActiveStatuses ==
    {"SUBMITTED", "EMPLOYER_APPROVED", "AWAITING_PLATFORM_FEE_PAYMENT",
     "READY_FOR_DISBURSAL", "DISBURSED", "REPAYMENT_SCHEDULED"}

ClosedStatuses ==
    {"EMPLOYER_REJECTED", "ADMIN_REJECTED", "REPAID", "CANCELLED", "EXPIRED"}

AppStatus == {"NONE"} \cup ActiveStatuses \cup ClosedStatuses

(* FAILED, EXPIRED and REFUNDED exist in the schema; no statement writes them. *)
FeeStatus == {"NONE", "PENDING_PAYMENT", "PAID", "WAIVED"}
(* LAPSED is a CREATED row whose expiresAt has passed: only the lookup of a    *)
(* reusable order tells the two apart.                                         *)
OrderStatus == {"NONE", "CREATED", "LAPSED", "ATTEMPTED", "CAPTURED"}
DisbursalStatus == {"NONE", "PENDING", "SUCCESS"}
RepaymentStatus == {"NONE", "SCHEDULED", "PAID"}

(* What a handler is about to do: its second read ("check"), isFeeCleared    *)
(* ("fee"), the lookup of a reusable order ("order") or its write ("write"). *)
(* A waiver that read its application awaiting the fee will also "move" it.  *)
Handler ==
    {"create", "cancel", "employerApprove", "employerReject", "adminApprove",
     "adminReject", "initiatePayment", "waive", "createDisbursal", "disburse"}
Point == {"check", "fee", "order", "write", "move"}

HandlerCall == [req : Request, op : Handler, app : App, at : Point]
ExpiryRun == [req : Request, op : {"expire"}, apps : SUBSET App]
Call == HandlerCall \cup ExpiryRun

TypeOK ==
    /\ status \in [App -> AppStatus]
    /\ employerApproved \in SUBSET App
    /\ adminApproved \in SUBSET App
    /\ fee \in [App -> FeeStatus]
    /\ orderStatus \in [Order -> OrderStatus]
    /\ paid \in SUBSET Order
    /\ disbursal \in [App -> DisbursalStatus]
    /\ payouts \in [App -> Nat]
    /\ repayment \in [App -> RepaymentStatus]
    /\ calls \in SUBSET Call

Init ==
    /\ status = [a \in App |-> "NONE"]
    /\ employerApproved = {}
    /\ adminApproved = {}
    /\ fee = [a \in App |-> "NONE"]
    /\ orderStatus = [o \in Order |-> "NONE"]
    /\ paid = {}
    /\ disbursal = [a \in App |-> "NONE"]
    /\ payouts = [a \in App |-> 0]
    /\ repayment = [a \in App |-> "NONE"]
    /\ calls = {}

----------------------------------------------------------------------------
(* The event loop: a handler starts under a request id that is not in use, *)
(* goes on to its next statement, and ends.                                *)
Begin(call) ==
    /\ \A c \in calls : c.req # call.req
    /\ calls' = calls \cup {call}

BeginOn(r, op, a, at) == Begin([req |-> r, op |-> op, app |-> a, at |-> at])

GoOn(c, at) == calls' = (calls \ {c}) \cup {[c EXCEPT !.at = at]}

End(c) == calls' = calls \ {c}

At(c, op, at) == /\ c.op = op
                 /\ c.at = at

(* A handler ends without its write: a later check of its own throws, the  *)
(* database refuses the write, or the server goes down.                    *)
Abort(c) ==
    /\ End(c)
    /\ UNCHANGED <<appVars, fee, orderVars, payoutVars>>

----------------------------------------------------------------------------
(* No unique index on the employee at all. *)
NoActiveIndex(a, s) == TRUE

(* The index lets application a have status s: no other application of the *)
(* same employee is in an active status.                                   *)
IndexAllows(a, s) ==
    s \in ActiveStatuses =>
        \A b \in App \ {a} :
            EmployeeOf[b] = EmployeeOf[a] => status[b] \notin ActiveStatuses

(* An update of the status of a by id, whatever the row holds by now.  The *)
(* statement fails, and its transaction with it, when the index refuses.   *)
SetStatus(a, s) ==
    /\ IndexAllows(a, s)
    /\ status' = [status EXCEPT ![a] = s]
=============================================================================
