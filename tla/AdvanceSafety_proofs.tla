------------------------ MODULE AdvanceSafety_proofs ------------------------
(***************************************************************************)
(* The safety of SalaryAdvance, for any sets of employees, applications,   *)
(* orders and requests: IInv is inductive, the invariants follow from it,  *)
(* and every step it allows is a step of PayoutContract or none at all.    *)
(***************************************************************************)
EXTENDS SalaryAdvance_proofs

(* The two halves of IInv: what the rows say of each other, and what the   *)
(* handlers in flight may still count on.                                  *)
RowsInv ==
    /\ OneActiveAdvance /\ FeeGate /\ CaptureClearsFee
    /\ ApprovalsFirst /\ OrdersHaveFee /\ DebtWithPayout
CallsInv == CheckedCalls /\ ApprovedCalls

(* Handlers in flight count on these: a fee once there stays, a cleared    *)
(* fee stays cleared, and an approval is not taken back.                   *)
Kept ==
    /\ \A a \in App : /\ fee[a] # "NONE" => fee'[a] # "NONE"
                      /\ FeeCleared(a) => FeeCleared(a)'
    /\ adminApproved \subseteq adminApproved'

Rows == <<appVars, fee, orderVars, payoutVars>>

----------------------------------------------------------------------------
(* What the steps have in common.                                          *)

(* A step that writes no row leaves the rows as sound as they were, and    *)
(* keeps what the handlers count on.                                       *)
LEMMA SameRows ==
    ASSUME RowsInv, UNCHANGED Rows
    PROVE  RowsInv' /\ Kept
BY DEF Rows, RowsInv, OneActiveAdvance, FeeGate, CaptureClearsFee, ApprovalsFirst,
       OrdersHaveFee, DebtWithPayout, Kept, FeeCleared, appVars, orderVars, payoutVars

(* A handler that ends relieves the others of nothing. *)
LEMMA EndKeepsCalls ==
    ASSUME TypeOK, CallsInv, Kept, NEW c \in calls, End(c)
    PROVE  CallsInv'
<1>1. \A d \in calls : d.op # "expire" => d.app \in App
  BY HandlerOfApp DEF TypeOK
<1>2. CheckedCalls'
  BY <1>1 DEF CallsInv, CheckedCalls, Kept, End
<1>3. ApprovedCalls'
  BY <1>1 DEF CallsInv, ApprovedCalls, Kept, End
<1> QED
  BY <1>2, <1>3 DEF CallsInv

(* The same when no handler moves at all. *)
LEMMA SameCalls ==
    ASSUME TypeOK, CallsInv, Kept, UNCHANGED calls
    PROVE  CallsInv'
<1>1. \A d \in calls : d.op # "expire" => d.app \in App
  BY HandlerOfApp DEF TypeOK
<1> QED
  BY <1>1 DEF CallsInv, CheckedCalls, ApprovedCalls, Kept

(* A handler that begins has to have what it will count on. *)
LEMMA BeginKeepsCalls ==
    ASSUME TypeOK, CallsInv, Kept, NEW r \in Request, NEW op \in Handler,
           NEW a \in App, NEW at \in Point, BeginOn(r, op, a, at),
           ~ (op \in {"adminApprove", "createDisbursal", "disburse"} /\ at = "write"),
           op \in {"initiatePayment", "waive"} => fee'[a] # "NONE",
           op = "createDisbursal" => a \in adminApproved'
    PROVE  CallsInv'
<1>1. \A d \in calls : d.op # "expire" => d.app \in App
  BY HandlerOfApp DEF TypeOK
<1>2. CheckedCalls'
  BY <1>1 DEF CallsInv, CheckedCalls, Kept, BeginOn, Begin
<1>3. ApprovedCalls'
  BY <1>1 DEF CallsInv, ApprovedCalls, Kept, BeginOn, Begin
<1> QED
  BY <1>2, <1>3 DEF CallsInv

(* A handler that goes on to its write has its fee checked. *)
LEMMA GoOnKeepsCalls ==
    ASSUME TypeOK, CallsInv, Kept, NEW c \in calls, c.op # "expire",
           NEW at \in Point, GoOn(c, at),
           /\ c.op \in {"adminApprove", "createDisbursal", "disburse"}
           /\ at = "write"
           => FeeCleared(c.app)'
    PROVE  CallsInv'
<1>1. \A d \in calls : d.op # "expire" => d.app \in App
  BY HandlerOfApp DEF TypeOK
<1>2. /\ [c EXCEPT !.at = at].op = c.op
      /\ [c EXCEPT !.at = at].app = c.app
      /\ [c EXCEPT !.at = at].at = at
  BY DEF TypeOK, Call, HandlerCall, ExpiryRun
<1>3. CheckedCalls'
  BY <1>1, <1>2 DEF CallsInv, CheckedCalls, Kept, GoOn
<1>4. ApprovedCalls'
  BY <1>1, <1>2 DEF CallsInv, ApprovedCalls, Kept, GoOn
<1> QED
  BY <1>3, <1>4 DEF CallsInv

(* A decision that closes an application, or a submission, changes one     *)
(* status to one that nothing but the index asks about.                    *)
LEMMA DecideKeepsRows ==
    ASSUME TypeOK, RowsInv, NEW a \in App,
           NEW s \in {"SUBMITTED"} \cup (ClosedStatuses \ {"REPAID"}),
           SetStatus(a, s), OnlyStatus
    PROVE  RowsInv' /\ Kept
<1> USE DEF TypeOK, SetStatus, OnlyStatus, orderVars, payoutVars, FeeCleared, ClosedStatuses
<1>1. OneActiveAdvance'
  BY DEF RowsInv, OneActiveAdvance, IndexAllows, ActiveStatuses
<1>2. FeeGate'
  BY DEF RowsInv, FeeGate
<1>3. ApprovalsFirst'
  BY DEF RowsInv, ApprovalsFirst
<1>4. CaptureClearsFee' /\ OrdersHaveFee' /\ DebtWithPayout' /\ Kept
  BY DEF RowsInv, CaptureClearsFee, OrdersHaveFee, DebtWithPayout, Kept
<1> QED
  BY <1>1, <1>2, <1>3, <1>4 DEF RowsInv

----------------------------------------------------------------------------
(* One step per action.                                                    *)

(* The first statement of a handler keeps the invariant. *)
LEMMA StartInv ==
    ASSUME TypeOK, RowsInv, CallsInv, NEW r \in Request, NEW a \in App, Start(r, a)
    PROVE  RowsInv' /\ CallsInv'
<1> USE SameRows, BeginKeepsCalls DEF Handler, Point, Rows
<1>1. CASE CreateRead(r, a)
  BY <1>1 DEF CreateRead, Read, Untouched
<1>2. CASE CancelRead(r, a)
  BY <1>2 DEF CancelRead, Read, Untouched
<1>3. CASE EmployerApproveRead(r, a)
  BY <1>3 DEF EmployerApproveRead, Read, Untouched
<1>4. CASE EmployerRejectRead(r, a)
  BY <1>4 DEF EmployerRejectRead, Read, Untouched
<1>5. CASE AdminApproveRead(r, a)
  BY <1>5 DEF AdminApproveRead, Read, Untouched
<1>6. CASE AdminRejectRead(r, a)
  BY <1>6 DEF AdminRejectRead, Read, Untouched
<1>7. CASE ReadForPayment(r, a)
  <2>1. fee[a] # "NONE"
    BY <1>7 DEF ReadForPayment, RowsInv, ApprovalsFirst
  <2>2. UNCHANGED Rows
    BY <1>7, <2>1 DEF ReadForPayment, FeeEnsured
  <2> QED
    BY <1>7, <2>1, <2>2 DEF ReadForPayment
<1>8. CASE WaiveRead(r, a)
  BY <1>8 DEF WaiveRead
<1>9. CASE CreateDisbursalRead(r, a)
  <2>1. a \in adminApproved
    BY <1>9 DEF CreateDisbursalRead, RowsInv, ApprovalsFirst
  <2>2. UNCHANGED Rows
    BY <1>9 DEF CreateDisbursalRead
  <2> QED
    BY <1>9, <2>1, <2>2 DEF CreateDisbursalRead, appVars
<1>10. CASE DisburseRead(r, a)
  BY <1>10 DEF DisburseRead
<1> QED
  BY <1>1, <1>2, <1>3, <1>4, <1>5, <1>6, <1>7, <1>8, <1>9, <1>10 DEF Start

(* The employer's approval comes with its fee. *)
LEMMA EmployerApproveRows ==
    ASSUME TypeOK, RowsInv, NEW c \in calls, c.app \in App, EmployerApproveWrite(c)
    PROVE  RowsInv' /\ Kept
<1> USE DEF TypeOK, EmployerApproveWrite, SetStatus, FeeEnsured, FeeCleared, Cleared,
            orderVars, payoutVars
<1>1. OneActiveAdvance'
  BY DEF RowsInv, OneActiveAdvance, IndexAllows, ActiveStatuses
<1>2. FeeGate' /\ CaptureClearsFee'
  BY OrderAssumption DEF RowsInv, FeeGate, CaptureClearsFee
<1>3. ApprovalsFirst'
  BY DEF RowsInv, ApprovalsFirst
<1>4. OrdersHaveFee' /\ DebtWithPayout' /\ Kept
  BY OrderAssumption DEF RowsInv, OrdersHaveFee, DebtWithPayout, Kept
<1> QED
  BY <1>1, <1>2, <1>3, <1>4 DEF RowsInv

(* The admin's approval follows a fee check that still holds. *)
LEMMA AdminApproveRows ==
    ASSUME TypeOK, RowsInv, CallsInv, NEW c \in calls, c.app \in App,
           AdminApproveWrite(c)
    PROVE  RowsInv' /\ Kept
<1> USE DEF TypeOK, AdminApproveWrite, SetStatus, At, orderVars, payoutVars
<1>1. FeeCleared(c.app)
  BY DEF CallsInv, CheckedCalls
<1>2. OneActiveAdvance'
  BY DEF RowsInv, OneActiveAdvance, IndexAllows, ActiveStatuses
<1>3. FeeGate'
  BY <1>1 DEF RowsInv, FeeGate, FeeCleared
<1>4. ApprovalsFirst'
  BY DEF RowsInv, ApprovalsFirst
<1>5. CaptureClearsFee' /\ OrdersHaveFee' /\ DebtWithPayout' /\ Kept
  BY DEF RowsInv, CaptureClearsFee, OrdersHaveFee, DebtWithPayout, Kept, FeeCleared
<1> QED
  BY <1>2, <1>3, <1>4, <1>5 DEF RowsInv

(* A new order is an order of a fee. *)
LEMMA CreateOrderRows ==
    ASSUME TypeOK, RowsInv, CallsInv, NEW c \in calls, NEW o \in Order, CreateOrder(c, o)
    PROVE  RowsInv' /\ Kept
<1> USE DEF TypeOK, CreateOrder, appVars, payoutVars
<1>1. fee[AppOf[o]] # "NONE"
  BY DEF CallsInv, ApprovedCalls, At
<1>2. OrdersHaveFee'
  BY <1>1 DEF RowsInv, OrdersHaveFee
<1>3. CaptureClearsFee'
  BY DEF RowsInv, CaptureClearsFee, FeeCleared
<1>4. OneActiveAdvance' /\ FeeGate' /\ ApprovalsFirst' /\ DebtWithPayout' /\ Kept
  BY DEF RowsInv, OneActiveAdvance, FeeGate, ApprovalsFirst, DebtWithPayout, Kept,
         FeeCleared
<1> QED
  BY <1>2, <1>3, <1>4 DEF RowsInv

(* A waiver clears the fee it lets the application past. *)
LEMMA WaiveRows ==
    ASSUME TypeOK, RowsInv, CallsInv, NEW c \in calls, c.app \in App, WaiveWrite(c)
    PROVE  RowsInv' /\ Kept
<1> USE DEF TypeOK, WaiveWrite, SetStatus, FeeCleared, Cleared, orderVars, payoutVars
<1>1. fee[c.app] # "NONE"
  BY DEF CallsInv, ApprovedCalls
<1>2. OneActiveAdvance'
  BY DEF RowsInv, OneActiveAdvance, IndexAllows, ActiveStatuses
<1>3. FeeGate' /\ CaptureClearsFee'
  BY OrderAssumption DEF RowsInv, FeeGate, CaptureClearsFee
<1>4. ApprovalsFirst'
  <2>1. c.app \in employerApproved
    BY <1>1 DEF RowsInv, ApprovalsFirst
  <2>2. \A a \in App : /\ fee'[a] # "NONE" => fee[a] # "NONE" \/ a = c.app
                       /\ fee[a] # "NONE" => fee'[a] # "NONE"
    OBVIOUS
  <2>3. \A a \in App : status'[a] = status[a] \/ status'[a] = "EMPLOYER_APPROVED"
    OBVIOUS
  <2> QED
    BY <2>1, <2>2, <2>3 DEF RowsInv, ApprovalsFirst
<1>5. OrdersHaveFee' /\ DebtWithPayout' /\ Kept
  BY OrderAssumption DEF RowsInv, OrdersHaveFee, DebtWithPayout, Kept
<1> QED
  BY <1>2, <1>3, <1>4, <1>5 DEF RowsInv

(* A disbursal is created for a cleared fee and an admin's approval. *)
LEMMA CreateDisbursalRows ==
    ASSUME TypeOK, RowsInv, CallsInv, NEW c \in calls, c.app \in App,
           CreateDisbursalWrite(c)
    PROVE  RowsInv' /\ Kept
<1> USE DEF TypeOK, CreateDisbursalWrite, At, appVars, orderVars
<1>1. FeeCleared(c.app) /\ c.app \in adminApproved
  BY DEF CallsInv, CheckedCalls, ApprovedCalls
<1>2. \A a \in App : disbursal'[a] # "NONE" => disbursal[a] # "NONE" \/ a = c.app
  OBVIOUS
<1>3. \A a \in App : disbursal'[a] = "SUCCESS" <=> disbursal[a] = "SUCCESS"
  OBVIOUS
<1>4. FeeGate'
  BY <1>1, <1>2 DEF RowsInv, FeeGate, FeeCleared
<1>5. ApprovalsFirst'
  BY <1>1, <1>2 DEF RowsInv, ApprovalsFirst
<1>6. DebtWithPayout'
  BY <1>3 DEF RowsInv, DebtWithPayout
<1>7. OneActiveAdvance' /\ CaptureClearsFee' /\ OrdersHaveFee' /\ Kept
  BY DEF RowsInv, OneActiveAdvance, CaptureClearsFee, OrdersHaveFee, Kept, FeeCleared
<1> QED
  BY <1>4, <1>5, <1>6, <1>7 DEF RowsInv

(* The payout, its debt and the move of the application are one step. *)
LEMMA DisburseRows ==
    ASSUME TypeOK, RowsInv, CallsInv, NEW c \in calls, c.app \in App, DisburseWrite(c)
    PROVE  RowsInv' /\ Kept
<1> USE DEF TypeOK, DisburseWrite, At, orderVars, payoutVars
<1>1. CASE disbursal[c.app] # "PENDING"
  BY <1>1, SameRows DEF Rows, appVars
<1>2. CASE disbursal[c.app] = "PENDING"
  <2> USE <1>2 DEF SetStatus
  <2>1. FeeCleared(c.app)
    BY DEF CallsInv, CheckedCalls
  <2>2. OneActiveAdvance'
    BY DEF RowsInv, OneActiveAdvance, IndexAllows, ActiveStatuses
  <2>3. FeeGate'
    BY <2>1 DEF RowsInv, FeeGate, FeeCleared
  <2>4. ApprovalsFirst'
    BY DEF RowsInv, ApprovalsFirst
  <2>5. DebtWithPayout'
    BY DEF RowsInv, DebtWithPayout
  <2>6. CaptureClearsFee' /\ OrdersHaveFee' /\ Kept
    BY DEF RowsInv, CaptureClearsFee, OrdersHaveFee, Kept, FeeCleared
  <2> QED
    BY <2>2, <2>3, <2>4, <2>5, <2>6 DEF RowsInv
<1> QED
  BY <1>1, <1>2

(* An expiry only ever takes applications out of the active ones. *)
LEMMA ExpireRows ==
    ASSUME TypeOK, RowsInv, NEW c \in calls, ExpireWrite(c)
    PROVE  RowsInv' /\ Kept
<1> USE DEF TypeOK, ExpireWrite, OnlyStatus, orderVars, payoutVars, FeeCleared
<1>1. \A a \in App : status'[a] = status[a] \/ status'[a] = "EXPIRED"
  OBVIOUS
<1>2. OneActiveAdvance' /\ FeeGate' /\ ApprovalsFirst'
  BY <1>1 DEF RowsInv, OneActiveAdvance, FeeGate, ApprovalsFirst, ActiveStatuses
<1>3. CaptureClearsFee' /\ OrdersHaveFee' /\ DebtWithPayout' /\ Kept
  BY DEF RowsInv, CaptureClearsFee, OrdersHaveFee, DebtWithPayout, Kept
<1> QED
  BY <1>2, <1>3 DEF RowsInv

(* A repayment was scheduled by a payout, whose fee is cleared. *)
LEMMA PayRows ==
    ASSUME TypeOK, RowsInv, NEW a \in App, Pay(a)
    PROVE  RowsInv' /\ Kept
<1> USE DEF TypeOK, Pay, SetStatus, orderVars
<1>1. FeeCleared(a)
  BY DEF RowsInv, DebtWithPayout, FeeGate
<1>2. FeeGate' /\ ApprovalsFirst'
  BY <1>1 DEF RowsInv, FeeGate, ApprovalsFirst, FeeCleared
<1>3. OneActiveAdvance'
  BY DEF RowsInv, OneActiveAdvance, ActiveStatuses
<1>4. DebtWithPayout'
  BY DEF RowsInv, DebtWithPayout
<1>5. CaptureClearsFee' /\ OrdersHaveFee' /\ Kept
  BY DEF RowsInv, CaptureClearsFee, OrdersHaveFee, Kept, FeeCleared
<1> QED
  BY <1>2, <1>3, <1>4, <1>5 DEF RowsInv

(* A capture leaves the fee of its order cleared. *)
LEMMA CaptureRows ==
    ASSUME TypeOK, RowsInv, NEW o \in Order, PaymentCaptured(o)
    PROVE  RowsInv' /\ Kept
<1> USE OrderAssumption
    DEF TypeOK, PaymentCaptured, MarkFeePaid, CaptureMoves, FeeCleared, Cleared, payoutVars
<1> DEFINE a == AppOf[o]
<1>1. fee[a] # "NONE" /\ a \in employerApproved
  BY DEF RowsInv, OrdersHaveFee, ApprovalsFirst
<1>2. FeeCleared(a)' /\ \A b \in App \ {a} : fee'[b] = fee[b] /\ status'[b] = status[b]
  OBVIOUS
<1>3. \/ status' = status
      \/ status[a] = "AWAITING_PLATFORM_FEE_PAYMENT" /\ status'[a] = "EMPLOYER_APPROVED"
  OBVIOUS
<1>4. OneActiveAdvance'
  BY <1>2, <1>3 DEF RowsInv, OneActiveAdvance, ActiveStatuses
<1>5. FeeGate'
  BY <1>2, <1>3 DEF RowsInv, FeeGate
<1>6. CaptureClearsFee'
  BY <1>2 DEF RowsInv, CaptureClearsFee
<1>7. ApprovalsFirst'
  <2>1. \A b \in App : /\ fee'[b] # "NONE" <=> fee[b] # "NONE"
                       /\ status'[b] = status[b] \/ status'[b] = "EMPLOYER_APPROVED"
    BY <1>1, <1>2, <1>3
  <2> QED
    BY <2>1 DEF RowsInv, ApprovalsFirst
<1>8. OrdersHaveFee' /\ DebtWithPayout' /\ Kept
  BY <1>1, <1>2 DEF RowsInv, OrdersHaveFee, DebtWithPayout, Kept
<1> QED
  BY <1>4, <1>5, <1>6, <1>7, <1>8 DEF RowsInv

(* What else happens to an order captures nothing. *)
LEMMA OrderRows ==
    ASSUME TypeOK, RowsInv, NEW o \in Order,
           EmployeePays(o) \/ PaymentFailed(o) \/ OrderLapses(o)
    PROVE  RowsInv' /\ Kept
<1> USE DEF TypeOK, appVars, payoutVars
<1>1. UNCHANGED <<appVars, fee, payoutVars>>
  BY DEF EmployeePays, PaymentFailed, OrderLapses
<1>2. \A p \in Order : /\ orderStatus'[p] # "NONE" <=> orderStatus[p] # "NONE"
                       /\ orderStatus'[p] = "CAPTURED" => orderStatus[p] = "CAPTURED"
  BY DEF EmployeePays, PaymentFailed, OrderLapses
<1>3. CaptureClearsFee'
  BY <1>1, <1>2 DEF RowsInv, CaptureClearsFee, FeeCleared
<1>4. OrdersHaveFee'
  <2>1. paid' \subseteq {p \in Order : orderStatus[p] # "NONE"}
    BY DEF RowsInv, OrdersHaveFee, EmployeePays, PaymentFailed, OrderLapses
  <2> QED
    BY <1>1, <1>2, <2>1 DEF RowsInv, OrdersHaveFee
<1>5. OneActiveAdvance' /\ FeeGate' /\ ApprovalsFirst' /\ DebtWithPayout' /\ Kept
  BY <1>1 DEF RowsInv, OneActiveAdvance, FeeGate, ApprovalsFirst, DebtWithPayout, Kept,
              FeeCleared
<1> QED
  BY <1>3, <1>4, <1>5 DEF RowsInv

----------------------------------------------------------------------------
(* The later statements of a handler keep the invariant. *)
LEMMA ContinueInv ==
    ASSUME TypeOK, RowsInv, CallsInv, NEW c \in calls, Continue(c)
    PROVE  RowsInv' /\ CallsInv'
<1>0. c.op # "expire" => c.app \in App
  BY HandlerOfApp DEF TypeOK
<1> USE SameRows, EndKeepsCalls, DecideKeepsRows, <1>0
    DEF Decide, At, Point, Rows, ClosedStatuses
<1>1. CASE CheckFee(c)
  <2>1. UNCHANGED Rows /\ FeeCleared(c.app)'
    BY <1>1 DEF CheckFee, FeeCleared
  <2> QED
    BY <1>1, <2>1, GoOnKeepsCalls DEF CheckFee
<1>2. CASE CreateWrite(c)
  BY <1>2 DEF CreateWrite
<1>3. CASE CancelWrite(c)
  BY <1>3 DEF CancelWrite
<1>4. CASE EmployerApproveCheck(c)
  BY <1>4, GoOnKeepsCalls DEF EmployerApproveCheck, Untouched
<1>5. CASE EmployerApproveWrite(c)
  BY <1>5, EmployerApproveRows DEF EmployerApproveWrite
<1>6. CASE EmployerRejectWrite(c)
  BY <1>6 DEF EmployerRejectWrite
<1>7. CASE AdminApproveWrite(c)
  BY <1>7, AdminApproveRows DEF AdminApproveWrite
<1>8. CASE AdminRejectWrite(c)
  BY <1>8 DEF AdminRejectWrite
<1>9. CASE LookUpOrder(c)
  BY <1>9, GoOnKeepsCalls DEF LookUpOrder
<1>10. CASE \E o \in Order : CreateOrder(c, o)
  BY <1>10, CreateOrderRows DEF CreateOrder
<1>11. CASE WaiveWrite(c)
  BY <1>11, WaiveRows DEF WaiveWrite
<1>12. CASE CreateDisbursalWrite(c)
  BY <1>12, CreateDisbursalRows DEF CreateDisbursalWrite
<1>13. CASE DisburseWrite(c)
  BY <1>13, DisburseRows DEF DisburseWrite
<1>14. CASE ExpireWrite(c)
  BY <1>14, ExpireRows DEF ExpireWrite
<1>15. CASE Abort(c)
  BY <1>15 DEF Abort
<1> QED
  BY <1>1, <1>2, <1>3, <1>4, <1>5, <1>6, <1>7, <1>8, <1>9, <1>10, <1>11, <1>12,
     <1>13, <1>14, <1>15 DEF Continue

(* Every step keeps the invariant. *)
LEMMA InvStep ==
    ASSUME TypeOK, RowsInv, CallsInv, [Next]_vars
    PROVE  RowsInv' /\ CallsInv'
<1>1. ASSUME NEW r \in Request, NEW stale \in SUBSET App, ExpireRead(r, stale)
      PROVE  RowsInv' /\ CallsInv'
  <2>1. RowsInv' /\ Kept
    BY <1>1, SameRows DEF ExpireRead, Untouched, Rows
  <2>2. \A d \in calls : d.op # "expire" => d.app \in App
    BY HandlerOfApp DEF TypeOK
  <2> QED
    BY <1>1, <2>1, <2>2
       DEF ExpireRead, Begin, CallsInv, CheckedCalls, ApprovedCalls, Kept
<1>2. ASSUME NEW a \in App, Pay(a)
      PROVE  RowsInv' /\ CallsInv'
  BY <1>2, PayRows, SameCalls DEF Pay
<1>3. ASSUME NEW o \in Order, Gateway(o)
      PROVE  RowsInv' /\ CallsInv'
  <2>1. UNCHANGED calls
    BY <1>3 DEF Gateway, EmployeePays, PaymentCaptured, PaymentFailed, OrderLapses
  <2> QED
    BY <1>3, <2>1, CaptureRows, OrderRows, SameCalls DEF Gateway
<1>4. CASE UNCHANGED vars
  BY <1>4, SameRows, SameCalls DEF vars, Rows
<1> QED
  BY <1>1, <1>2, <1>3, <1>4, StartInv, ContinueInv DEF Next

(* IInv, the inductive invariant. *)
THEOREM Invariance == Spec => []IInv
<1>1. IInv <=> TypeOK /\ RowsInv /\ CallsInv
  BY DEF IInv, RowsInv, CallsInv
<1>2. Init => IInv
  <2> SUFFICES ASSUME Init PROVE RowsInv /\ CallsInv /\ TypeOK
    BY <1>1
  <2>1. TypeOK
    BY DEF Init, TypeOK, AppStatus, FeeStatus, OrderStatus, DisbursalStatus, RepaymentStatus
  <2>2. RowsInv
    BY OrderAssumption
       DEF Init, RowsInv, OneActiveAdvance, ActiveStatuses, FeeGate, CaptureClearsFee,
           ApprovalsFirst, OrdersHaveFee, DebtWithPayout
  <2> QED
    BY <2>1, <2>2 DEF Init, CallsInv, CheckedCalls, ApprovedCalls
<1>3. IInv /\ [Next]_vars => IInv'
  <2> SUFFICES ASSUME IInv, [Next]_vars PROVE IInv'
    OBVIOUS
  <2>1. TypeOK' /\ RowsInv' /\ CallsInv'
    BY <1>1, TypeStep, InvStep
  <2> QED
    BY <2>1 DEF IInv, RowsInv, CallsInv
<1> QED
  BY <1>2, <1>3, PTL DEF Spec

----------------------------------------------------------------------------
(* One active advance per employee (ADR 005): the index and the statuses   *)
(* the writers choose keep a second application out of the active ones.    *)
THEOREM OneAdvance == Spec => []OneActiveAdvance
BY Invariance, PTL DEF IInv

(* No application gets behind its platform fee, and no disbursal is        *)
(* created for it, before the fee is paid or waived.                       *)
THEOREM FeeFirst == Spec => []FeeGate
BY Invariance, PTL DEF IInv

(* A capture recorded on an order has cleared the fee of that order.       *)
THEOREM CaptureCounts == Spec => []CaptureClearsFee
BY Invariance, PTL DEF IInv

----------------------------------------------------------------------------
(* Refinement of PayoutContract.                                           *)

FeeOk == {a \in App : FeeCleared(a)}
Booked == {a \in App : repayment[a] # "NONE"}

(* A step that leaves the facts of the contract alone is a stutter of it. *)
LEMMA ContractStutters ==
    ASSUME UNCHANGED <<employerApproved, FeeOk, adminApproved, payouts, Booked>>
    PROVE  UNCHANGED Contract!vars
BY DEF Contract!vars, FeeOk, Booked

(* Only these steps move the facts of the contract; the others stutter.    *)
LEMMA StartContract ==
    ASSUME IInv, NEW r \in Request, NEW a \in App, Start(r, a)
    PROVE  UNCHANGED Contract!vars
<1>1. UNCHANGED <<appVars, payoutVars>>
  BY DEF Start, CreateRead, CancelRead, EmployerApproveRead, EmployerRejectRead,
         AdminApproveRead, AdminRejectRead, Read, Untouched, ReadForPayment, WaiveRead,
         CreateDisbursalRead, DisburseRead
<1>2. fee' = fee
  <2>1. CASE ReadForPayment(r, a)
    BY <2>1 DEF ReadForPayment, FeeEnsured, IInv, ApprovalsFirst
  <2>2. CASE ~ ReadForPayment(r, a)
    BY <2>2 DEF Start, CreateRead, CancelRead, EmployerApproveRead, EmployerRejectRead,
                AdminApproveRead, AdminRejectRead, Read, Untouched, WaiveRead,
                CreateDisbursalRead, DisburseRead
  <2> QED
    BY <2>1, <2>2
<1> QED
  BY <1>1, <1>2, ContractStutters DEF appVars, payoutVars, FeeOk, Booked, FeeCleared

(* The employer's approval is the contract's, or repeats it.               *)
LEMMA EmployerApproveContract ==
    ASSUME IInv, NEW c \in calls, c.app \in App, EmployerApproveWrite(c)
    PROVE  Contract!EmployerAgrees(c.app) \/ UNCHANGED Contract!vars
<1>1. FeeOk' = FeeOk
  BY DEF EmployerApproveWrite, FeeEnsured, FeeOk, FeeCleared, Cleared, IInv, TypeOK
<1>2. UNCHANGED <<adminApproved, payouts, Booked>>
  BY DEF EmployerApproveWrite, payoutVars, Booked
<1>3. employerApproved' = employerApproved \cup {c.app}
  BY DEF EmployerApproveWrite
<1> QED
  BY <1>1, <1>2, <1>3 DEF Contract!EmployerAgrees, Contract!vars, FeeOk, Booked

(* The admin's approval is the contract's, or repeats it.                  *)
LEMMA AdminApproveContract ==
    ASSUME IInv, NEW c \in calls, c.app \in App, AdminApproveWrite(c)
    PROVE  Contract!AdminAgrees(c.app) \/ UNCHANGED Contract!vars
<1>1. c.app \in FeeOk
  BY DEF AdminApproveWrite, At, IInv, CheckedCalls, FeeOk
<1>2. UNCHANGED <<employerApproved, FeeOk, payouts, Booked>>
  BY DEF AdminApproveWrite, payoutVars, Booked, FeeOk, FeeCleared
<1>3. adminApproved' = adminApproved \cup {c.app}
  BY DEF AdminApproveWrite
<1> QED
  BY <1>1, <1>2, <1>3 DEF Contract!AdminAgrees, Contract!vars, FeeOk, Booked

(* A waiver clears the contract's fee, or finds it cleared.                *)
LEMMA WaiveContract ==
    ASSUME IInv, NEW c \in calls, c.app \in App, WaiveWrite(c)
    PROVE  Contract!FeeClears(c.app) \/ UNCHANGED Contract!vars
<1>1. c.app \in employerApproved
  BY DEF WaiveWrite, IInv, ApprovedCalls, ApprovalsFirst
<1>2. FeeOk' = FeeOk \cup {c.app}
  BY DEF WaiveWrite, FeeOk, FeeCleared, Cleared, IInv, TypeOK
<1>3. UNCHANGED <<employerApproved, adminApproved, payouts, Booked>>
  BY DEF WaiveWrite, payoutVars, Booked
<1> QED
  BY <1>1, <1>2, <1>3 DEF Contract!FeeClears, Contract!vars, FeeOk, Booked

(* So does a capture.                                                      *)
LEMMA CaptureContract ==
    ASSUME IInv, NEW o \in Order, PaymentCaptured(o)
    PROVE  Contract!FeeClears(AppOf[o]) \/ UNCHANGED Contract!vars
<1> USE OrderAssumption
<1>1. AppOf[o] \in employerApproved
  BY DEF PaymentCaptured, IInv, OrdersHaveFee, ApprovalsFirst
<1>2. FeeOk' = FeeOk \cup {AppOf[o]}
  BY DEF PaymentCaptured, MarkFeePaid, FeeOk, FeeCleared, Cleared, IInv, TypeOK
<1>3. UNCHANGED <<employerApproved, adminApproved, payouts, Booked>>
  BY DEF PaymentCaptured, payoutVars, Booked
<1> QED
  BY <1>1, <1>2, <1>3 DEF Contract!FeeClears, Contract!vars, FeeOk, Booked

(* The disbursal claimed first is the contract's payout; a later one finds *)
(* it made.                                                                *)
LEMMA DisburseContract ==
    ASSUME IInv, NEW c \in calls, c.app \in App, DisburseWrite(c)
    PROVE  Contract!PaysOut(c.app) \/ UNCHANGED Contract!vars
<1> USE DEF DisburseWrite, IInv, TypeOK
<1>1. UNCHANGED <<employerApproved, FeeOk, adminApproved>>
  BY DEF FeeOk, FeeCleared
<1>2. CASE disbursal[c.app] # "PENDING"
  BY <1>1, <1>2, ContractStutters DEF payoutVars, Booked
<1>3. CASE disbursal[c.app] = "PENDING"
  <2>1. c.app \in adminApproved
    BY <1>3 DEF ApprovalsFirst
  <2>2. payouts[c.app] = 0
    BY <1>3 DEF DebtWithPayout
  <2>3. /\ payouts' = [payouts EXCEPT ![c.app] = @ + 1]
        /\ Booked' = Booked \cup {c.app}
    BY <1>3 DEF Booked, RepaymentStatus
  <2> QED
    BY <1>1, <2>1, <2>2, <2>3 DEF Contract!PaysOut, FeeOk, Booked
<1> QED
  BY <1>2, <1>3

(* Every other statement of a handler stutters. *)
LEMMA OtherContract ==
    ASSUME IInv, NEW c \in calls,
           \/ CheckFee(c) \/ CreateWrite(c) \/ CancelWrite(c) \/ EmployerApproveCheck(c)
           \/ EmployerRejectWrite(c) \/ AdminRejectWrite(c) \/ LookUpOrder(c)
           \/ (\E o \in Order : CreateOrder(c, o))
           \/ CreateDisbursalWrite(c) \/ ExpireWrite(c) \/ Abort(c)
    PROVE  UNCHANGED Contract!vars
<1>1. UNCHANGED <<employerApproved, adminApproved, fee, payouts, repayment>>
  BY DEF CheckFee, CreateWrite, CancelWrite, EmployerApproveCheck, EmployerRejectWrite,
         AdminRejectWrite, LookUpOrder, CreateOrder, CreateDisbursalWrite, ExpireWrite,
         Abort, Decide, Untouched, OnlyStatus, appVars, payoutVars
<1> QED
  BY <1>1, ContractStutters DEF FeeOk, Booked, FeeCleared

(* Every step is a step of the contract or none. *)
LEMMA ContractStep ==
    ASSUME IInv, [Next]_vars
    PROVE  [Contract!Next]_(Contract!vars)
<1>1. ASSUME NEW r \in Request, NEW a \in App, Start(r, a)
      PROVE  UNCHANGED Contract!vars
  BY <1>1, StartContract
<1>2. ASSUME NEW r \in Request, NEW stale \in SUBSET App, ExpireRead(r, stale)
      PROVE  UNCHANGED Contract!vars
  BY <1>2, ContractStutters
     DEF ExpireRead, Untouched, appVars, payoutVars, FeeOk, Booked, FeeCleared
<1>3. ASSUME NEW c \in calls, Continue(c)
      PROVE  [Contract!Next]_(Contract!vars)
  <2>1. c.op # "expire" => c.app \in App
    BY HandlerOfApp DEF IInv, TypeOK
  <2>2. CASE EmployerApproveWrite(c)
    BY <2>1, <2>2, EmployerApproveContract DEF EmployerApproveWrite, At, Contract!Next
  <2>3. CASE AdminApproveWrite(c)
    BY <2>1, <2>3, AdminApproveContract DEF AdminApproveWrite, At, Contract!Next
  <2>4. CASE WaiveWrite(c)
    BY <2>1, <2>4, WaiveContract DEF WaiveWrite, Contract!Next
  <2>5. CASE DisburseWrite(c)
    BY <2>1, <2>5, DisburseContract DEF DisburseWrite, At, Contract!Next
  <2> QED
    BY <1>3, <2>2, <2>3, <2>4, <2>5, OtherContract DEF Continue
<1>4. ASSUME NEW a \in App, Pay(a)
      PROVE  UNCHANGED Contract!vars
  <2>1. UNCHANGED <<employerApproved, adminApproved, fee, payouts, Booked>>
    BY <1>4 DEF Pay, Booked, IInv, TypeOK
  <2> QED
    BY <2>1, ContractStutters DEF FeeOk, FeeCleared
<1>5. ASSUME NEW o \in Order, Gateway(o)
      PROVE  [Contract!Next]_(Contract!vars)
  <2>1. CASE PaymentCaptured(o)
    BY <2>1, CaptureContract, OrderAssumption DEF Contract!Next
  <2>2. CASE EmployeePays(o) \/ PaymentFailed(o) \/ OrderLapses(o)
    BY <2>2, ContractStutters DEF EmployeePays, PaymentFailed, OrderLapses, appVars,
       payoutVars, FeeOk, Booked, FeeCleared
  <2> QED
    BY <1>5, <2>1, <2>2 DEF Gateway
<1>6. CASE UNCHANGED vars
  BY <1>6, ContractStutters DEF vars, appVars, payoutVars, FeeOk, Booked, FeeCleared
<1> QED
  BY <1>1, <1>2, <1>3, <1>4, <1>5, <1>6 DEF Next

(* Whatever interleaves, money keeps the contract: approvals and fee come  *)
(* first and in order, the payout is taken once, its debt comes with it,   *)
(* and none of it is undone.                                               *)
THEOREM PayoutsAreSound == Spec => KeepsPayoutContract
<1>1. Init => Contract!Init
  BY DEF Init, Contract!Init, FeeCleared, Cleared
<1>2. IInv /\ [Next]_vars => [Contract!Next]_(Contract!vars)
  BY ContractStep
<1> QED
  BY <1>1, <1>2, Invariance, PTL DEF Spec, KeepsPayoutContract, Contract!Spec

----------------------------------------------------------------------------
(* Handlers that do not overlap.                                           *)

(* Only one request is served at a time. *)
OneRequest == \A r, s \in Request : r = s

Alone == \A c, d \in calls : c = d

(* The columns of one application agree: the fee comes with the approval   *)
(* and is open while it is waited for, a disbursal comes after review, and *)
(* the repayment and the status tell the same of the debt.                 *)
RowAgrees(a) ==
    /\ status[a] \in {"NONE", "SUBMITTED", "EMPLOYER_REJECTED", "CANCELLED", "EXPIRED"}
       => fee[a] = "NONE"
    /\ status[a] = "AWAITING_PLATFORM_FEE_PAYMENT" => fee[a] = "PENDING_PAYMENT"
    /\ status[a] = "EMPLOYER_APPROVED" => disbursal[a] = "NONE"
    /\ status[a] = "REPAYMENT_SCHEDULED" <=> repayment[a] = "SCHEDULED"
    /\ status[a] = "REPAID" <=> repayment[a] = "PAID"
    /\ status[a] # "DISBURSED"

(* What a handler read is still so when it writes; a capture may have      *)
(* moved the application on meanwhile.                                     *)
ReadHolds(c) ==
    /\ c.op = "create" => status[c.app] = "NONE"
    /\ c.op \in {"cancel", "employerReject", "employerApprove"} =>
         status[c.app] = "SUBMITTED"
    /\ c.op = "adminApprove" => status[c.app] = "EMPLOYER_APPROVED"
    /\ c.op = "adminReject" => status[c.app] \in RejectableStatuses
    /\ c.op = "createDisbursal" => status[c.app] = "READY_FOR_DISBURSAL"
    /\ c.op = "waive" =>
         IF c.at = "move"
         THEN status[c.app] \in {"AWAITING_PLATFORM_FEE_PAYMENT", "EMPLOYER_APPROVED"}
         ELSE status[c.app] # "AWAITING_PLATFORM_FEE_PAYMENT"
    /\ c.op = "expire" => \A a \in c.apps : status[a] = "SUBMITTED"

SerialRows == \A a \in App : RowAgrees(a)
SerialCalls == Alone /\ \A c \in calls : ReadHolds(c)
SerialInv == IInv /\ SerialRows /\ SerialCalls

Flows == \A a \in App : status'[a] # status[a] => <<status[a], status'[a]>> \in FlowSteps

(* A step that leaves these columns alone keeps what they agree on. *)
LEMMA SameSerialRows ==
    ASSUME SerialRows, UNCHANGED <<status, fee, disbursal, repayment>>
    PROVE  SerialRows' /\ Flows
BY DEF SerialRows, RowAgrees, Flows

LEMMA SameReads ==
    ASSUME NEW c, ReadHolds(c), UNCHANGED status
    PROVE  ReadHolds(c)'
BY DEF ReadHolds

(* The only handler begins when nothing is in flight, *)
LEMMA BeginsAlone ==
    ASSUME OneRequest, TypeOK, NEW call, call.req \in Request, Begin(call)
    PROVE  calls' = {call}
<1>1. \A c \in calls : c.req \in Request
  BY DEF TypeOK, Call, HandlerCall, ExpiryRun
<1>2. calls = {}
  BY <1>1 DEF OneRequest, Begin
<1> QED BY <1>2 DEF Begin

(* and leaves nothing when it ends. *)
LEMMA EndsAlone ==
    ASSUME SerialCalls, NEW c \in calls, End(c)
    PROVE  SerialCalls'
BY DEF SerialCalls, Alone, End

(* A handler that goes on has read nothing new. *)
LEMMA GoesOnAlone ==
    ASSUME TypeOK, SerialCalls, NEW c \in calls, c.op # "expire",
           NEW at, c.op = "waive" => c.at # "move" /\ at # "move",
           GoOn(c, at), UNCHANGED status
    PROVE  SerialCalls'
<1>1. c \in HandlerCall
  BY DEF TypeOK, Call, ExpiryRun
<1> DEFINE d == [c EXCEPT !.at = at]
<1>2. d.op = c.op /\ d.app = c.app /\ d.at = at
  BY <1>1 DEF HandlerCall
<1>3. calls' = {d}
  BY DEF GoOn, SerialCalls, Alone
<1>4. ReadHolds(d)'
  <2>1. ReadHolds(c)
    BY DEF SerialCalls
  <2> HIDE DEF d
  <2> QED BY <1>2, <2>1 DEF ReadHolds
<1> HIDE DEF d
<1> QED BY <1>3, <1>4 DEF SerialCalls, Alone

(* The first statement of a handler. *)
LEMMA StartSerially ==
    ASSUME OneRequest, SerialInv, NEW r \in Request, NEW a \in App, Start(r, a)
    PROVE  SerialRows' /\ SerialCalls' /\ Flows
<1>0. TypeOK /\ SerialRows
  BY DEF SerialInv, IInv
<1>1. UNCHANGED <<status, fee, disbursal, repayment>>
  <2>1. fee' = fee
    <3>1. CASE ReadForPayment(r, a)
      BY <3>1 DEF ReadForPayment, FeeEnsured, SerialInv, IInv, ApprovalsFirst
    <3>2. CASE ~ ReadForPayment(r, a)
      BY <3>2 DEF Start, CreateRead, CancelRead, EmployerApproveRead, EmployerRejectRead,
                  AdminApproveRead, AdminRejectRead, Read, Untouched, WaiveRead,
                  CreateDisbursalRead, DisburseRead
    <3> QED BY <3>1, <3>2
  <2> QED
    BY <2>1 DEF Start, CreateRead, CancelRead, EmployerApproveRead, EmployerRejectRead,
       AdminApproveRead, AdminRejectRead, Read, Untouched, ReadForPayment, WaiveRead,
       CreateDisbursalRead, DisburseRead, appVars, payoutVars
<1>2. ASSUME NEW op \in Handler, NEW at, BeginOn(r, op, a, at),
             ReadHolds([req |-> r, op |-> op, app |-> a, at |-> at])
      PROVE  SerialCalls'
  <2> DEFINE call == [req |-> r, op |-> op, app |-> a, at |-> at]
  <2>1. calls' = {call}
    BY <1>0, <1>2, BeginsAlone DEF BeginOn
  <2>2. ReadHolds(call)'
    BY <1>1, <1>2, SameReads
  <2> HIDE DEF call
  <2> QED BY <2>1, <2>2 DEF SerialCalls, Alone
<1>3. ASSUME NEW op \in Handler, NEW at, NEW from, Read(r, op, a, from, at),
             status[a] \in from => ReadHolds([req |-> r, op |-> op, app |-> a, at |-> at])
      PROVE  SerialCalls'
  BY <1>2, <1>3 DEF Read
<1>4. SerialCalls'
  <2> USE DEF Handler, ReadHolds
  <2>1. CASE CreateRead(r, a)
    BY <1>3, <2>1 DEF CreateRead
  <2>2. CASE CancelRead(r, a)
    BY <1>3, <2>2 DEF CancelRead
  <2>3. CASE EmployerApproveRead(r, a)
    BY <1>3, <2>3 DEF EmployerApproveRead
  <2>4. CASE EmployerRejectRead(r, a)
    BY <1>3, <2>4 DEF EmployerRejectRead
  <2>5. CASE AdminApproveRead(r, a)
    BY <1>3, <2>5 DEF AdminApproveRead
  <2>6. CASE AdminRejectRead(r, a)
    BY <1>3, <2>6 DEF AdminRejectRead
  <2>7. CASE ReadForPayment(r, a)
    BY <1>2, <2>7 DEF ReadForPayment
  <2>8. CASE WaiveRead(r, a)
    BY <1>2, <2>8 DEF WaiveRead
  <2>9. CASE CreateDisbursalRead(r, a)
    BY <1>2, <2>9 DEF CreateDisbursalRead
  <2>10. CASE DisburseRead(r, a)
    BY <1>2, <2>10 DEF DisburseRead
  <2> QED
    BY <2>1, <2>2, <2>3, <2>4, <2>5, <2>6, <2>7, <2>8, <2>9, <2>10 DEF Start
<1> QED BY <1>0, <1>1, <1>4, SameSerialRows

(* A step that moves one application along the flow and leaves the others. *)
LEMMA OneMoves ==
    ASSUME TypeOK, SerialRows, NEW a \in App,
           \A b \in App \ {a} : /\ status'[b] = status[b] /\ fee'[b] = fee[b]
                                /\ disbursal'[b] = disbursal[b]
                                /\ repayment'[b] = repayment[b],
           RowAgrees(a)', status'[a] # status[a] => <<status[a], status'[a]>> \in FlowSteps
    PROVE  SerialRows' /\ Flows
<1>1. \A b \in App \ {a} : RowAgrees(b)'
  BY DEF SerialRows, RowAgrees
<1> QED BY <1>1 DEF SerialRows, Flows

(* A decision that only moves the status. *)
LEMMA DecideSerially ==
    ASSUME SerialInv, NEW c \in calls, c.app \in App, NEW op, NEW to, Decide(c, op, to),
           \/ status[c.app] = "NONE" /\ to = "SUBMITTED"
           \/ status[c.app] = "SUBMITTED" /\ to \in {"CANCELLED", "EMPLOYER_REJECTED"}
           \/ status[c.app] \in RejectableStatuses /\ to = "ADMIN_REJECTED"
    PROVE  SerialRows' /\ SerialCalls' /\ Flows
<1> DEFINE a == c.app
<1>0. TypeOK /\ SerialRows /\ SerialCalls /\ RowAgrees(a)
  BY DEF SerialInv, IInv, SerialRows
<1>1. status' = [status EXCEPT ![a] = to] /\ End(c)
      /\ UNCHANGED <<fee, disbursal, repayment>>
  BY DEF Decide, SetStatus, OnlyStatus, payoutVars
<1>2. status'[a] = to /\ \A b \in App \ {a} : status'[b] = status[b]
  BY <1>0, <1>1 DEF TypeOK
<1>3. <<status[a], to>> \in FlowSteps
  BY DEF FlowSteps, RejectableStatuses
<1>4. RowAgrees(a)'
  BY <1>0, <1>1, <1>2 DEF RowAgrees, RejectableStatuses
<1>5. SerialRows' /\ Flows
  BY <1>0, <1>1, <1>2, <1>3, <1>4, OneMoves
<1> QED BY <1>0, <1>1, <1>5, EndsAlone

(* An application whose disbursal waits to be paid out is ready, or was    *)
(* rejected after it.                                                      *)
LEMMA PendingPayout ==
    ASSUME SerialInv, NEW a \in App, disbursal[a] = "PENDING"
    PROVE  status[a] \in {"READY_FOR_DISBURSAL", "ADMIN_REJECTED"} /\ repayment[a] = "NONE"
<1>1. FeeCleared(a) /\ repayment[a] = "NONE"
  BY DEF SerialInv, IInv, FeeGate, DebtWithPayout
<1>2. fee[a] \notin {"NONE", "PENDING_PAYMENT"}
  BY <1>1 DEF FeeCleared, Cleared
<1>3. RowAgrees(a) /\ status[a] \in AppStatus
  BY DEF SerialInv, SerialRows, IInv, TypeOK
<1> QED BY <1>1, <1>2, <1>3 DEF RowAgrees, AppStatus, ActiveStatuses, ClosedStatuses

(* The writes that move more than the status. *)
LEMMA EmployerApproveSerially ==
    ASSUME SerialInv, NEW c \in calls, c.app \in App, EmployerApproveWrite(c)
    PROVE  SerialRows' /\ SerialCalls' /\ Flows
<1> DEFINE a == c.app
<1>0. TypeOK /\ SerialRows /\ SerialCalls /\ RowAgrees(a)
  BY DEF SerialInv, IInv, SerialRows
<1>1. status[a] = "SUBMITTED"
  BY DEF SerialInv, SerialCalls, ReadHolds, EmployerApproveWrite, At
<1>2. fee[a] = "NONE"
  BY <1>0, <1>1 DEF RowAgrees
<1>3. /\ status' = [status EXCEPT ![a] = "AWAITING_PLATFORM_FEE_PAYMENT"]
      /\ fee' = [fee EXCEPT ![a] = "PENDING_PAYMENT"]
      /\ UNCHANGED <<disbursal, repayment>>
  BY <1>2 DEF EmployerApproveWrite, SetStatus, FeeEnsured, payoutVars
<1>4. /\ status'[a] = "AWAITING_PLATFORM_FEE_PAYMENT" /\ fee'[a] = "PENDING_PAYMENT"
      /\ \A b \in App \ {a} : status'[b] = status[b] /\ fee'[b] = fee[b]
  BY <1>0, <1>3 DEF TypeOK
<1>5. RowAgrees(a)'
  BY <1>0, <1>1, <1>3, <1>4 DEF RowAgrees
<1>6. <<status[a], status'[a]>> \in FlowSteps
  BY <1>1, <1>4 DEF FlowSteps
<1>7. SerialRows' /\ Flows
  BY <1>0, <1>3, <1>4, <1>5, <1>6, OneMoves
<1> QED BY <1>0, <1>7, EndsAlone DEF EmployerApproveWrite

LEMMA AdminApproveSerially ==
    ASSUME SerialInv, NEW c \in calls, c.app \in App, AdminApproveWrite(c)
    PROVE  SerialRows' /\ SerialCalls' /\ Flows
<1> DEFINE a == c.app
<1>0. TypeOK /\ SerialRows /\ SerialCalls /\ RowAgrees(a)
  BY DEF SerialInv, IInv, SerialRows
<1>1. status[a] = "EMPLOYER_APPROVED"
  BY DEF SerialInv, SerialCalls, ReadHolds, AdminApproveWrite, At
<1>2. status' = [status EXCEPT ![a] = "READY_FOR_DISBURSAL"]
      /\ UNCHANGED <<fee, disbursal, repayment>>
  BY DEF AdminApproveWrite, SetStatus, payoutVars
<1>3. status'[a] = "READY_FOR_DISBURSAL" /\ \A b \in App \ {a} : status'[b] = status[b]
  BY <1>0, <1>2 DEF TypeOK
<1>4. RowAgrees(a)'
  BY <1>0, <1>1, <1>2, <1>3 DEF RowAgrees
<1>5. <<status[a], status'[a]>> \in FlowSteps
  BY <1>1, <1>3 DEF FlowSteps
<1>6. SerialRows' /\ Flows
  BY <1>0, <1>2, <1>3, <1>4, <1>5, OneMoves
<1> QED BY <1>0, <1>6, EndsAlone DEF AdminApproveWrite

LEMMA WaiveSerially ==
    ASSUME SerialInv, NEW c \in calls, c.app \in App, WaiveWrite(c)
    PROVE  SerialRows' /\ SerialCalls' /\ Flows
<1> DEFINE a == c.app
<1>0. TypeOK /\ SerialRows /\ SerialCalls /\ RowAgrees(a) /\ ReadHolds(c)
  BY DEF SerialInv, IInv, SerialRows, SerialCalls
<1>1. fee[a] # "NONE"
  BY DEF WaiveWrite, SerialInv, IInv, ApprovedCalls
<1>2. fee' = [fee EXCEPT ![a] = "WAIVED"] /\ UNCHANGED <<disbursal, repayment>> /\ End(c)
  BY DEF WaiveWrite, payoutVars
<1>3. fee'[a] = "WAIVED" /\ \A b \in App \ {a} : fee'[b] = fee[b]
  BY <1>0, <1>2 DEF TypeOK
<1>4. CASE c.at = "move"
  <2>1. status[a] \in {"AWAITING_PLATFORM_FEE_PAYMENT", "EMPLOYER_APPROVED"}
    BY <1>0, <1>4 DEF WaiveWrite, ReadHolds
  <2>2. status' = [status EXCEPT ![a] = "EMPLOYER_APPROVED"]
    BY <1>4 DEF WaiveWrite, SetStatus
  <2>3. status'[a] = "EMPLOYER_APPROVED" /\ \A b \in App \ {a} : status'[b] = status[b]
    BY <1>0, <2>2 DEF TypeOK
  <2>4. disbursal[a] = "NONE"
    <3>1. CASE status[a] = "EMPLOYER_APPROVED"
      BY <1>0, <3>1 DEF RowAgrees
    <3>2. CASE status[a] = "AWAITING_PLATFORM_FEE_PAYMENT"
      BY <1>0, <3>2 DEF RowAgrees, SerialInv, IInv, FeeGate, FeeCleared, Cleared
    <3> QED BY <2>1, <3>1, <3>2
  <2>5. RowAgrees(a)'
    BY <1>0, <1>2, <1>3, <2>1, <2>3, <2>4 DEF RowAgrees
  <2>6. status'[a] # status[a] => <<status[a], status'[a]>> \in FlowSteps
    BY <2>1, <2>3 DEF FlowSteps
  <2> QED BY <1>0, <1>2, <1>3, <2>3, <2>5, <2>6, OneMoves, EndsAlone
<1>5. CASE c.at # "move"
  <2>1. status[a] # "AWAITING_PLATFORM_FEE_PAYMENT" /\ status' = status
    BY <1>0, <1>5 DEF WaiveWrite, ReadHolds
  <2>2. RowAgrees(a)'
    BY <1>0, <1>1, <1>2, <1>3, <2>1 DEF RowAgrees
  <2> QED BY <1>0, <1>2, <1>3, <2>1, <2>2, OneMoves, EndsAlone
<1> QED BY <1>4, <1>5

LEMMA CreateDisbursalSerially ==
    ASSUME SerialInv, NEW c \in calls, c.app \in App, CreateDisbursalWrite(c)
    PROVE  SerialRows' /\ SerialCalls' /\ Flows
<1> DEFINE a == c.app
<1>0. TypeOK /\ SerialRows /\ SerialCalls /\ RowAgrees(a)
  BY DEF SerialInv, IInv, SerialRows
<1>1. status[a] = "READY_FOR_DISBURSAL"
  BY DEF SerialInv, SerialCalls, ReadHolds, CreateDisbursalWrite, At
<1>2. /\ UNCHANGED <<status, fee, repayment>> /\ End(c)
      /\ \A b \in App \ {a} : disbursal'[b] = disbursal[b]
  BY <1>0 DEF CreateDisbursalWrite, appVars, TypeOK
<1>3. RowAgrees(a)'
  BY <1>0, <1>1, <1>2 DEF RowAgrees
<1> QED BY <1>0, <1>2, <1>3, OneMoves, EndsAlone

LEMMA DisburseSerially ==
    ASSUME SerialInv, NEW c \in calls, c.app \in App, DisburseWrite(c)
    PROVE  SerialRows' /\ SerialCalls' /\ Flows
<1> DEFINE a == c.app
<1>0. TypeOK /\ SerialRows /\ SerialCalls /\ RowAgrees(a) /\ End(c) /\ fee' = fee
  BY DEF SerialInv, IInv, SerialRows, DisburseWrite
<1>1. CASE disbursal[a] = "PENDING"
  <2>1. status[a] \in {"READY_FOR_DISBURSAL", "ADMIN_REJECTED"} /\ repayment[a] = "NONE"
    BY <1>1, PendingPayout
  <2>2. /\ status' = [status EXCEPT ![a] = "REPAYMENT_SCHEDULED"]
        /\ disbursal' = [disbursal EXCEPT ![a] = "SUCCESS"]
        /\ repayment' = [repayment EXCEPT ![a] = "SCHEDULED"]
    BY <1>1, <2>1 DEF DisburseWrite, SetStatus
  <2>3. /\ status'[a] = "REPAYMENT_SCHEDULED" /\ repayment'[a] = "SCHEDULED"
        /\ \A b \in App \ {a} : /\ status'[b] = status[b] /\ disbursal'[b] = disbursal[b]
                                /\ repayment'[b] = repayment[b]
    BY <1>0, <2>2 DEF TypeOK
  <2>4. RowAgrees(a)'
    BY <2>3 DEF RowAgrees
  <2>5. <<status[a], status'[a]>> \in FlowSteps
    BY <2>1, <2>3 DEF FlowSteps
  <2> QED BY <1>0, <2>3, <2>4, <2>5, OneMoves, EndsAlone
<1>2. CASE disbursal[a] # "PENDING"
  <2>1. UNCHANGED <<status, disbursal, repayment>>
    BY <1>2 DEF DisburseWrite, payoutVars
  <2> QED BY <1>0, <2>1, SameSerialRows, EndsAlone
<1> QED BY <1>1, <1>2

LEMMA ExpireSerially ==
    ASSUME SerialInv, NEW c \in calls, ExpireWrite(c)
    PROVE  SerialRows' /\ SerialCalls' /\ Flows
<1>0. TypeOK /\ SerialRows /\ SerialCalls /\ End(c) /\ UNCHANGED <<fee, disbursal, repayment>>
  BY DEF SerialInv, IInv, ExpireWrite, OnlyStatus, payoutVars
<1>1. \A a \in c.apps : status[a] = "SUBMITTED"
  BY <1>0 DEF SerialCalls, ReadHolds, ExpireWrite
<1>2. \A a \in App : IF a \in c.apps THEN status'[a] = "EXPIRED" ELSE status'[a] = status[a]
  BY DEF ExpireWrite
<1>3. \A a \in App : RowAgrees(a)'
  <2> TAKE a \in App
  <2>1. RowAgrees(a)
    BY <1>0 DEF SerialRows
  <2> QED BY <1>0, <1>1, <1>2, <2>1 DEF RowAgrees
<1>4. <<"SUBMITTED", "EXPIRED">> \in FlowSteps
  BY DEF FlowSteps
<1>5. Flows
  BY <1>1, <1>2, <1>4 DEF Flows
<1> QED BY <1>0, <1>3, <1>5, EndsAlone DEF SerialRows

(* The later statements of the only handler. *)
LEMMA ContinueSerially ==
    ASSUME SerialInv, NEW c \in calls, Continue(c)
    PROVE  SerialRows' /\ SerialCalls' /\ Flows
<1>0. /\ TypeOK /\ SerialRows /\ SerialCalls /\ ReadHolds(c)
      /\ c.op # "expire" => c.app \in App
  BY HandlerOfApp DEF SerialInv, IInv, TypeOK, SerialCalls
<1>1. CASE CheckFee(c) \/ EmployerApproveCheck(c) \/ LookUpOrder(c)
  <2>1. UNCHANGED <<status, fee, disbursal, repayment>>
    BY <1>1 DEF CheckFee, EmployerApproveCheck, LookUpOrder, Untouched, appVars, payoutVars
  <2>2. SerialCalls'
    <3>1. CASE End(c)
      BY <1>0, <3>1, EndsAlone
    <3>2. CASE GoOn(c, "write") /\ c.op # "expire" /\ (c.op = "waive" => c.at # "move")
      BY <1>0, <2>1, <3>2, GoesOnAlone
    <3> QED BY <1>1, <3>1, <3>2 DEF CheckFee, EmployerApproveCheck, LookUpOrder, At
  <2> QED BY <1>0, <2>1, <2>2, SameSerialRows
<1>2. CASE CreateWrite(c)
  BY <1>0, <1>2, DecideSerially DEF CreateWrite, Decide, At, ReadHolds
<1>3. CASE CancelWrite(c)
  BY <1>0, <1>3, DecideSerially DEF CancelWrite, Decide, At, ReadHolds
<1>4. CASE EmployerRejectWrite(c)
  BY <1>0, <1>4, DecideSerially DEF EmployerRejectWrite, Decide, At, ReadHolds
<1>5. CASE AdminRejectWrite(c)
  BY <1>0, <1>5, DecideSerially DEF AdminRejectWrite, Decide, At, ReadHolds
<1>6. CASE EmployerApproveWrite(c)
  BY <1>0, <1>6, EmployerApproveSerially DEF EmployerApproveWrite, At
<1>7. CASE AdminApproveWrite(c)
  BY <1>0, <1>7, AdminApproveSerially DEF AdminApproveWrite, At
<1>8. CASE WaiveWrite(c)
  BY <1>0, <1>8, WaiveSerially DEF WaiveWrite
<1>9. CASE CreateDisbursalWrite(c)
  BY <1>0, <1>9, CreateDisbursalSerially DEF CreateDisbursalWrite, At
<1>10. CASE DisburseWrite(c)
  BY <1>0, <1>10, DisburseSerially DEF DisburseWrite, At
<1>11. CASE ExpireWrite(c)
  BY <1>11, ExpireSerially
<1>12. CASE (\E o \in Order : CreateOrder(c, o)) \/ Abort(c)
  <2>1. UNCHANGED <<status, fee, disbursal, repayment>> /\ End(c)
    BY <1>12 DEF CreateOrder, Abort, appVars, payoutVars
  <2> QED BY <1>0, <2>1, SameSerialRows, EndsAlone
<1> QED
  BY <1>1, <1>2, <1>3, <1>4, <1>5, <1>6, <1>7, <1>8, <1>9, <1>10, <1>11, <1>12
     DEF Continue

(* A capture moves on only what waits for its fee, whose disbursal is      *)
(* still to come; every handler that could be about it is content.         *)
LEMMA CaptureSerially ==
    ASSUME SerialInv, NEW o \in Order, PaymentCaptured(o)
    PROVE  SerialRows' /\ SerialCalls' /\ Flows
<1> DEFINE a == AppOf[o]
<1>0. TypeOK /\ SerialRows /\ SerialCalls /\ RowAgrees(a) /\ a \in App
  BY OrderAssumption DEF SerialInv, IInv, SerialRows
<1>1. fee[a] # "NONE"
  BY DEF PaymentCaptured, SerialInv, IInv, OrdersHaveFee
<1>2. UNCHANGED <<disbursal, repayment, calls>>
  BY DEF PaymentCaptured, payoutVars
<1>3. CASE FeeCleared(a)
  <2>1. UNCHANGED <<status, fee>>
    BY <1>0, <1>3 DEF PaymentCaptured, MarkFeePaid, TypeOK
  <2> QED
    BY <1>0, <1>2, <2>1, SameSerialRows, SameReads DEF SerialCalls, Alone
<1>4. CASE ~ FeeCleared(a)
  <2>1. /\ fee' = [fee EXCEPT ![a] = "PAID"]
        /\ status' = CaptureMoves(a)
    BY <1>4 DEF PaymentCaptured, MarkFeePaid
  <2>2. \A b \in App \ {a} : status'[b] = status[b] /\ fee'[b] = fee[b]
    BY <1>0, <2>1 DEF CaptureMoves, TypeOK
  <2>3. fee'[a] = "PAID"
    BY <1>0, <2>1 DEF TypeOK
  <2>4. \/ status'[a] = status[a] /\ status[a] # "AWAITING_PLATFORM_FEE_PAYMENT"
        \/ /\ status[a] = "AWAITING_PLATFORM_FEE_PAYMENT"
           /\ status'[a] = "EMPLOYER_APPROVED"
    BY <1>0, <2>1 DEF CaptureMoves, TypeOK
  <2>5. disbursal[a] = "NONE"
    BY <1>0, <1>4 DEF SerialInv, IInv, FeeGate
  <2>6. RowAgrees(a)'
    BY <1>0, <1>1, <1>2, <2>3, <2>4, <2>5 DEF RowAgrees
  <2>7. status'[a] # status[a] => <<status[a], status'[a]>> \in FlowSteps
    BY <2>4 DEF FlowSteps
  <2>8. SerialRows' /\ Flows
    BY <1>0, <1>2, <2>2, <2>6, <2>7, OneMoves
  <2>9. ASSUME NEW c \in calls PROVE ReadHolds(c)'
    <3>1. ReadHolds(c)
      BY <1>0 DEF SerialCalls
    <3>2. CASE c.op = "expire"
      <4>1. c.apps \in SUBSET App /\ \A b \in c.apps : status[b] = "SUBMITTED"
        BY <1>0, <3>1, <3>2, ExpiryOfApps DEF TypeOK, ReadHolds
      <4>2. \A b \in c.apps : status'[b] = "SUBMITTED"
        BY <2>2, <2>4, <4>1
      <4> QED BY <3>2, <4>2 DEF ReadHolds
    <3>3. CASE c.op # "expire"
      <4>1. c.app \in App
        BY <1>0, <3>3, HandlerOfApp DEF TypeOK
      <4>2. \/ status'[c.app] = status[c.app]
            \/ /\ status[c.app] = "AWAITING_PLATFORM_FEE_PAYMENT"
               /\ status'[c.app] = "EMPLOYER_APPROVED"
        BY <2>2, <2>4, <4>1
      <4> QED BY <3>1, <3>3, <4>2 DEF ReadHolds, RejectableStatuses
    <3> QED BY <3>2, <3>3
  <2> QED BY <1>0, <1>2, <2>8, <2>9 DEF SerialCalls, Alone
<1> QED BY <1>3, <1>4

(* A repayment closes what is scheduled, which no handler has read for a   *)
(* decision.                                                               *)
LEMMA PaySerially ==
    ASSUME SerialInv, NEW a \in App, Pay(a)
    PROVE  SerialRows' /\ SerialCalls' /\ Flows
<1>0. TypeOK /\ SerialRows /\ SerialCalls /\ RowAgrees(a)
  BY DEF SerialInv, IInv, SerialRows
<1>1. status[a] = "REPAYMENT_SCHEDULED" /\ UNCHANGED <<fee, disbursal, calls>>
  BY <1>0 DEF Pay, RowAgrees
<1>2. status' = [status EXCEPT ![a] = "REPAID"] /\ repayment' = [repayment EXCEPT ![a] = "PAID"]
  BY DEF Pay, SetStatus
<1>3. /\ status'[a] = "REPAID" /\ repayment'[a] = "PAID"
      /\ \A b \in App \ {a} : status'[b] = status[b] /\ repayment'[b] = repayment[b]
  BY <1>0, <1>2 DEF TypeOK
<1>4. RowAgrees(a)'
  BY <1>3 DEF RowAgrees
<1>5. <<status[a], status'[a]>> \in FlowSteps
  BY <1>1, <1>3 DEF FlowSteps
<1>6. SerialRows' /\ Flows
  BY <1>0, <1>1, <1>3, <1>4, <1>5, OneMoves
<1>7. ASSUME NEW c \in calls PROVE ReadHolds(c)'
  <2>1. ReadHolds(c)
    BY <1>0 DEF SerialCalls
  <2>2. CASE c.op = "expire"
    <3>1. c.apps \in SUBSET App /\ \A b \in c.apps : status[b] = "SUBMITTED"
      BY <1>0, <2>1, <2>2, ExpiryOfApps DEF TypeOK, ReadHolds
    <3>2. \A b \in c.apps : status'[b] = "SUBMITTED"
      BY <1>1, <1>3, <3>1
    <3> QED BY <2>2, <3>2 DEF ReadHolds
  <2>3. CASE c.op # "expire"
    <3>1. c.app \in App
      BY <1>0, <2>3, HandlerOfApp DEF TypeOK
    <3>2. \/ status'[c.app] = status[c.app]
          \/ status[c.app] = "REPAYMENT_SCHEDULED" /\ status'[c.app] = "REPAID"
      BY <1>1, <1>3, <3>1
    <3> QED BY <2>1, <2>3, <3>2 DEF ReadHolds, RejectableStatuses
  <2> QED BY <2>2, <2>3
<1> QED BY <1>0, <1>1, <1>6, <1>7 DEF SerialCalls, Alone

(* A step of a program that serves one request at a time. *)
LEMMA SerialStep ==
    ASSUME OneRequest, SerialInv, [Next]_vars
    PROVE  SerialInv' /\ Flows
<1>0. TypeOK /\ SerialRows /\ SerialCalls
  BY DEF SerialInv, IInv
<1>1. ASSUME NEW r \in Request, NEW stale \in SUBSET App, ExpireRead(r, stale)
      PROVE  SerialRows' /\ SerialCalls' /\ Flows
  <2> DEFINE call == [req |-> r, op |-> "expire", apps |-> stale]
  <2>1. UNCHANGED <<status, fee, disbursal, repayment>>
    BY <1>1 DEF ExpireRead, Untouched, appVars, payoutVars
  <2>2. calls' = {call}
    BY <1>0, <1>1, BeginsAlone DEF ExpireRead
  <2>3. ReadHolds(call)'
    <3>1. ReadHolds(call)
      BY <1>1 DEF ExpireRead, ReadHolds
    <3> HIDE DEF call
    <3> QED BY <2>1, <3>1, SameReads
  <2> HIDE DEF call
  <2> QED BY <1>0, <2>1, <2>2, <2>3, SameSerialRows DEF SerialCalls, Alone
<1>2. ASSUME UNCHANGED <<status, fee, disbursal, repayment, calls>>
      PROVE  SerialRows' /\ SerialCalls' /\ Flows
  BY <1>0, <1>2, SameSerialRows, SameReads DEF SerialCalls, Alone
<1>3. ASSUME NEW o \in Order, Gateway(o)
      PROVE  SerialRows' /\ SerialCalls' /\ Flows
  BY <1>2, <1>3, CaptureSerially
     DEF Gateway, EmployeePays, PaymentFailed, OrderLapses, appVars, payoutVars
<1>4. ASSUME UNCHANGED vars PROVE SerialRows' /\ SerialCalls' /\ Flows
  BY <1>2, <1>4 DEF vars, appVars, payoutVars
<1>5. SerialRows' /\ SerialCalls' /\ Flows
  BY <1>1, <1>3, <1>4, StartSerially, ContinueSerially, PaySerially DEF Next
<1>6. IInv'
  <2>1. TypeOK' /\ RowsInv' /\ CallsInv'
    BY TypeStep, InvStep DEF SerialInv, IInv, RowsInv, CallsInv
  <2> QED BY <2>1 DEF IInv, RowsInv, CallsInv
<1> QED BY <1>5, <1>6 DEF SerialInv

LEMMA SerialInvariance == ASSUME OneRequest PROVE Spec => []SerialInv
<1>1. Init => SerialRows /\ SerialCalls
  BY DEF Init, SerialRows, RowAgrees, SerialCalls, Alone
<1>2. IInv /\ SerialRows /\ SerialCalls <=> SerialInv
  BY DEF SerialInv
<1>3. SerialInv /\ [Next]_vars => SerialInv'
  BY SerialStep
<1> QED BY <1>1, <1>2, <1>3, Invariance, PTL DEF Spec

(* Where handlers do not overlap, an application that waits for its fee    *)
(* can still pay it.                                                       *)
THEOREM WaitingCanPay == ASSUME OneRequest PROVE Spec => []AwaitingIsPayable
<1>1. SerialInv => AwaitingIsPayable
  BY DEF SerialInv, SerialRows, RowAgrees, AwaitingIsPayable
<1> QED BY <1>1, SerialInvariance, PTL

(* Where handlers do not overlap, an employee owes one advance at most.    *)
THEOREM OneDebt == ASSUME OneRequest PROVE Spec => []OneOpenDebt
<1>1. SerialInv => OneOpenDebt
  <2> SUFFICES ASSUME SerialInv, NEW a \in App, NEW b \in App,
                      EmployeeOf[a] = EmployeeOf[b], Owed(a), Owed(b)
               PROVE  a = b
    BY DEF OneOpenDebt
  <2>1. \A p \in App : Owed(p) => status[p] = "REPAYMENT_SCHEDULED"
    BY DEF Owed, SerialInv, SerialRows, RowAgrees, IInv, TypeOK, RepaymentStatus
  <2> QED BY <2>1 DEF SerialInv, IInv, OneActiveAdvance, ActiveStatuses
<1> QED BY <1>1, SerialInvariance, PTL

(* Where handlers do not overlap, an application only ever takes the steps *)
(* of the business flow.                                                   *)
THEOREM FlowIsFollowed == ASSUME OneRequest PROVE Spec => FollowsFlow
<1>1. SerialInv /\ [Next]_vars =>
        [\A a \in App : status'[a] # status[a] => <<status[a], status'[a]>> \in FlowSteps]_vars
  BY SerialStep DEF Flows
<1> QED BY <1>1, SerialInvariance, PTL DEF Spec, FollowsFlow
=============================================================================
