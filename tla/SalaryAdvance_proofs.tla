------------------------ MODULE SalaryAdvance_proofs ------------------------
(***************************************************************************)
(* Proofs about SalaryAdvance, for any sets of employees, applications,    *)
(* orders and requests.                                                    *)
(***************************************************************************)
EXTENDS SalaryAdvance, TLAPS

----------------------------------------------------------------------------
(* What the event loop does to the set of calls.                           *)

(* A handler that begins under one of its operations is a call. *)
LEMMA NewCallIsCall ==
    ASSUME calls \in SUBSET Call, NEW r \in Request, NEW op \in Handler,
           NEW a \in App, NEW at \in Point, BeginOn(r, op, a, at)
    PROVE  calls' \in SUBSET Call
BY DEF BeginOn, Begin, Call, HandlerCall

(* An expiry run that begins is a call. *)
LEMMA NewExpiryIsCall ==
    ASSUME calls \in SUBSET Call, NEW r \in Request, NEW stale \in SUBSET App,
           Begin([req |-> r, op |-> "expire", apps |-> stale])
    PROVE  calls' \in SUBSET Call
BY DEF Begin, Call, ExpiryRun

(* A handler that ends leaves the others as they were. *)
LEMMA EndedCall ==
    ASSUME calls \in SUBSET Call, NEW c \in calls, End(c)
    PROVE  calls' \in SUBSET Call
BY DEF End

(* A handler that goes on is still a call. *)
LEMMA OngoingCallIsCall ==
    ASSUME calls \in SUBSET Call, NEW c \in calls, c.op # "expire",
           NEW at \in Point, GoOn(c, at)
    PROVE  calls' \in SUBSET Call
BY DEF GoOn, Call, HandlerCall, ExpiryRun

(* Every handler but an expiry run is about one application. *)
LEMMA HandlerOfApp ==
    ASSUME calls \in SUBSET Call, NEW c \in calls, c.op # "expire"
    PROVE  c.app \in App
BY DEF Call, HandlerCall, ExpiryRun

(* An expiry run is about a set of applications. *)
LEMMA ExpiryOfApps ==
    ASSUME calls \in SUBSET Call, NEW c \in calls, c.op = "expire"
    PROVE  c.apps \in SUBSET App
BY DEF Call, HandlerCall, ExpiryRun, Handler

(* An update of one status keeps the column's type. *)
LEMMA SetStatusType ==
    ASSUME status \in [App -> AppStatus], NEW a \in App, NEW s \in AppStatus,
           SetStatus(a, s)
    PROVE  status' \in [App -> AppStatus]
BY DEF SetStatus

----------------------------------------------------------------------------
(* Type correctness, one step per action.                                  *)

(* The first statement of a handler keeps every table and call in its type. *)
LEMMA StartType ==
    ASSUME TypeOK, NEW r \in Request, NEW a \in App, Start(r, a)
    PROVE  TypeOK'
<1> USE NewCallIsCall DEF TypeOK, appVars, orderVars, payoutVars, Handler, Point
<1>1. CASE CreateRead(r, a)
  BY <1>1 DEF CreateRead, Read, Untouched
<1>2. CASE CancelRead(r, a)
  BY <1>2 DEF CancelRead, Read, Untouched
<1>3. CASE EmployerApproveRead(r, a)
  BY <1>3 DEF EmployerApproveRead, Read, Untouched
<1>4. CASE EmployerRejectRead(r, a)
  BY <1>4 DEF EmployerRejectRead, Read, Untouched
<1>5. CASE AdminApproveRead(r, a)
  BY <1>5 DEF AdminApproveRead, Read, Untouched
<1>6. CASE AdminRejectRead(r, a)
  BY <1>6 DEF AdminRejectRead, Read, Untouched
<1>7. CASE ReadForPayment(r, a)
  BY <1>7 DEF ReadForPayment, FeeEnsured, FeeStatus
<1>8. CASE WaiveRead(r, a)
  BY <1>8 DEF WaiveRead
<1>9. CASE CreateDisbursalRead(r, a)
  BY <1>9 DEF CreateDisbursalRead
<1>10. CASE DisburseRead(r, a)
  BY <1>10 DEF DisburseRead
<1> QED
  BY <1>1, <1>2, <1>3, <1>4, <1>5, <1>6, <1>7, <1>8, <1>9, <1>10 DEF Start

(* The later statements of a handler do too. *)
LEMMA ContinueType ==
    ASSUME TypeOK, NEW c \in calls, Continue(c)
    PROVE  TypeOK'
<1> USE EndedCall, HandlerOfApp, SetStatusType
    DEF TypeOK, appVars, orderVars, payoutVars, At
<1>0. {"SUBMITTED", "CANCELLED", "EMPLOYER_REJECTED", "ADMIN_REJECTED",
       "AWAITING_PLATFORM_FEE_PAYMENT", "EMPLOYER_APPROVED",
       "READY_FOR_DISBURSAL", "REPAYMENT_SCHEDULED", "EXPIRED"} \subseteq AppStatus
  BY DEF AppStatus, ActiveStatuses, ClosedStatuses
<1>1. CASE CheckFee(c)
  BY <1>1, OngoingCallIsCall DEF CheckFee, Point
<1>2. CASE CreateWrite(c)
  BY <1>0, <1>2 DEF CreateWrite, Decide, OnlyStatus
<1>3. CASE CancelWrite(c)
  BY <1>0, <1>3 DEF CancelWrite, Decide, OnlyStatus
<1>4. CASE EmployerApproveCheck(c)
  BY <1>4, OngoingCallIsCall DEF EmployerApproveCheck, Untouched, Point
<1>5. CASE EmployerApproveWrite(c)
  BY <1>0, <1>5 DEF EmployerApproveWrite, FeeEnsured, FeeStatus
<1>6. CASE EmployerRejectWrite(c)
  BY <1>0, <1>6 DEF EmployerRejectWrite, Decide, OnlyStatus
<1>7. CASE AdminApproveWrite(c)
  BY <1>0, <1>7 DEF AdminApproveWrite
<1>8. CASE AdminRejectWrite(c)
  BY <1>0, <1>8 DEF AdminRejectWrite, Decide, OnlyStatus
<1>9. CASE LookUpOrder(c)
  BY <1>9, OngoingCallIsCall DEF LookUpOrder, Point
<1>10. CASE \E o \in Order : CreateOrder(c, o)
  BY <1>10 DEF CreateOrder, OrderStatus
<1>11. CASE WaiveWrite(c)
  BY <1>0, <1>11 DEF WaiveWrite, FeeStatus
<1>12. CASE CreateDisbursalWrite(c)
  BY <1>12 DEF CreateDisbursalWrite, DisbursalStatus
<1>13. CASE DisburseWrite(c)
  <2>1. c.app \in App
    BY <1>13 DEF DisburseWrite
  <2>2. status' \in [App -> AppStatus]
    BY <1>0, <1>13, <2>1 DEF DisburseWrite
  <2> QED
    BY <1>13, <2>1, <2>2 DEF DisburseWrite, DisbursalStatus, RepaymentStatus
<1>14. CASE ExpireWrite(c)
  <2>1. status' \in [App -> AppStatus]
    BY <1>0, <1>14 DEF ExpireWrite
  <2> QED
    BY <1>14, <2>1 DEF ExpireWrite, OnlyStatus
<1>15. CASE Abort(c)
  BY <1>15 DEF Abort
<1> QED
  BY <1>1, <1>2, <1>3, <1>4, <1>5, <1>6, <1>7, <1>8, <1>9, <1>10, <1>11, <1>12,
     <1>13, <1>14, <1>15 DEF Continue

(* The gateway and the direct repayment do too. *)
LEMMA GatewayType ==
    ASSUME TypeOK, NEW o \in Order, Gateway(o)
    PROVE  TypeOK'
<1> USE OrderAssumption DEF TypeOK, appVars, orderVars, payoutVars
<1>1. CASE EmployeePays(o)
  BY <1>1 DEF EmployeePays
<1>2. CASE PaymentCaptured(o)
  <2>1. status' \in [App -> AppStatus]
    BY <1>2 DEF PaymentCaptured, MarkFeePaid, CaptureMoves, AppStatus, ActiveStatuses
  <2> QED
    BY <1>2, <2>1 DEF PaymentCaptured, MarkFeePaid, OrderStatus, FeeStatus
<1>3. CASE PaymentFailed(o)
  BY <1>3 DEF PaymentFailed, OrderStatus
<1>4. CASE OrderLapses(o)
  BY <1>4 DEF OrderLapses, OrderStatus
<1> QED
  BY <1>1, <1>2, <1>3, <1>4 DEF Gateway

(* Every step keeps every table and call in its type. *)
LEMMA TypeStep == TypeOK /\ [Next]_vars => TypeOK'
<1> SUFFICES ASSUME TypeOK, [Next]_vars PROVE TypeOK'
  OBVIOUS
<1>1. ASSUME NEW r \in Request, NEW stale \in SUBSET App, ExpireRead(r, stale)
      PROVE  TypeOK'
  BY <1>1, NewExpiryIsCall
     DEF ExpireRead, Untouched, TypeOK, appVars, orderVars, payoutVars
<1>2. ASSUME NEW a \in App, Pay(a) PROVE TypeOK'
  <2>1. status' \in [App -> AppStatus]
    BY <1>2, SetStatusType DEF Pay, TypeOK, AppStatus, ClosedStatuses
  <2> QED
    BY <1>2, <2>1 DEF Pay, TypeOK, RepaymentStatus, orderVars
<1>3. CASE UNCHANGED vars
  BY <1>3 DEF vars, TypeOK, appVars, orderVars, payoutVars
<1> QED
  BY <1>1, <1>2, <1>3, StartType, ContinueType, GatewayType DEF Next

(* Every column of every table holds only the values its readers know, and *)
(* every handler in flight is one the event loop can go on with.           *)
THEOREM TypeCorrect == Spec => []TypeOK
<1>1. Init => TypeOK
  BY DEF Init, TypeOK, AppStatus, FeeStatus, OrderStatus, DisbursalStatus,
         RepaymentStatus
<1> QED
  BY <1>1, TypeStep, PTL DEF Spec
=============================================================================
