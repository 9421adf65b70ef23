----------------------------- MODULE Disbursals -----------------------------
(***************************************************************************)
(* DisbursalsService and the direct repayment of RepaymentsService.        *)
(*                                                                         *)
(* The gates on the employer's risk status and on the employee's verified  *)
(* bank account read rows this module does not hold: a request they refuse *)
(* changes nothing, so they only decide whether a step is taken.           *)
(***************************************************************************)
EXTENDS PlatformFees

(* create reads the application and finds no disbursal of it; an existing  *)
(* one is returned as it is.                                               *)
CreateDisbursalRead(r, a) ==
    /\ disbursal[a] = "NONE"
    /\ status[a] = "READY_FOR_DISBURSAL"
    /\ BeginOn(r, "createDisbursal", a, "fee")
    /\ UNCHANGED <<appVars, fee, orderVars, payoutVars>>

(* The upsert, which leaves a row created meanwhile alone. *)
CreateDisbursalWrite(c) ==
    /\ At(c, "createDisbursal", "write")
    /\ disbursal' = [disbursal EXCEPT ![c.app] = IF @ = "NONE" THEN "PENDING" ELSE @]
    /\ End(c)
    /\ UNCHANGED <<appVars, fee, orderVars, payouts, repayment>>

(* disburse reads the disbursal and the application, of whose status it    *)
(* asks nothing.                                                           *)
DisburseRead(r, a) ==
    /\ disbursal[a] = "PENDING"
    /\ BeginOn(r, "disburse", a, "fee")
    /\ UNCHANGED <<appVars, fee, orderVars, payoutVars>>

(* A payout that schedules the repayment without claiming the disbursal. *)
PayoutUnclaimed(c) ==
    /\ At(c, "disburse", "write")
    /\ disbursal' = [disbursal EXCEPT ![c.app] = "SUCCESS"]
    /\ payouts' = [payouts EXCEPT ![c.app] = @ + 1]
    /\ repayment' = [repayment EXCEPT ![c.app] = IF @ = "NONE" THEN "SCHEDULED" ELSE @]
    /\ SetStatus(c.app, "REPAYMENT_SCHEDULED")
    /\ End(c)
    /\ UNCHANGED <<employerApproved, adminApproved, fee, orderVars>>

(* One transaction claims the disbursal, schedules the repayment and moves *)
(* the application; a claim that comes second returns what it finds.       *)
DisburseWrite(c) ==
    /\ At(c, "disburse", "write")
    /\ IF disbursal[c.app] = "PENDING"
       THEN /\ disbursal' = [disbursal EXCEPT ![c.app] = "SUCCESS"]
            /\ payouts' = [payouts EXCEPT ![c.app] = @ + 1]
            /\ repayment' = [repayment EXCEPT ![c.app] =
                                 IF @ = "NONE" THEN "SCHEDULED" ELSE @]
            /\ SetStatus(c.app, "REPAYMENT_SCHEDULED")
       ELSE UNCHANGED <<payoutVars, status>>
    /\ End(c)
    /\ UNCHANGED <<employerApproved, adminApproved, fee, orderVars>>

(* RepaymentsService.pay: the claim on the repayment and the application's *)
(* REPAID are one transaction.                                             *)
Pay(a) ==
    /\ repayment[a] = "SCHEDULED"
    /\ repayment' = [repayment EXCEPT ![a] = "PAID"]
    /\ SetStatus(a, "REPAID")
    /\ UNCHANGED <<employerApproved, adminApproved, fee, orderVars, disbursal, payouts, calls>>
=============================================================================
