--------------------------- MODULE PayoutContract ---------------------------
(***************************************************************************)
(* What a salary advance promises about money: an application is paid out  *)
(* at most once, and only after the employer approved it, its platform fee *)
(* was cleared and the admin approved it, in that order; a debt is booked  *)
(* with the payout and only with it.  None of these facts is ever undone.  *)
(***************************************************************************)
EXTENDS Naturals

CONSTANT App

VARIABLES employerOk, feeOk, adminOk, payouts, booked

vars == <<employerOk, feeOk, adminOk, payouts, booked>>

Init ==
    /\ employerOk = {} /\ feeOk = {} /\ adminOk = {}
    /\ payouts = [a \in App |-> 0] /\ booked = {}

EmployerAgrees(a) ==
    /\ a \notin employerOk
    /\ employerOk' = employerOk \cup {a}
    /\ UNCHANGED <<feeOk, adminOk, payouts, booked>>

FeeClears(a) ==
    /\ a \in employerOk \ feeOk
    /\ feeOk' = feeOk \cup {a}
    /\ UNCHANGED <<employerOk, adminOk, payouts, booked>>

AdminAgrees(a) ==
    /\ a \in feeOk \ adminOk
    /\ adminOk' = adminOk \cup {a}
    /\ UNCHANGED <<employerOk, feeOk, payouts, booked>>

PaysOut(a) ==
    /\ a \in adminOk
    /\ payouts[a] = 0
    /\ payouts' = [payouts EXCEPT ![a] = @ + 1]
    /\ booked' = booked \cup {a}
    /\ UNCHANGED <<employerOk, feeOk, adminOk>>

Next ==
    \E a \in App :
        \/ EmployerAgrees(a) \/ FeeClears(a) \/ AdminAgrees(a) \/ PaysOut(a)

Spec == Init /\ [][Next]_vars
=============================================================================
