------------------------- MODULE Settlements_proofs -------------------------
(***************************************************************************)
(* Proofs about Settlements, for any sets of employers, repayments and     *)
(* requests and any number of months.                                      *)
(***************************************************************************)
EXTENDS Settlements, TLAPS

(* An assessed risk call is a call. *)
LEMMA AssessedIsCall ==
    ASSUME calls \in SUBSET Call, NEW c \in calls, c.op = "risk",
           NEW level \in RiskStatus, NEW mark \in SUBSET Settlement,
           AssessedAs(c, level, mark)
    PROVE  calls' \in SUBSET Call
<1>1. c \in RiskCall
  BY DEF Call, DisburseCall, RecoveryCall, RepaymentJob, SettlementJob
<1>2. [c EXCEPT !.level = level, !.mark = mark] \in RiskCall
  BY <1>1 DEF RiskCall
<1> QED
  BY <1>2 DEF AssessedAs, Call

(* A risk call that begins is a call. *)
LEMMA NewRiskIsCall ==
    ASSUME calls \in SUBSET Call, NEW r \in Request, NEW e \in Employer, RiskBegin(r, e)
    PROVE  calls' \in SUBSET Call
BY DEF RiskBegin, Begin, Call, RiskCall

(* The later statements of a handler keep every table and call in its type. *)
LEMMA ContinueType ==
    ASSUME TypeOK, NEW c \in calls, Continue(c)
    PROVE  TypeOK'
<1> USE DEF TypeOK, End, repaymentVars, settlementVars, clockVars
<1>0. c \in Call
  OBVIOUS
<1>1. CASE DisburseWrite(c)
  BY <1>1 DEF DisburseWrite, RepaymentStatus
<1>2. CASE RecoverWrite(c)
  <2>1. c \in RecoveryCall
    BY <1>0, <1>2 DEF RecoverWrite, Call, DisburseCall, RiskCall, RepaymentJob, SettlementJob
  <2>2. c.chosen \in SUBSET Repayment
    BY <2>1 DEF RecoveryCall
  <2> QED
    BY <1>2, <2>2 DEF RecoverWrite, SettlementStatus
<1>3. CASE RiskRead(c)
  <2>1. calls' \in SUBSET Call
    <3>1. \E level \in RiskStatus, mark \in SUBSET Settlement : AssessedAs(c, level, mark)
      <4>1. CASE \E s \in Unpaid(c.id, {"grace over"}) : AssessedAs(c, "BLOCKED", {s})
        <5>1. PICK s \in Unpaid(c.id, {"grace over"}) : AssessedAs(c, "BLOCKED", {s})
          BY <4>1
        <5>2. {s} \in SUBSET Settlement /\ "BLOCKED" \in RiskStatus
          BY <5>1 DEF Unpaid, RiskStatus
        <5> QED
          BY <5>1, <5>2
      <4>2. CASE AssessedAs(c, IF Unpaid(c.id, {"due"}) = {} THEN "GOOD" ELSE "WARNING", {})
        <5>1. (IF Unpaid(c.id, {"due"}) = {} THEN "GOOD" ELSE "WARNING") \in RiskStatus
          BY DEF RiskStatus
        <5> QED
          BY <4>2, <5>1
      <4> QED
        BY <1>3, <4>1, <4>2 DEF RiskRead
    <3> QED
      BY <1>3, <3>1, AssessedIsCall DEF RiskRead
  <2> QED
    BY <1>3, <2>1 DEF RiskRead, Unmoved
<1>4. CASE RiskMark(c)
  <2>1. c \in RiskCall
    BY <1>0, <1>4 DEF RiskMark, Call, DisburseCall, RecoveryCall, RepaymentJob, SettlementJob
  <2>2. calls' \in SUBSET Call
    <3>1. [c EXCEPT !.level = c.level, !.mark = {}] \in RiskCall
      BY <2>1 DEF RiskCall
    <3> QED
      BY <1>4, <3>1 DEF RiskMark, AssessedAs, Call
  <2>3. settlement' \in [Settlement -> SettlementStatus]
    BY <1>4 DEF RiskMark, SettlementStatus
  <2> QED
    BY <1>4, <2>2, <2>3 DEF RiskMark
<1>5. CASE RiskWrite(c)
  <2>1. c \in RiskCall
    BY <1>0, <1>5 DEF RiskWrite, Call, DisburseCall, RecoveryCall, RepaymentJob, SettlementJob
  <2>2. c.level \in RiskStatus
    BY <1>5, <2>1 DEF RiskWrite, RiskCall
  <2> QED
    BY <1>5, <2>2 DEF RiskWrite
<1>6. CASE RepaymentsOverdueWrite(c)
  BY <1>6 DEF RepaymentsOverdueWrite, RepaymentStatus
<1>7. CASE SettlementsOverdueWrite(c)
  BY <1>7 DEF SettlementsOverdueWrite, SettlementStatus
<1>8. CASE Abort(c)
  BY <1>8 DEF Abort, Unmoved
<1> QED
  BY <1>1, <1>2, <1>3, <1>4, <1>5, <1>6, <1>7, <1>8 DEF Continue

(* Every step does. *)
LEMMA TypeStep == TypeOK /\ [Next]_vars => TypeOK'
<1> SUFFICES ASSUME TypeOK, [Next]_vars PROVE TypeOK'
  OBVIOUS
<1> USE EmployerAssumption, MonthsAssumption
    DEF TypeOK, repaymentVars, settlementVars, clockVars, Unmoved
<1>1. ASSUME NEW r \in Request, NEW p \in Repayment, DisburseRead(r, p) PROVE TypeOK'
  BY <1>1 DEF DisburseRead, Begin, Call, DisburseCall
<1>2. ASSUME NEW r \in Request, NEW e \in Employer, RecoverRead(r, e) PROVE TypeOK'
  <2> DEFINE chosen == {p \in Repayment : /\ EmployerOf[p] = e
                                          /\ repayment[p] = "SCHEDULED"
                                          /\ p \in due \ Billed}
  <2>1. <<e, month>> \in Settlement
    BY DEF Settlement
  <2>2. [req |-> r, op |-> "recover", id |-> <<e, month>>, chosen |-> chosen] \in Call
    BY <2>1 DEF Call, RecoveryCall
  <2> QED
    BY <1>2, <2>2 DEF RecoverRead, Begin
<1>3. ASSUME NEW r \in Request, NEW e \in Employer, CheckRisk(r, e) PROVE TypeOK'
  BY <1>3, NewRiskIsCall DEF CheckRisk
<1>4. ASSUME NEW r \in Request, NEW s \in Settlement, MarkPaid(r, s) PROVE TypeOK'
  <2>1. s[1] \in Employer
    BY DEF Settlement
  <2>2. calls' \in SUBSET Call
    BY <1>4, <2>1, NewRiskIsCall DEF MarkPaid
  <2>3. repayment' \in [Repayment -> RepaymentStatus]
    BY <1>4 DEF MarkPaid, RepaymentStatus
  <2> QED
    BY <1>4, <2>2, <2>3 DEF MarkPaid, SettlementStatus
<1>5. ASSUME NEW r \in Request, RepaymentsOverdueRead(r) PROVE TypeOK'
  BY <1>5 DEF RepaymentsOverdueRead, Begin, Call, RepaymentJob
<1>6. ASSUME NEW r \in Request, SettlementsOverdueRead(r) PROVE TypeOK'
  BY <1>6 DEF SettlementsOverdueRead, Begin, Call, SettlementJob
<1>7. ASSUME NEW p \in Repayment, Pay(p) \/ FallsDue(p) PROVE TypeOK'
  BY <1>7 DEF Pay, FallsDue, RepaymentStatus
<1>8. ASSUME NEW s \in Settlement, Ages(s) PROVE TypeOK'
  BY <1>8 DEF Ages, Lateness
<1>9. CASE MonthPasses
  BY <1>9 DEF MonthPasses
<1>10. CASE UNCHANGED vars
  BY <1>10 DEF vars
<1> QED
  BY <1>1, <1>2, <1>3, <1>4, <1>5, <1>6, <1>7, <1>8, <1>9, <1>10, ContinueType DEF Next

(* Every column holds only the values its readers know, and every handler  *)
(* in flight is one the event loop can go on with.                         *)
THEOREM TypeCorrect == Spec => []TypeOK
<1>1. Init => TypeOK
  BY MonthsAssumption
     DEF Init, TypeOK, RepaymentStatus, SettlementStatus, Lateness, RiskStatus
<1> QED
  BY <1>1, TypeStep, PTL DEF Spec

----------------------------------------------------------------------------
(* The safety invariant.                                                   *)

(* A step that bills nothing new leaves every repayment billed once.       *)
LEMMA BilledStep ==
    ASSUME TypeOK, BilledOnce, [Next]_vars
    PROVE  BilledOnce'
<1>1. CASE UNCHANGED lines
  BY <1>1 DEF BilledOnce
<1>2. ASSUME NEW c \in calls, RecoverWrite(c)
      PROVE  BilledOnce'
  <2>1. \A s \in Settlement : lines'[s] = lines[s] \/ (s = c.id /\ lines'[s] = c.chosen)
    BY <1>2 DEF RecoverWrite, TypeOK
  <2>2. \A s \in Settlement : c.chosen \cap lines[s] = {}
    BY <1>2 DEF RecoverWrite, Billed
  <2> QED
    BY <2>1, <2>2 DEF BilledOnce
<1> QED
  BY <1>1, <1>2
     DEF Next, Continue, vars, settlementVars, Unmoved, DisburseRead, RecoverRead, CheckRisk,
         MarkPaid, RepaymentsOverdueRead, SettlementsOverdueRead, DisburseWrite, RiskRead,
         RiskMark, RiskWrite, RepaymentsOverdueWrite, SettlementsOverdueWrite, Abort, Pay,
         FallsDue, Ages, MonthPasses

(* Only a direct payment and a settlement make anything PAID, and both     *)
(* close the application with it.                                          *)
LEMMA PaidStep ==
    ASSUME TypeOK, PaidIsRepaid, [Next]_vars
    PROVE  PaidIsRepaid'
<1> USE DEF TypeOK, PaidIsRepaid
<1>1. CASE UNCHANGED <<repaymentVars, settlement, lines>>
  BY <1>1 DEF repaymentVars
<1>2. ASSUME NEW c \in calls, DisburseWrite(c) PROVE PaidIsRepaid'
  BY <1>2 DEF DisburseWrite, settlementVars
<1>3. ASSUME NEW c \in calls, RecoverWrite(c) PROVE PaidIsRepaid'
  BY <1>3 DEF RecoverWrite, repaymentVars
<1>4. ASSUME NEW c \in calls, RiskMark(c) PROVE PaidIsRepaid'
  BY <1>4 DEF RiskMark, repaymentVars
<1>5. ASSUME NEW c \in calls, RepaymentsOverdueWrite(c) PROVE PaidIsRepaid'
  BY <1>5 DEF RepaymentsOverdueWrite, settlementVars
<1>6. ASSUME NEW c \in calls, SettlementsOverdueWrite(c) PROVE PaidIsRepaid'
  BY <1>6 DEF SettlementsOverdueWrite, repaymentVars
<1>7. ASSUME NEW p \in Repayment, Pay(p) PROVE PaidIsRepaid'
  BY <1>7 DEF Pay, settlementVars
<1>8. ASSUME NEW r \in Request, NEW s \in Settlement, MarkPaid(r, s) PROVE PaidIsRepaid'
  BY <1>8 DEF MarkPaid
<1> QED
  BY <1>1, <1>2, <1>3, <1>4, <1>5, <1>6, <1>7, <1>8
     DEF Next, Continue, vars, settlementVars, Unmoved, DisburseRead, RecoverRead, CheckRisk,
         RepaymentsOverdueRead, SettlementsOverdueRead, RiskRead, RiskWrite, Abort,
         FallsDue, Ages, MonthPasses

(* Recovery bills a repayment once, whatever recovery runs race over       *)
(* however many months.                                                    *)
THEOREM NoDoubleBilling == Spec => []BilledOnce
<1>1. Init => BilledOnce
  BY DEF Init, BilledOnce
<1>2. TypeOK /\ BilledOnce /\ [Next]_vars => BilledOnce'
  BY BilledStep
<1> QED
  BY <1>1, <1>2, TypeCorrect, PTL DEF Spec

(* A payment that was recorded has closed its application, and nothing a   *)
(* stale job writes afterwards opens that again.                           *)
THEOREM PaymentClosesAdvance == Spec => []PaidIsRepaid
<1>1. Init => PaidIsRepaid
  BY DEF Init, PaidIsRepaid
<1>2. TypeOK /\ PaidIsRepaid /\ [Next]_vars => PaidIsRepaid'
  BY PaidStep
<1> QED
  BY <1>1, <1>2, TypeCorrect, PTL DEF Spec

----------------------------------------------------------------------------
(* Handlers that do not overlap.                                           *)

(* Only one request is served at a time. *)
OneRequest == \A r, s \in Request : r = s

Alone == \A c, d \in calls : c = d

(* What a handler read is still so when it writes: a repayment that the    *)
(* job lists is not of a settlement closed since, a settlement that is     *)
(* listed or marked is not paid.                                           *)
ReadsHold ==
    \A c \in calls :
        /\ c.op = "repaymentsOverdue" =>
             \A s \in Settlement : settlement[s] = "PAID" => lines[s] \cap c.chosen = {}
        /\ c.op = "settlementsOverdue" => \A s \in c.chosen : settlement[s] # "PAID"
        /\ c.op = "risk" => \A s \in c.mark : settlement[s] # "PAID"

SerialInv == TypeOK /\ Alone /\ SettlementCloses /\ ReadsHold

(* The only handler begins when nothing is in flight. *)
LEMMA BeginsAlone ==
    ASSUME OneRequest, TypeOK, NEW call, call.req \in Request, Begin(call)
    PROVE  calls = {} /\ calls' = {call}
<1>1. \A c \in calls : c.req \in Request
  BY DEF TypeOK, Call, DisburseCall, RecoveryCall, RiskCall, RepaymentJob, SettlementJob
<1>2. calls = {}
  BY <1>1 DEF OneRequest, Begin
<1> QED BY <1>2 DEF Begin

LEMMA RiskBeginsAlone ==
    ASSUME OneRequest, TypeOK, NEW r \in Request, NEW e, RiskBegin(r, e)
    PROVE  /\ calls = {}
           /\ calls' = {[req |-> r, op |-> "risk", id |-> e, level |-> "?", mark |-> {}]}
<1>1. [req |-> r, op |-> "risk", id |-> e, level |-> "?", mark |-> {}].req \in Request
  OBVIOUS
<1> QED BY <1>1, BeginsAlone DEF RiskBegin

(* A handler that ends leaves none. *)
LEMMA EndsAlone == ASSUME Alone, NEW c \in calls, End(c) PROVE calls' = {}
BY DEF Alone, End

(* A risk assessment that goes on stays the only one. *)
LEMMA AssessedAlone ==
    ASSUME TypeOK, Alone, NEW c \in calls, c.op = "risk",
           NEW level, NEW mark, AssessedAs(c, level, mark)
    PROVE  \E d : calls' = {d} /\ d.op = "risk" /\ d.mark = mark
<1>1. c \in RiskCall
  BY DEF TypeOK, Call, DisburseCall, RecoveryCall, RepaymentJob, SettlementJob
<1>2. [c EXCEPT !.level = level, !.mark = mark].op = "risk"
  BY <1>1 DEF RiskCall
<1>3. [c EXCEPT !.level = level, !.mark = mark].mark = mark
  BY <1>1 DEF RiskCall
<1>4. calls' = {[c EXCEPT !.level = level, !.mark = mark]}
  BY DEF AssessedAs, Alone
<1> QED BY <1>2, <1>3, <1>4

(* An assessment is to mark only what it read unpaid. *)
LEMMA MarksUnpaid ==
    ASSUME NEW c, RiskRead(c)
    PROVE  \E level \in RiskStatus, mark \in SUBSET Settlement :
               AssessedAs(c, level, mark) /\ \A s \in mark : settlement[s] # "PAID"
<1>1. CASE \E s \in Unpaid(c.id, {"grace over"}) : AssessedAs(c, "BLOCKED", {s})
  <2>1. PICK s \in Unpaid(c.id, {"grace over"}) : AssessedAs(c, "BLOCKED", {s})
    BY <1>1
  <2>2. {s} \in SUBSET Settlement /\ \A t \in {s} : settlement[t] # "PAID"
    BY <2>1 DEF Unpaid
  <2>3. "BLOCKED" \in RiskStatus
    BY DEF RiskStatus
  <2> QED BY <2>1, <2>2, <2>3
<1>2. CASE AssessedAs(c, IF Unpaid(c.id, {"due"}) = {} THEN "GOOD" ELSE "WARNING", {})
  <2>1. {} \in SUBSET Settlement /\ \A t \in {} : settlement[t] # "PAID"
    OBVIOUS
  <2>2. (IF Unpaid(c.id, {"due"}) = {} THEN "GOOD" ELSE "WARNING") \in RiskStatus
    BY DEF RiskStatus
  <2> QED BY <1>2, <2>1, <2>2
<1> QED BY <1>1, <1>2 DEF RiskRead

(* The later statements of the only handler. *)
LEMMA ContinueSerially ==
    ASSUME SerialInv, NEW c \in calls, Continue(c)
    PROVE  /\ Alone' /\ SettlementCloses' /\ ReadsHold'
           /\ \A s \in Settlement : settlement[s] = "PAID" => settlement'[s] = "PAID"
<1>0. ASSUME c.op = "risk", NEW level, NEW mark, AssessedAs(c, level, mark)
      PROVE  \E d : calls' = {d} /\ d.op = "risk" /\ d.mark = mark
  BY <1>0, AssessedAlone DEF SerialInv
<1> USE DEF SerialInv, TypeOK, SettlementCloses, ReadsHold, Alone
<1>1. CASE DisburseWrite(c)
  BY <1>1, EndsAlone DEF DisburseWrite, settlementVars
<1>2. CASE RecoverWrite(c)
  <2>1. \A s \in Settlement : settlement'[s] = "PAID" =>
            settlement[s] = "PAID" /\ lines'[s] = lines[s]
    BY <1>2 DEF RecoverWrite
  <2>2. \A s \in Settlement : settlement[s] = "PAID" => settlement'[s] = "PAID"
    BY <1>2 DEF RecoverWrite
  <2> QED BY <1>2, <2>1, <2>2, EndsAlone DEF RecoverWrite, repaymentVars
<1>3. CASE RiskRead(c)
  <2>1. \E level, mark : /\ AssessedAs(c, level, mark)
                         /\ \A s \in mark : settlement[s] # "PAID"
    BY <1>3, MarksUnpaid
  <2>2. PICK level, mark : /\ AssessedAs(c, level, mark)
                           /\ \A s \in mark : settlement[s] # "PAID"
    BY <2>1
  <2>3. PICK d : calls' = {d} /\ d.op = "risk" /\ d.mark = mark
    BY <1>0, <1>3, <2>2 DEF RiskRead
  <2>4. UNCHANGED <<repayment, settlement, lines>>
    BY <1>3 DEF RiskRead, Unmoved, repaymentVars, settlementVars
  <2> QED BY <2>2, <2>3, <2>4
<1>4. CASE RiskMark(c)
  <2>1. PICK d : calls' = {d} /\ d.op = "risk" /\ d.mark = {}
    BY <1>0, <1>4 DEF RiskMark
  <2>2. \A s \in Settlement : settlement'[s] = "PAID" <=> settlement[s] = "PAID"
    BY <1>4 DEF RiskMark
  <2> QED BY <1>4, <2>1, <2>2 DEF RiskMark, repaymentVars
<1>5. CASE RiskWrite(c)
  BY <1>5, EndsAlone DEF RiskWrite, repaymentVars, settlementVars
<1>6. CASE RepaymentsOverdueWrite(c)
  <2>1. \A s \in Settlement : settlement[s] = "PAID" =>
            \A p \in lines[s] : repayment'[p] = repayment[p]
    BY <1>6 DEF RepaymentsOverdueWrite
  <2> QED BY <1>6, <2>1, EndsAlone DEF RepaymentsOverdueWrite, settlementVars
<1>7. CASE SettlementsOverdueWrite(c)
  <2>1. \A s \in Settlement : settlement'[s] = "PAID" <=> settlement[s] = "PAID"
    BY <1>7 DEF SettlementsOverdueWrite
  <2> QED BY <1>7, <2>1, EndsAlone DEF SettlementsOverdueWrite, repaymentVars
<1>8. CASE Abort(c)
  BY <1>8, EndsAlone DEF Abort, Unmoved, repaymentVars, settlementVars
<1> QED BY <1>1, <1>2, <1>3, <1>4, <1>5, <1>6, <1>7, <1>8 DEF Continue

(* A step of a program that serves one request at a time. *)
LEMMA SerialStep ==
    ASSUME OneRequest, SerialInv, [Next]_vars
    PROVE  /\ SerialInv'
           /\ \A s \in Settlement : settlement[s] = "PAID" => settlement'[s] = "PAID"
<1> DEFINE Kept == /\ Alone' /\ SettlementCloses' /\ ReadsHold'
                   /\ \A s \in Settlement : settlement[s] = "PAID" => settlement'[s] = "PAID"
<1> USE DEF SerialInv, TypeOK, SettlementCloses, ReadsHold, Alone,
            Unmoved, repaymentVars, settlementVars
<1>1. ASSUME NEW r \in Request, NEW p \in Repayment, DisburseRead(r, p) PROVE Kept
  BY <1>1, BeginsAlone DEF DisburseRead
<1>2. ASSUME NEW r \in Request, NEW e \in Employer, RecoverRead(r, e) PROVE Kept
  BY <1>2, BeginsAlone DEF RecoverRead
<1>3. ASSUME NEW r \in Request, NEW e \in Employer, CheckRisk(r, e) PROVE Kept
  <2>1. calls' = {[req |-> r, op |-> "risk", id |-> e, level |-> "?", mark |-> {}]}
    BY <1>3, RiskBeginsAlone DEF CheckRisk
  <2>2. UNCHANGED <<repayment, settlement, lines>>
    BY <1>3 DEF CheckRisk
  <2> QED BY <2>1, <2>2
<1>4. ASSUME NEW r \in Request, NEW s \in Settlement, MarkPaid(r, s) PROVE Kept
  <2>1. calls' = {[req |-> r, op |-> "risk", id |-> s[1], level |-> "?", mark |-> {}]}
    BY <1>4, RiskBeginsAlone DEF MarkPaid
  <2>2. \A t \in Settlement : settlement'[t] = "PAID" <=> t = s \/ settlement[t] = "PAID"
    BY <1>4 DEF MarkPaid
  <2>3. \A p \in Repayment : /\ p \in lines[s] => repayment'[p] = "PAID"
                             /\ repayment[p] = "PAID" => repayment'[p] = "PAID"
    BY <1>4 DEF MarkPaid
  <2>4. SettlementCloses'
    BY <1>4, <2>2, <2>3 DEF MarkPaid
  <2> QED BY <2>1, <2>2, <2>4
<1>5. ASSUME NEW r \in Request, RepaymentsOverdueRead(r) PROVE Kept
  <2> DEFINE chosen == {p \in due : repayment[p] \notin {"PAID", "OVERDUE"}}
  <2>1. calls' = {[req |-> r, op |-> "repaymentsOverdue", chosen |-> chosen]}
    BY <1>5, BeginsAlone DEF RepaymentsOverdueRead
  <2>2. \A s \in Settlement : settlement[s] = "PAID" => lines[s] \cap chosen = {}
    OBVIOUS
  <2> QED BY <1>5, <2>1, <2>2 DEF RepaymentsOverdueRead
<1>6. ASSUME NEW r \in Request, SettlementsOverdueRead(r) PROVE Kept
  <2> DEFINE chosen == {s \in Settlement : settlement[s] = "GENERATED" /\ late[s] # "current"}
  <2>1. calls' = {[req |-> r, op |-> "settlementsOverdue", chosen |-> chosen]}
    BY <1>6, BeginsAlone DEF SettlementsOverdueRead
  <2> QED BY <1>6, <2>1 DEF SettlementsOverdueRead
<1>7. ASSUME NEW p \in Repayment, Pay(p) \/ FallsDue(p) PROVE Kept
  <2>1. \A q \in Repayment : repayment[q] = "PAID" => repayment'[q] = "PAID"
    BY <1>7 DEF Pay, FallsDue
  <2>2. UNCHANGED <<settlement, lines, calls>>
    BY <1>7 DEF Pay, FallsDue
  <2> QED BY <2>1, <2>2
<1>8. ASSUME (\E s \in Settlement : Ages(s)) \/ MonthPasses \/ UNCHANGED vars PROVE Kept
  <2>1. repayment' = repayment /\ settlement' = settlement /\ lines' = lines /\ calls' = calls
    BY <1>8 DEF Ages, MonthPasses, vars
  <2> QED BY <2>1
<1>9. Kept
  BY <1>1, <1>2, <1>3, <1>4, <1>5, <1>6, <1>7, <1>8, ContinueSerially DEF Next
<1>10. TypeOK'
  BY TypeStep
<1> QED BY <1>9, <1>10

LEMMA SerialInvariance == ASSUME OneRequest PROVE Spec => []SerialInv
<1>1. Init => SerialInv
  <2>1. ASSUME Init PROVE TypeOK
    BY <2>1, MonthsAssumption
       DEF Init, TypeOK, RepaymentStatus, SettlementStatus, Lateness, RiskStatus
  <2>2. ASSUME Init PROVE Alone /\ SettlementCloses /\ ReadsHold
    BY <2>2 DEF Init, Alone, SettlementCloses, ReadsHold
  <2> QED BY <2>1, <2>2 DEF SerialInv
<1>2. SerialInv /\ [Next]_vars => SerialInv'
  BY SerialStep
<1> QED BY <1>1, <1>2, PTL DEF Spec

(* Where handlers do not overlap, a settlement that is PAID has all its    *)
(* repayments PAID, those the job had marked OVERDUE too.                  *)
THEOREM SettlementsClose == ASSUME OneRequest PROVE Spec => []SettlementCloses
<1>1. SerialInv => SettlementCloses
  BY DEF SerialInv
<1> QED BY <1>1, SerialInvariance, PTL

(* Where handlers do not overlap, no job and no risk assessment opens a    *)
(* settlement again that is PAID.                                          *)
THEOREM PaidSettlementsStay == ASSUME OneRequest PROVE Spec => StaysPaid
<1>1. SerialInv /\ [Next]_vars =>
        [\A s \in Settlement : settlement[s] = "PAID" => settlement'[s] = "PAID"]_vars
  BY SerialStep
<1> QED BY <1>1, SerialInvariance, PTL DEF Spec, StaysPaid
=============================================================================
