----------------------------- MODULE EmployeeSetup -----------------------------
(***************************************************************************)
(* What an employee has to have before an advance: KYC documents and a     *)
(* bank account, each submitted by the employee and reviewed by an admin.  *)
(* KycDocumentsService, BankAccountsService, the screens that tell the     *)
(* employee what is still missing, and the bank details that a payout      *)
(* freezes.  The documents and the account of one employee.                *)
(***************************************************************************)
EXTENDS Handlers, FiniteSets, Naturals

CONSTANTS
    RequiredKyc, \* REQUIRED_KYC_DOCUMENTS
    OtherKyc,    \* the other document types
    Details,     \* bank details: holder, number, IFSC code and bank
    Seeded       \* whether the employee is one of the seed's, with a loan_limits row

ASSUME KycAssumption == RequiredKyc # {} /\ RequiredKyc \cap OtherKyc = {}
ASSUME SeededAssumption == Seeded \in BOOLEAN

VARIABLES
    kyc,      \* kyc_documents.status by type, "NONE" before the row exists
    bank,     \* the bank details stored, as a set of at most one
    verified, \* employee_bank_accounts.verified
    reviewed, \* history: the details that were stored when an admin verified them
    frozen,   \* history: the details that payouts were frozen with
    request,  \* the employee's active application, "NONE" without
    enabled   \* employer_product_configs.isEnabled

bankVars == <<bank, verified, reviewed, frozen>>
setupVars == <<kyc, bankVars, request, enabled>>

----------------------------------------------------------------------------
KycType == RequiredKyc \cup OtherKyc
KycStatusOf == {"NONE", "PENDING", "VERIFIED", "REJECTED"}
RequestStatus == {"NONE", "AWAITING_PLATFORM_FEE_PAYMENT", "READY_FOR_DISBURSAL"}

SubmitCall == [req : Request, op : {"submitBank"}, seen : Optional(Details),
               wasVerified : BOOLEAN, to : Details, at : {"write"}]
PayoutCall == [req : Request, op : {"payout"}, seen : Optional(Details), at : {"write"}]
SetupCall == SubmitCall \cup PayoutCall

SetupTypeOK ==
    /\ kyc \in [KycType -> KycStatusOf]
    /\ bank \in Optional(Details)
    /\ verified \in BOOLEAN
    /\ reviewed \in SUBSET Details
    /\ frozen \in SUBSET Details
    /\ request \in RequestStatus
    /\ enabled \in BOOLEAN
    /\ calls \in SUBSET SetupCall

SetupInit ==
    /\ kyc = [t \in KycType |-> "NONE"]
    /\ bank = {} /\ verified = FALSE
    /\ reviewed = {} /\ frozen = {}
    /\ request = "NONE" /\ enabled = TRUE
    /\ calls = {}

----------------------------------------------------------------------------
(* KycDocumentsService.create: a document is submitted, or again, and then *)
(* pending whatever it was.                                                *)
SubmitKyc(t) ==
    /\ kyc' = [kyc EXCEPT ![t] = "PENDING"]
    /\ UNCHANGED <<bankVars, request, enabled, calls>>

(* verify and reject write the status of the document they are given. *)
ReviewKyc(t, s) ==
    /\ kyc[t] # "NONE"
    /\ kyc' = [kyc EXCEPT ![t] = s]
    /\ UNCHANGED <<bankVars, request, enabled, calls>>

(* BankAccountsService.create reads the account there is, *)
SubmitBankRead(r, d) ==
    /\ Begin([req |-> r, op |-> "submitBank", seen |-> bank, wasVerified |-> verified,
              to |-> d, at |-> "write"])
    /\ UNCHANGED setupVars

(* Whatever was verified stays so. *)
SubmitKeepsVerified(c) ==
    /\ At(c, "submitBank", "write")
    /\ c.seen = {} => bank = {}
    /\ bank' = {c.to}
    /\ verified' = c.wasVerified
    /\ End(c)
    /\ UNCHANGED <<reviewed, frozen, kyc, request, enabled>>

(* and updates it, verified only if it was and the details are the same,   *)
(* or inserts the first one, under the unique employeeId.                  *)
SubmitBankWrite(c) ==
    /\ At(c, "submitBank", "write")
    /\ c.seen = {} => bank = {}
    /\ bank' = {c.to}
    /\ verified' = (c.wasVerified /\ c.seen = {c.to})
    /\ End(c)
    /\ UNCHANGED <<reviewed, frozen, kyc, request, enabled>>

(* verify: whatever details the row holds when it is written. *)
VerifyBank ==
    /\ bank # {}
    /\ verified' = TRUE
    /\ reviewed' = reviewed \cup bank
    /\ UNCHANGED <<bank, frozen, kyc, request, enabled, calls>>

RejectBank ==
    /\ bank # {}
    /\ verified' = FALSE
    /\ UNCHANGED <<bank, reviewed, frozen, kyc, request, enabled, calls>>

(* The account is paid whether verified or not. *)
PayoutUnverified(r) ==
    /\ bank # {}
    /\ Begin([req |-> r, op |-> "payout", seen |-> bank, at |-> "write"])
    /\ UNCHANGED setupVars

(* DisbursalsService.disburse: the account is verified when it is read,    *)
(* and nothing else of this employee is asked for,                         *)
PayoutRead(r) ==
    /\ bank # {} /\ verified
    /\ Begin([req |-> r, op |-> "payout", seen |-> bank, at |-> "write"])
    /\ UNCHANGED setupVars

(* and the details read are frozen into the disbursal. *)
PayoutFreezes(c) ==
    /\ At(c, "payout", "write")
    /\ frozen' = frozen \cup c.seen
    /\ End(c)
    /\ UNCHANGED <<kyc, bank, verified, reviewed, request, enabled>>

(* The employee's application comes, goes on and goes, see                 *)
(* LoanApplications; the admin switches the product for the employer.      *)
RequestMoves(s) ==
    /\ s # request
    /\ request' = s
    /\ UNCHANGED <<kyc, bankVars, enabled, calls>>

SwitchProduct ==
    /\ enabled' = ~enabled
    /\ UNCHANGED <<kyc, bankVars, request, calls>>

SetupAbort(c) == End(c) /\ UNCHANGED setupVars

SetupNext ==
    \/ \E t \in KycType : SubmitKyc(t) \/ \E s \in {"VERIFIED", "REJECTED"} : ReviewKyc(t, s)
    \/ \E r \in Request : PayoutRead(r) \/ \E d \in Details : SubmitBankRead(r, d)
    \/ VerifyBank \/ RejectBank \/ SwitchProduct
    \/ \E s \in RequestStatus : RequestMoves(s)
    \/ \E c \in calls : SubmitBankWrite(c) \/ PayoutFreezes(c) \/ SetupAbort(c)

SetupSpec == SetupInit /\ [][SetupNext]_<<setupVars, calls>>

----------------------------------------------------------------------------
(* What the screens say. *)
Submitted == {t \in KycType : kyc[t] # "NONE"}
With(s) == {t \in KycType : kyc[t] = s}

(* getKycStatus and EligibilityService.check. *)
KycCompleted == RequiredKyc \subseteq With("VERIFIED")

(* findByUserId and getProfile. *)
KycStatus ==
    CASE Submitted = {} -> "NOT_SUBMITTED"
      [] KycCompleted -> "VERIFIED"
      [] ~KycCompleted /\ With("REJECTED") # {} -> "REJECTED"
      [] OTHER -> "PENDING"

(* findGroupedByEmployee, of the required documents only. *)
OverallStatus ==
    CASE RequiredKyc \cap Submitted = {} -> "NOT_SUBMITTED"
      [] RequiredKyc \subseteq With("VERIFIED") -> "VERIFIED"
      [] RequiredKyc \cap With("REJECTED") # {} -> "REJECTED"
      [] RequiredKyc \cap With("REJECTED") = {} /\ RequiredKyc \cap With("PENDING") # {} ->
             "PENDING"
      [] OTHER -> "PARTIAL"

(* findAllForEmployer, of any document. *)
ListStatus ==
    CASE Submitted = {} -> "NOT_SUBMITTED"
      [] With("VERIFIED") # {} -> "VERIFIED"
      [] With("VERIFIED") = {} /\ With("PENDING") # {} -> "PENDING"
      [] OTHER -> "REJECTED"

BankStatus ==
    CASE bank = {} -> "NOT_ADDED"
      [] bank # {} /\ verified -> "VERIFIED"
      [] OTHER -> "PENDING"

(* getAppState's nextAction: the amount available is that of loan_limits,  *)
(* nothing without the row.                                                *)
NextAction ==
    CASE request = "AWAITING_PLATFORM_FEE_PAYMENT" -> "PAY_PLATFORM_FEE"
      [] request = "READY_FOR_DISBURSAL" -> "TRACK_REQUEST"
      [] request = "NONE" /\ KycStatus # "VERIFIED" -> "COMPLETE_KYC"
      [] request = "NONE" /\ KycStatus = "VERIFIED" /\ BankStatus # "VERIFIED" ->
             "ADD_BANK_ACCOUNT"
      [] OTHER -> IF Seeded THEN "REQUEST_ADVANCE" ELSE "VIEW_REPAYMENT"

(* getEligibility's nextAction. *)
EligibilityAction ==
    CASE ~enabled -> "CONTACT_ADMIN"
      [] enabled /\ ~KycCompleted -> "COMPLETE_KYC"
      [] enabled /\ KycCompleted /\ BankStatus # "VERIFIED" -> "ADD_BANK_ACCOUNT"
      [] enabled /\ KycCompleted /\ BankStatus = "VERIFIED" /\ request # "NONE" ->
             IF request = "AWAITING_PLATFORM_FEE_PAYMENT" THEN "PAY_PLATFORM_FEE"
                                                         ELSE "VIEW_APPLICATION"
      [] OTHER -> "REQUEST_ADVANCE"

----------------------------------------------------------------------------
(* Details that count as verified were verified by an admin while they     *)
(* were the stored ones, also when two submissions and a review overlap:   *)
(* a submission carries its own old verified flag to the details it was    *)
(* read with, never to others.                                             *)
VerifiedWasReviewed == verified => bank \subseteq reviewed

(* The details a payout is frozen with were verified ones at some time,    *)
(* however the account changes between the read and the payout.            *)
PaidToReviewed == frozen \subseteq reviewed

(* The employee's profile, the admin's list and the employer's list call   *)
(* the KYC verified exactly when EligibilityService.check does, which      *)
(* otherwise answers 'KYC documents not fully verified'                    *)
(* (eligibility.service.ts:238).  Violated: README, section 4.             *)
KycScreensAgree ==
    \A status \in {KycStatus, OverallStatus, ListStatus} : status = "VERIFIED" <=> KycCompleted

(* With the product enabled and no request under way, the home and the     *)
(* eligibility screen send the employee to the same next step: the limit   *)
(* that the home asks for is "Set by Admin after KYC verification. One per *)
(* employee." (schema.prisma:302-303).  Violated without the seed: README, *)
(* section 4.                                                              *)
NextStepsAgree == enabled /\ request = "NONE" => NextAction = EligibilityAction
=============================================================================
