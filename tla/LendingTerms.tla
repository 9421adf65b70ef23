----------------------------- MODULE LendingTerms -----------------------------
(***************************************************************************)
(* The terms an advance is lent on.  Every product has versions of its     *)
(* configuration (LoanProductsService), an employer may override their     *)
(* limit (EmployerProductConfigsService), and an application checks its    *)
(* amount against both (EligibilityService.check) and freezes a version    *)
(* (LoanApplicationsService.create).  One product, one employer; an        *)
(* applicant is an employee without an active advance, and an amount of    *)
(* money is one for the salary of all of them.                             *)
(***************************************************************************)
EXTENDS Handlers, FiniteSets, Naturals

CONSTANTS
    Version,   \* ids of loan_product_configs rows, used or still to be used
    Rules,     \* eligibilityRules: records of the platform's cap and ceiling
    Amount,    \* amounts that may be applied for
    Override,  \* amounts an employer's overrides come to, 0 for none
    Applicant, \* employees who may apply
    MaxVersion \* bound on the version numbers

(* Any cap and ceiling: the rules are free JSON, which the code does not   *)
(* check.                                                                  *)
ASSUME RulesAssumption == Rules \subseteq [cap : Nat, ceiling : Nat]
ASSUME AmountAssumption == Amount \subseteq Nat /\ Override \subseteq Nat /\ 0 \in Override
ASSUME VersionAssumption == MaxVersion \in Nat

VARIABLES
    number,      \* loan_product_configs.versionNumber, 0 where there is no row
    active,      \* the versions with isActive
    rules,       \* loan_product_configs.eligibilityRules, as the set of its one value
    employerTerms, \* the employer_product_configs row
    application  \* loan_applications of each applicant, as the set of its one row

termsVars == <<number, active, rules, employerTerms, application>>

----------------------------------------------------------------------------
EmployerTerms == [percentage : Override, amount : Override, isEnabled : BOOLEAN]

Advance == [amount : Amount, checked : Version, config : Version]

PublishCall == [req : Request, op : {"publish"}, latest : SUBSET Version,
                next : Nat, at : {"write"}]
DeleteCall == [req : Request, op : {"delete"}, version : Version, at : {"write"}]
ApplyCall == [req : Request, op : {"apply"}, applicant : Applicant, amount : Amount,
              checked : Version, config : Version, at : {"terms", "insert"}]
TermsCall == PublishCall \cup DeleteCall \cup ApplyCall

TermsTypeOK ==
    /\ number \in [Version -> Nat]
    /\ active \in SUBSET Version
    /\ rules \in [Version -> Optional(Rules)]
    /\ employerTerms \in EmployerTerms
    /\ application \in [Applicant -> Optional(Advance)]
    /\ calls \in SUBSET TermsCall

(* The seed publishes version 1. *)
TermsInit ==
    /\ \E v \in Version, rule \in Rules :
          /\ number = [w \in Version |-> IF w = v THEN 1 ELSE 0]
          /\ rules = [w \in Version |-> IF w = v THEN {rule} ELSE {}]
          /\ active = {v}
    /\ employerTerms = [percentage |-> 0, amount |-> 0, isEnabled |-> TRUE]
    /\ application = [a \in Applicant |-> {}]
    /\ calls = {}

----------------------------------------------------------------------------
Published == {v \in Version : number[v] # 0}

Applications == UNION {application[a] : a \in Applicant}

Latest == {v \in Published : \A w \in Published : number[w] <= number[v]}
HighestVersion == IF Latest = {} THEN 0 ELSE number[CHOOSE v \in Latest : TRUE]

(* The versions a handler in flight or an application refers to. *)
Named(c) ==
    CASE c.op = "publish" -> c.latest
      [] c.op = "delete"  -> {c.version}
      [] c.op = "apply"   -> {c.checked, c.config}
Referenced == {adv.config : adv \in Applications}

(* createConfigVersion reads the version with the highest number *)
PublishRead(r) ==
    /\ HighestVersion < MaxVersion
    /\ Begin([req |-> r, op |-> "publish", latest |-> Latest, next |-> HighestVersion + 1,
              at |-> "write"])
    /\ UNCHANGED termsVars

(* and, in one transaction, deactivates it and inserts the next one, which *)
(* refers to it: the row must still be there, and the key of productId and *)
(* versionNumber be free.                                                  *)
PublishWrite(c, v, rule) ==
    /\ At(c, "publish", "write")
    /\ number[v] = 0
    /\ \A d \in calls : v \notin Named(d)
    /\ c.latest \subseteq Published
    /\ \A w \in Version : number[w] # c.next
    /\ number' = [number EXCEPT ![v] = c.next]
    /\ active' = (active \ c.latest) \cup {v}
    /\ rules' = [rules EXCEPT ![v] = {rule}]
    /\ End(c)
    /\ UNCHANGED <<employerTerms, application>>

(* deleteConfigVersion refuses a version that is active. *)
DeleteUnguarded(r, v) == \* lets any version go
    /\ v \in Published
    /\ Begin([req |-> r, op |-> "delete", version |-> v, at |-> "write"])
    /\ UNCHANGED termsVars

DeleteRead(r, v) ==
    /\ v \in Published \ active
    /\ Begin([req |-> r, op |-> "delete", version |-> v, at |-> "write"])
    /\ UNCHANGED termsVars

(* The row goes, unless an application refers to it. *)
DeleteWrite(c) ==
    /\ At(c, "delete", "write")
    /\ c.version \in Published \ Referenced
    /\ number' = [number EXCEPT ![c.version] = 0]
    /\ rules' = [rules EXCEPT ![c.version] = {}]
    /\ active' = active \ {c.version}
    /\ End(c)
    /\ UNCHANGED <<employerTerms, application>>

(* upsert: an administrator may set everything; what the request leaves    *)
(* out stays.                                                              *)
UpsertEmployerTerms(terms) ==
    /\ employerTerms' = terms
    /\ UNCHANGED <<number, active, rules, application, calls>>

(* upsertByEmployerId: the employer sets the percentage alone. *)
OverridePercentage(percentage) ==
    UpsertEmployerTerms([employerTerms EXCEPT !.percentage = percentage])

----------------------------------------------------------------------------
AtMost(x, y) == IF x <= y THEN x ELSE y

(* The limit: the percentage before the amount before the platform's cap,  *)
(* an override never above the hard ceiling; the cap, whatever it is.      *)
OverrideUncapped(terms, rule) == \* forgets the ceiling of an amount
    IF terms.percentage # 0 THEN AtMost(terms.percentage, rule.ceiling)
    ELSE IF terms.amount # 0 THEN terms.amount ELSE rule.cap

MaximumEligible(terms, rule) ==
    IF terms.percentage # 0 THEN AtMost(terms.percentage, rule.ceiling)
    ELSE IF terms.amount # 0 THEN AtMost(terms.amount, rule.ceiling) ELSE rule.cap

(* create: the eligibility check reads an active version - the query names *)
(* no order - and the employer's terms,                                    *)
ApplyCheck(r, a, amount, v) ==
    /\ application[a] = {}
    /\ \A c \in calls : c.op = "apply" => c.applicant # a
    /\ v \in active
    /\ employerTerms.isEnabled
    /\ \E rule \in rules[v] : amount <= MaximumEligible(employerTerms, rule)
    /\ Begin([req |-> r, op |-> "apply", applicant |-> a, amount |-> amount, checked |-> v,
              config |-> v, at |-> "terms"])
    /\ UNCHANGED termsVars

(* then create reads an active version again: the one it freezes. *)
ApplyTerms(c, v) ==
    /\ At(c, "apply", "terms")
    /\ v \in active
    /\ GoOn(c, [c EXCEPT !.config = v, !.at = "insert"])
    /\ UNCHANGED termsVars

(* The application, under the reference to its version, with a number that *)
(* ApplicationNumbers is about.                                            *)
InsertApplication(c) ==
    /\ At(c, "apply", "insert")
    /\ c.config \in Published
    /\ application' = [application EXCEPT ![c.applicant] =
           {[amount |-> c.amount, checked |-> c.checked, config |-> c.config]}]
    /\ End(c)
    /\ UNCHANGED <<number, active, rules, employerTerms>>

(* An exception or a restart ends a handler where it is. *)
TermsAbort(c) ==
    /\ End(c)
    /\ UNCHANGED termsVars

----------------------------------------------------------------------------
ConfigSteps ==
    \/ \E r \in Request : PublishRead(r) \/ \E v \in Version : DeleteRead(r, v)
    \/ \E c \in calls :
          \/ \E v \in Version, rule \in Rules : PublishWrite(c, v, rule)
          \/ DeleteWrite(c)
    \/ \E terms \in EmployerTerms : UpsertEmployerTerms(terms)
    \/ \E percentage \in Override : OverridePercentage(percentage)

ApplySteps ==
    \/ \E r \in Request, a \in Applicant, amount \in Amount, v \in Version :
          ApplyCheck(r, a, amount, v)
    \/ \E c \in calls :
          \/ \E v \in Version : ApplyTerms(c, v)
          \/ InsertApplication(c)

TermsNext == ConfigSteps \/ ApplySteps \/ \E c \in calls : TermsAbort(c)

TermsSpec == TermsInit /\ [][TermsNext]_<<termsVars, calls>>

----------------------------------------------------------------------------
(* The latest version is active, so there always are terms to lend on,     *)
(* however publications, stale ones too, and deletions interleave          *)
(* (createConfigVersion, deleteConfigVersion).                             *)
LatestIsActive == Latest # {} /\ Latest \subseteq active

(* The version that an application froze stays on record, and an amount    *)
(* checked against it that is above the platform's cap is within the hard  *)
(* ceiling, whatever overrides, publications and deletions intervened      *)
(* (check, create, deleteConfigVersion).                                   *)
OverrideCapped ==
    \A adv \in Applications : \E rule \in rules[adv.config] :
        adv.checked = adv.config => adv.amount <= rule.cap \/ adv.amount <= rule.ceiling

(* No application is above the hard ceiling of its terms: "employee cannot *)
(* borrow beyond this even with employer override"                         *)
(* (create-loan-product-config.dto.ts:21).  Violated: README, section 4.   *)
WithinCeiling == \A adv \in Applications : \A rule \in rules[adv.config] : adv.amount <= rule.ceiling
=============================================================================
