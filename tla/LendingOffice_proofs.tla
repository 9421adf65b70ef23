------------------------- MODULE LendingOffice_proofs ------------------------
(***************************************************************************)
(* The lending office, for any numbers of documents, versions, submissions *)
(* and requests, any calendar and any rates: each desk's invariant, kept   *)
(* by its own steps, then the office as a whole.                           *)
(***************************************************************************)
EXTENDS LendingOffice, Handlers_proofs, WellFoundedInduction

(* A set of one tells its member. *)
LEMMA OneValue ==
    ASSUME NEW S
    PROVE  /\ {} \in Optional(S)
           /\ \A x \in S : {x} \in Optional(S)
           /\ \A o \in Optional(S) : o \subseteq S /\ \A x, y \in o : x = y
BY DEF Optional

(* Some natural numbers have a least one, and a greatest one below a bound. *)
LEMMA LeastNatural ==
    ASSUME NEW T \in SUBSET Nat, T # {}
    PROVE  \E n \in T : \A m \in T : n <= m
<1> DEFINE R == {ss \in Nat \X Nat : ss[1] < ss[2]}
<1>1. IsWellFoundedOn(R, Nat)
  BY NatLessThanWellFounded DEF OpToRel
<1>2. PICK n \in T : \A m \in T : ~ (<<m, n>> \in R)
  <2> HIDE DEF R
  <2> QED BY <1>1, WFMin
<1>3. ASSUME NEW m \in T, m < n
      PROVE  FALSE
  <2>1. <<m, n>> \in R
    BY <1>3
  <2> QED BY <1>2, <2>1
<1>4. \A m \in T : n <= m
  BY <1>3
<1> QED BY <1>4

LEMMA GreatestNatural ==
    ASSUME NEW T \in SUBSET Nat, T # {}, NEW N \in Nat, \A n \in T : n <= N
    PROVE  \E n \in T : \A m \in T : m <= n
<1> DEFINE S == {N - n : n \in T}
<1>1. \A n \in T : N - n \in Nat
  OBVIOUS
<1>2. PICK s \in S : \A r \in S : s <= r
  <2>1. S \in SUBSET Nat /\ S # {}
    BY <1>1
  <2> HIDE DEF S
  <2> QED BY <2>1, LeastNatural
<1>3. PICK n \in T : s = N - n
  BY <1>2
<1>4. \A m \in T : N - n <= N - m
  BY <1>2, <1>3
<1>5. \A m \in T : m <= n
  BY <1>4
<1> QED BY <1>5

----------------------------------------------------------------------------
(* The employee's setup.  What a handler goes on with was reviewed too: a  *)
(* submission's old verified flag was of the details that it read, and a   *)
(* payout read verified ones.                                              *)
ReadWasReviewed ==
    \A c \in calls :
        /\ c.op = "submitBank" /\ c.wasVerified => c.seen \subseteq reviewed
        /\ c.op = "payout" => c.seen \subseteq reviewed

SetupInv == SetupTypeOK /\ VerifiedWasReviewed /\ PaidToReviewed /\ ReadWasReviewed

LEMMA InitSetupInv == SetupInit => SetupInv
BY OneValue
   DEF SetupInit, SetupInv, SetupTypeOK, KycStatusOf, RequestStatus, VerifiedWasReviewed,
       PaidToReviewed, ReadWasReviewed

LEMMA SetupTyped ==
    ASSUME SetupTypeOK, [SetupNext]_<<setupVars, calls>>
    PROVE  SetupTypeOK'
<1> USE DEF SetupTypeOK, setupVars, bankVars
<1>1. ASSUME NEW t \in KycType, NEW s \in KycStatusOf,
             kyc' = [kyc EXCEPT ![t] = s], UNCHANGED <<bankVars, request, enabled, calls>>
      PROVE  SetupTypeOK'
  BY <1>1
<1>2. ASSUME NEW r \in Request, NEW d \in Details, SubmitBankRead(r, d)
      PROVE  SetupTypeOK'
  <2>1. [req |-> r, op |-> "submitBank", seen |-> bank, wasVerified |-> verified, to |-> d,
         at |-> "write"] \in SetupCall
    BY DEF SetupCall, SubmitCall
  <2> QED BY <1>2, <2>1 DEF SubmitBankRead, Begin
<1>3. ASSUME NEW r \in Request, PayoutRead(r)
      PROVE  SetupTypeOK'
  <2>1. [req |-> r, op |-> "payout", seen |-> bank, at |-> "write"] \in SetupCall
    BY DEF SetupCall, PayoutCall
  <2> QED BY <1>3, <2>1 DEF PayoutRead, Begin
<1>4. ASSUME NEW c \in calls, SubmitBankWrite(c)
      PROVE  SetupTypeOK'
  <2>1. c \in SubmitCall
    BY <1>4 DEF SubmitBankWrite, At, SetupCall, PayoutCall
  <2>2. {c.to} \in Optional(Details) /\ (c.wasVerified /\ c.seen = {c.to}) \in BOOLEAN
    BY <2>1, OneValue DEF SubmitCall
  <2> QED BY <1>4, <2>2 DEF SubmitBankWrite, End
<1>5. ASSUME NEW c \in calls, PayoutFreezes(c)
      PROVE  SetupTypeOK'
  <2>1. c \in PayoutCall
    BY <1>5 DEF PayoutFreezes, At, SetupCall, SubmitCall
  <2>2. c.seen \subseteq Details
    BY <2>1, OneValue DEF PayoutCall
  <2> QED BY <1>5, <2>2 DEF PayoutFreezes, End
<1>6. ASSUME NEW c \in calls, SetupAbort(c)
      PROVE  SetupTypeOK'
  BY <1>6 DEF SetupAbort, End
<1>7. ASSUME VerifyBank \/ RejectBank \/ SwitchProduct
      PROVE  SetupTypeOK'
  <2>1. bank \subseteq Details
    BY OneValue
  <2> QED BY <1>7, <2>1 DEF VerifyBank, RejectBank, SwitchProduct
<1>8. ASSUME NEW s \in RequestStatus, RequestMoves(s)
      PROVE  SetupTypeOK'
  BY <1>8 DEF RequestMoves
<1>9. CASE UNCHANGED <<setupVars, calls>>
  BY <1>9
<1>10. "PENDING" \in KycStatusOf /\ "VERIFIED" \in KycStatusOf /\ "REJECTED" \in KycStatusOf
  BY DEF KycStatusOf
<1> QED BY <1>1, <1>2, <1>3, <1>4, <1>5, <1>6, <1>7, <1>8, <1>9, <1>10
        DEF SetupNext, SubmitKyc, ReviewKyc

LEMMA NextSetupInv ==
    ASSUME SetupInv, [SetupNext]_<<setupVars, calls>>
    PROVE  SetupInv'
<1> USE DEF setupVars, bankVars
<1>1. SetupTypeOK /\ SetupTypeOK'
  BY SetupTyped DEF SetupInv
<1>2. VerifiedWasReviewed /\ PaidToReviewed /\ ReadWasReviewed
  BY DEF SetupInv
<1> SUFFICES VerifiedWasReviewed' /\ PaidToReviewed' /\ ReadWasReviewed'
  BY <1>1 DEF SetupInv
<1> USE DEF VerifiedWasReviewed, PaidToReviewed, ReadWasReviewed
<1>3. ASSUME NEW r \in Request, NEW d \in Details, SubmitBankRead(r, d)
      PROVE  VerifiedWasReviewed' /\ PaidToReviewed' /\ ReadWasReviewed'
  BY <1>2, <1>3 DEF SubmitBankRead, Begin
<1>4. ASSUME NEW r \in Request, PayoutRead(r)
      PROVE  VerifiedWasReviewed' /\ PaidToReviewed' /\ ReadWasReviewed'
  BY <1>2, <1>4 DEF PayoutRead, Begin
<1>5. ASSUME NEW c \in calls, SubmitBankWrite(c)
      PROVE  VerifiedWasReviewed' /\ PaidToReviewed' /\ ReadWasReviewed'
  BY <1>2, <1>5 DEF SubmitBankWrite, At, End
<1>6. ASSUME NEW c \in calls, PayoutFreezes(c)
      PROVE  VerifiedWasReviewed' /\ PaidToReviewed' /\ ReadWasReviewed'
  BY <1>2, <1>6 DEF PayoutFreezes, At, End
<1>7. ASSUME NEW c \in calls, SetupAbort(c)
      PROVE  VerifiedWasReviewed' /\ PaidToReviewed' /\ ReadWasReviewed'
  BY <1>2, <1>7 DEF SetupAbort, End
<1>8. ASSUME VerifyBank \/ RejectBank \/ SwitchProduct
      PROVE  VerifiedWasReviewed' /\ PaidToReviewed' /\ ReadWasReviewed'
  BY <1>2, <1>8 DEF VerifyBank, RejectBank, SwitchProduct
<1>9. ASSUME NEW t \in KycType, SubmitKyc(t) \/ \E s \in {"VERIFIED", "REJECTED"} : ReviewKyc(t, s)
      PROVE  VerifiedWasReviewed' /\ PaidToReviewed' /\ ReadWasReviewed'
  BY <1>2, <1>9 DEF SubmitKyc, ReviewKyc
<1>10. ASSUME NEW s \in RequestStatus, RequestMoves(s)
       PROVE  VerifiedWasReviewed' /\ PaidToReviewed' /\ ReadWasReviewed'
  BY <1>2, <1>10 DEF RequestMoves
<1>11. CASE UNCHANGED <<setupVars, calls>>
  BY <1>2, <1>11
<1> QED BY <1>3, <1>4, <1>5, <1>6, <1>7, <1>8, <1>9, <1>10, <1>11 DEF SetupNext

----------------------------------------------------------------------------
(* The terms.  A publication replaces the versions that were the latest    *)
(* when it looked, and whose numbers are below its own for as long as they *)
(* are there; a deletion is of a version that is not active and will not   *)
(* be again, as every publication makes a row of its own; an amount passed *)
(* the check with the version it was checked against, by its cap or by its *)
(* ceiling; what an application refers to cannot be deleted, and a version *)
(* on record has its rules.                                                *)
Capped(amount, rule) == amount <= rule.cap \/ amount <= rule.ceiling

CallsHold ==
    \A c \in calls :
        /\ c.op = "publish" => \A v \in c.latest : number[v] \in {0, c.next - 1}
        /\ c.op = "delete" => c.version \notin active
        /\ c.op = "apply" => \A rule \in rules[c.checked] : Capped(c.amount, rule)

(* What an application refers to is on record, with rules that allow it. *)
RowsHold ==
    /\ \A v \in Published : rules[v] # {}
    /\ Referenced \subseteq Published
    /\ \A adv \in Applications : \A rule \in rules[adv.config] :
           adv.checked = adv.config => Capped(adv.amount, rule)

TermsInv == TermsTypeOK /\ LatestIsActive /\ CallsHold /\ RowsHold

LEMMA InitTermsInv == TermsInit => TermsInv
<1> SUFFICES ASSUME TermsInit PROVE TermsInv
  OBVIOUS
<1>1. PICK v \in Version, rule \in Rules :
          /\ number = [w \in Version |-> IF w = v THEN 1 ELSE 0]
          /\ rules = [w \in Version |-> IF w = v THEN {rule} ELSE {}]
          /\ active = {v}
  BY DEF TermsInit
<1>2. employerTerms \in EmployerTerms
  BY AmountAssumption DEF TermsInit, EmployerTerms
<1>3. rules \in [Version -> Optional(Rules)] /\ application \in [Applicant -> Optional(Advance)]
  BY <1>1, OneValue DEF TermsInit
<1>4. TermsTypeOK
  BY <1>1, <1>2, <1>3 DEF TermsInit, TermsTypeOK
<1>5. LatestIsActive
  BY <1>1 DEF LatestIsActive, Latest, Published
<1>6. Applications = {} /\ calls = {}
  BY DEF TermsInit, Applications
<1>7. \A w \in Published : rules[w] # {}
  BY <1>1 DEF Published
<1> QED BY <1>4, <1>5, <1>6, <1>7 DEF TermsInv, CallsHold, RowsHold, Referenced

(* The highest version number is that of each of the latest. *)
LEMMA HighestIs ==
    ASSUME TermsTypeOK
    PROVE  HighestVersion \in Nat /\ \A v \in Latest : number[v] = HighestVersion
<1>1. \A v, w \in Latest : number[v] = number[w] /\ number[v] \in Nat
  BY DEF Latest, Published, TermsTypeOK
<1>2. CASE Latest = {}
  BY <1>2 DEF HighestVersion
<1>3. CASE Latest # {}
  <2>1. (CHOOSE v \in Latest : TRUE) \in Latest
    BY <1>3
  <2> QED BY <1>1, <1>3, <2>1 DEF HighestVersion
<1> QED BY <1>2, <1>3

(* An override never lifts the limit above both cap and ceiling. *)
LEMMA LimitIsCapped ==
    ASSUME NEW terms \in EmployerTerms, NEW rule \in Rules, NEW amount \in Nat,
           amount <= MaximumEligible(terms, rule)
    PROVE  Capped(amount, rule)
<1>1. rule.cap \in Nat /\ rule.ceiling \in Nat
  BY RulesAssumption
<1>2. terms.percentage \in Nat /\ terms.amount \in Nat
  BY AmountAssumption DEF EmployerTerms
<1> QED BY <1>1, <1>2 DEF MaximumEligible, AtMost, Capped

(* What a handler names. *)
LEMMA NamedIs ==
    ASSUME NEW c
    PROVE  /\ c.op = "publish" => Named(c) = c.latest
           /\ c.op = "delete" => Named(c) = {c.version}
           /\ c.op = "apply" => Named(c) = {c.checked, c.config}
BY Zenon DEF Named

LEMMA TermsCalls ==
    ASSUME TermsTypeOK, NEW c \in calls
    PROVE  /\ c.op = "publish" => c \in PublishCall
           /\ c.op = "delete" => c \in DeleteCall
           /\ c.op = "apply" => c \in ApplyCall
           /\ c.op \in {"publish", "delete", "apply"}
BY DEF TermsTypeOK, TermsCall, PublishCall, DeleteCall, ApplyCall

LEMMA TermsTyped ==
    ASSUME TermsTypeOK, [TermsNext]_<<termsVars, calls>>
    PROVE  TermsTypeOK'
<1> USE DEF TermsTypeOK, termsVars
<1>1. ASSUME NEW r \in Request, PublishRead(r)
      PROVE  TermsTypeOK'
  <2>1. [req |-> r, op |-> "publish", latest |-> Latest, next |-> HighestVersion + 1,
         at |-> "write"] \in TermsCall
    BY HighestIs DEF TermsCall, PublishCall, Latest, Published
  <2> QED BY <1>1, <2>1 DEF PublishRead, Begin
<1>2. ASSUME NEW r \in Request, NEW v \in Version, DeleteRead(r, v)
      PROVE  TermsTypeOK'
  <2>1. [req |-> r, op |-> "delete", version |-> v, at |-> "write"] \in TermsCall
    BY DEF TermsCall, DeleteCall
  <2> QED BY <1>2, <2>1 DEF DeleteRead, Begin
<1>3. ASSUME NEW c \in calls, NEW v \in Version, NEW rule \in Rules, PublishWrite(c, v, rule)
      PROVE  TermsTypeOK'
  <2>1. c.next \in Nat
    BY <1>3, TermsCalls DEF PublishWrite, At, PublishCall
  <2>2. number' \in [Version -> Nat] /\ active' \in SUBSET Version
    BY <1>3, <2>1 DEF PublishWrite
  <2>3. rules' \in [Version -> Optional(Rules)]
    BY <1>3, OneValue DEF PublishWrite
  <2> QED BY <1>3, <2>2, <2>3 DEF PublishWrite, End
<1>4. ASSUME NEW c \in calls, DeleteWrite(c)
      PROVE  TermsTypeOK'
  <2>1. rules' \in [Version -> Optional(Rules)]
    BY <1>4, OneValue DEF DeleteWrite
  <2>2. number' \in [Version -> Nat]
    BY <1>4 DEF DeleteWrite
  <2> QED BY <1>4, <2>1, <2>2 DEF DeleteWrite, End
<1>5. ASSUME NEW terms \in EmployerTerms, UpsertEmployerTerms(terms)
      PROVE  TermsTypeOK'
  BY <1>5 DEF UpsertEmployerTerms
<1>6. ASSUME NEW percentage \in Override
      PROVE  [employerTerms EXCEPT !.percentage = percentage] \in EmployerTerms
  BY DEF EmployerTerms
<1>7. ASSUME NEW r \in Request, NEW a \in Applicant, NEW amount \in Amount, NEW v \in Version,
             ApplyCheck(r, a, amount, v)
      PROVE  TermsTypeOK'
  <2>1. [req |-> r, op |-> "apply", applicant |-> a, amount |-> amount, checked |-> v,
         config |-> v, at |-> "terms"] \in TermsCall
    BY DEF TermsCall, ApplyCall
  <2> QED BY <1>7, <2>1 DEF ApplyCheck, Begin
<1>8. ASSUME NEW c \in calls, NEW v \in Version, ApplyTerms(c, v)
      PROVE  TermsTypeOK'
  <2>1. c \in ApplyCall
    BY <1>8, TermsCalls DEF ApplyTerms, At
  <2>2. [c EXCEPT !.config = v, !.at = "insert"] \in TermsCall
    BY <2>1 DEF ApplyCall, TermsCall
  <2> QED BY <1>8, <2>2 DEF ApplyTerms, GoOn
<1>9. ASSUME NEW c \in calls, InsertApplication(c)
      PROVE  TermsTypeOK'
  <2>1. c \in ApplyCall
    BY <1>9, TermsCalls DEF InsertApplication, At
  <2>2. [amount |-> c.amount, checked |-> c.checked, config |-> c.config] \in Advance
    BY <2>1 DEF ApplyCall, Advance
  <2>3. application' \in [Applicant -> Optional(Advance)]
    BY <1>9, <2>2, OneValue DEF InsertApplication
  <2> QED BY <1>9, <2>3 DEF InsertApplication, End
<1>10. ASSUME NEW c \in calls, TermsAbort(c)
       PROVE  TermsTypeOK'
  BY <1>10 DEF TermsAbort, End
<1>11. CASE UNCHANGED <<termsVars, calls>>
  BY <1>11
<1> QED BY <1>1, <1>2, <1>3, <1>4, <1>5, <1>6, <1>7, <1>8, <1>9, <1>10, <1>11
        DEF TermsNext, ConfigSteps, ApplySteps, OverridePercentage

(* A version that is published becomes the latest, the earlier one no      *)
(* longer active; or others have overtaken it, and the latest stays so.    *)
LEMMA PublishKeepsLatest ==
    ASSUME TermsInv, NEW c \in calls, NEW v \in Version, NEW rule \in Rules,
           PublishWrite(c, v, rule)
    PROVE  LatestIsActive'
<1>1. /\ number \in [Version -> Nat] /\ c \in PublishCall /\ c.next \in Nat
      /\ number' = [number EXCEPT ![v] = c.next] /\ active' = (active \ c.latest) \cup {v}
      /\ number[v] = 0 /\ \A w \in Version : number[w] # c.next
  BY TermsCalls DEF TermsInv, TermsTypeOK, PublishWrite, At, PublishCall
<1>2. /\ \A w \in Version : number'[w] = IF w = v THEN c.next ELSE number[w]
      /\ Published' = Published \cup {v} /\ v \notin Published
  BY <1>1 DEF Published
<1>3. CASE \A w \in Version : number[w] < c.next
  <2>1. Latest' = {v}
    BY <1>1, <1>2, <1>3 DEF Latest, Published
  <2> QED BY <1>1, <2>1 DEF LatestIsActive
<1>4. CASE \E w \in Version : number[w] > c.next
  <2>1. PICK w \in Version : number[w] > c.next
    BY <1>4
  <2>2. Latest' = Latest
    BY <1>1, <1>2, <2>1 DEF Latest, Published
  <2>3. \A u \in Latest : u \in active /\ number[u] > c.next /\ number[u] # 0
    BY <1>1, <2>1 DEF TermsInv, LatestIsActive, Latest, Published
  <2>4. \A u \in c.latest : number[u] \in {0, c.next - 1}
    BY <1>1 DEF TermsInv, CallsHold, PublishCall
  <2>5. \A u \in Latest : u \notin c.latest
    BY <1>1, <2>3, <2>4
  <2> QED BY <1>1, <2>2, <2>3, <2>5 DEF TermsInv, LatestIsActive
<1> QED BY <1>1, <1>3, <1>4

LEMMA PublishKeeps ==
    ASSUME TermsInv, NEW c \in calls, NEW v \in Version, NEW rule \in Rules,
           PublishWrite(c, v, rule)
    PROVE  CallsHold' /\ RowsHold'
<1>1. /\ number \in [Version -> Nat] /\ rules \in [Version -> Optional(Rules)] /\ c.next \in Nat
      /\ number' = [number EXCEPT ![v] = c.next] /\ active' = (active \ c.latest) \cup {v}
      /\ rules' = [rules EXCEPT ![v] = {rule}] /\ number[v] = 0 /\ c.next # 0
      /\ calls' \subseteq calls /\ application' = application
      /\ \A d \in calls : v \notin Named(d)
  BY TermsCalls DEF TermsInv, TermsTypeOK, PublishWrite, At, PublishCall, End
<1>2. Published' = Published \cup {v} /\ v \notin Published
  BY <1>1 DEF Published
<1>3. Applications' = Applications /\ Referenced' = Referenced
  BY <1>1 DEF Applications, Referenced
<1>4. \A adv \in Applications : adv.config \in Referenced /\ adv.config # v
  BY <1>2 DEF TermsInv, RowsHold, Referenced
<1>5. \A adv \in Applications : adv \in Advance
  BY OneValue DEF Applications, TermsInv, TermsTypeOK
<1>6. \A adv \in Applications : rules'[adv.config] = rules[adv.config]
  BY <1>1, <1>4, <1>5 DEF Advance
<1>7. ASSUME NEW d \in calls'
      PROVE  /\ d.op = "publish" => \A w \in d.latest : number'[w] \in {0, d.next - 1}
             /\ d.op = "delete" => d.version \notin active'
             /\ d.op = "apply" => \A x \in rules'[d.checked] : Capped(d.amount, x)
  <2>1. d \in calls /\ v \notin Named(d)
    BY <1>1, <1>7
  <2>2. CASE d.op = "publish"
    <3>1. \A w \in d.latest : w # v /\ w \in Version /\ number[w] \in {0, d.next - 1}
      BY <2>1, <2>2, NamedIs, TermsCalls DEF TermsInv, CallsHold, PublishCall
    <3> QED BY <1>1, <2>2, <3>1
  <2>3. CASE d.op = "delete"
    BY <1>1, <2>1, <2>3, NamedIs DEF TermsInv, CallsHold
  <2>4. CASE d.op = "apply"
    <3>1. d.checked # v /\ d.checked \in Version
      BY <2>1, <2>4, NamedIs, TermsCalls DEF TermsInv, ApplyCall
    <3>2. rules'[d.checked] = rules[d.checked]
      BY <1>1, <3>1
    <3> QED BY <2>1, <2>4, <3>2 DEF TermsInv, CallsHold
  <2> QED BY <2>1, <2>2, <2>3, <2>4, TermsCalls DEF TermsInv
<1>8. CallsHold'
  BY <1>7 DEF CallsHold
<1>9. \A w \in Published' : rules'[w] # {}
  BY <1>1, <1>2 DEF TermsInv, RowsHold, Published
<1>10. RowsHold'
  BY <1>2, <1>3, <1>6, <1>9 DEF TermsInv, RowsHold
<1> QED BY <1>8, <1>10

(* A version goes that is neither active nor referred to. *)
LEMMA DeleteKeeps ==
    ASSUME TermsInv, NEW c \in calls, DeleteWrite(c)
    PROVE  LatestIsActive' /\ CallsHold' /\ RowsHold'
<1> DEFINE v == c.version
<1>1. /\ number \in [Version -> Nat] /\ rules \in [Version -> Optional(Rules)] /\ v \in Version
      /\ number' = [number EXCEPT ![v] = 0] /\ active' = active \ {v}
      /\ rules' = [rules EXCEPT ![v] = {}] /\ v \in Published /\ v \notin Referenced
      /\ calls' \subseteq calls /\ application' = application /\ v \notin active
  BY DEF TermsInv, TermsTypeOK, DeleteWrite, At, End, Published, CallsHold
<1> HIDE DEF v
<1>2. Published' = Published \ {v}
  BY <1>1 DEF Published
<1>3. Applications' = Applications /\ Referenced' = Referenced
  BY <1>1 DEF Applications, Referenced
<1>4. Latest' = Latest
  <2>1. \A w \in Version : w # v => number'[w] = number[w]
    BY <1>1
  <2>2. PICK l \in Latest : TRUE
    BY DEF TermsInv, LatestIsActive
  <2>3. v \notin Latest
    BY <1>1 DEF TermsInv, LatestIsActive
  <2>4. Published \subseteq Version /\ Latest \subseteq Published
    BY DEF Published, Latest
  <2>5. ASSUME NEW w \in Latest
        PROVE  w \in Latest'
    BY <1>2, <2>1, <2>3, <2>4, <2>5 DEF Latest
  <2>6. ASSUME NEW w \in Latest'
        PROVE  w \in Latest
    <3>1. w \in Published /\ w # v /\ l \in Published' /\ l # v
      BY <1>2, <2>2, <2>3, <2>4, <2>6 DEF Latest
    <3>2. number[l] <= number[w]
      BY <2>1, <2>4, <2>6, <3>1 DEF Latest
    <3>3. \A u \in Published : number[u] <= number[l]
      BY <2>2 DEF Latest
    <3> QED BY <1>1, <2>4, <3>1, <3>2, <3>3 DEF Latest
  <2> QED BY <2>5, <2>6
<1>5. LatestIsActive'
  BY <1>1, <1>4 DEF TermsInv, LatestIsActive
<1>6. \A w \in Version : /\ number'[w] \in {0, number[w]}
                         /\ rules'[w] \subseteq rules[w]
  BY <1>1
<1>7. ASSUME NEW d \in calls'
      PROVE  /\ d.op = "publish" => \A w \in d.latest : number'[w] \in {0, d.next - 1}
             /\ d.op = "delete" => d.version \notin active'
             /\ d.op = "apply" => \A x \in rules'[d.checked] : Capped(d.amount, x)
  <2>1. d \in calls
    BY <1>1, <1>7
  <2>2. CASE d.op = "publish"
    <3>1. \A w \in d.latest : w \in Version /\ number[w] \in {0, d.next - 1}
      BY <2>1, <2>2, TermsCalls DEF TermsInv, CallsHold, PublishCall
    <3> QED BY <1>6, <2>2, <3>1
  <2>3. CASE d.op = "delete"
    BY <1>1, <2>1, <2>3 DEF TermsInv, CallsHold
  <2>4. CASE d.op = "apply"
    <3>1. d.checked \in Version
      BY <2>1, <2>4, TermsCalls DEF TermsInv, ApplyCall
    <3> QED BY <1>6, <2>1, <2>4, <3>1 DEF TermsInv, CallsHold
  <2> QED BY <2>1, <2>2, <2>3, <2>4, TermsCalls DEF TermsInv
<1>8. CallsHold'
  BY <1>7 DEF CallsHold
<1>9. \A adv \in Applications : adv.config \in Version
  <2>1. \A adv \in Applications : adv \in Advance
    BY OneValue DEF Applications, TermsInv, TermsTypeOK
  <2> QED BY <2>1 DEF Advance
<1>10. \A w \in Published' : rules'[w] # {}
  BY <1>1, <1>2 DEF TermsInv, RowsHold, Published
<1>11. Referenced' \subseteq Published'
  BY <1>1, <1>2, <1>3 DEF TermsInv, RowsHold
<1>12. RowsHold'
  BY <1>3, <1>6, <1>9, <1>10, <1>11 DEF TermsInv, RowsHold
<1> QED BY <1>5, <1>8, <1>12

(* An application freezes a version that is there, with an amount that was *)
(* within the limits of the one it was checked against.                    *)
LEMMA InsertKeeps ==
    ASSUME TermsInv, NEW c \in calls, InsertApplication(c)
    PROVE  CallsHold' /\ RowsHold'
<1> DEFINE new == [amount |-> c.amount, checked |-> c.checked, config |-> c.config]
<1>1. /\ UNCHANGED <<number, active, rules>> /\ calls' \subseteq calls
      /\ application \in [Applicant -> Optional(Advance)]
      /\ application' = [application EXCEPT ![c.applicant] = {new}]
      /\ c \in ApplyCall /\ c.config \in Published
      /\ \A rule \in rules[c.checked] : Capped(c.amount, rule)
  BY TermsCalls DEF InsertApplication, TermsInv, TermsTypeOK, CallsHold, At, End
<1>2. new.amount = c.amount /\ new.checked = c.checked /\ new.config = c.config
  OBVIOUS
<1> HIDE DEF new
<1>3. \A a \in Applicant : application'[a] \subseteq application[a] \cup {new}
  BY <1>1
<1>4. Applications' \subseteq Applications \cup {new}
  BY <1>3 DEF Applications
<1>5. Referenced' \subseteq Referenced \cup {c.config} /\ Published' = Published
  BY <1>1, <1>2, <1>4 DEF Referenced, Published
<1>6. ASSUME NEW adv \in Applications', adv.checked = adv.config, NEW rule \in rules[adv.config]
      PROVE  Capped(adv.amount, rule)
  <2>1. CASE adv = new
    BY <1>1, <1>2, <1>6, <2>1
  <2>2. CASE adv \in Applications
    BY <1>6, <2>2 DEF TermsInv, RowsHold
  <2> QED BY <1>4, <2>1, <2>2
<1>7. RowsHold'
  BY <1>1, <1>5, <1>6 DEF TermsInv, RowsHold
<1>8. CallsHold'
  BY <1>1 DEF TermsInv, CallsHold
<1> QED BY <1>7, <1>8

LEMMA NextTermsInv ==
    ASSUME TermsInv, [TermsNext]_<<termsVars, calls>>
    PROVE  TermsInv'
<1> USE DEF termsVars
<1>1. TermsTypeOK /\ TermsTypeOK'
  BY TermsTyped DEF TermsInv
<1> DEFINE Kept == LatestIsActive' /\ CallsHold' /\ RowsHold'
<1> SUFFICES Kept
  BY <1>1 DEF TermsInv
<1>2. ASSUME UNCHANGED <<number, active>>
      PROVE  LatestIsActive'
  BY <1>2 DEF TermsInv, LatestIsActive, Latest, Published
<1>3. ASSUME UNCHANGED <<number, rules, application>>
      PROVE  RowsHold'
  BY <1>3 DEF TermsInv, RowsHold, Referenced, Applications, Published
<1>4. ASSUME NEW r \in Request, PublishRead(r)
      PROVE  Kept
  <2>1. CallsHold'
    BY <1>1, <1>4, HighestIs DEF PublishRead, Begin, TermsInv, CallsHold
  <2> QED BY <1>2, <1>3, <1>4, <2>1 DEF PublishRead
<1>5. ASSUME NEW r \in Request, NEW v \in Version, DeleteRead(r, v)
      PROVE  Kept
  <2>1. CallsHold'
    BY <1>5 DEF DeleteRead, Begin, TermsInv, CallsHold
  <2> QED BY <1>2, <1>3, <1>5, <2>1 DEF DeleteRead
<1>6. ASSUME NEW c \in calls, NEW v \in Version, NEW rule \in Rules, PublishWrite(c, v, rule)
      PROVE  Kept
  BY <1>6, PublishKeepsLatest, PublishKeeps
<1>7. ASSUME NEW c \in calls, DeleteWrite(c)
      PROVE  Kept
  BY <1>7, DeleteKeeps
<1>8. ASSUME NEW terms, UpsertEmployerTerms(terms)
      PROVE  Kept
  BY <1>2, <1>3, <1>8 DEF UpsertEmployerTerms, TermsInv, CallsHold
<1>9. ASSUME NEW r \in Request, NEW a \in Applicant, NEW amount \in Amount, NEW v \in Version,
             ApplyCheck(r, a, amount, v)
      PROVE  Kept
  <2>1. PICK rule \in rules[v] : amount <= MaximumEligible(employerTerms, rule)
    BY <1>9 DEF ApplyCheck
  <2>2. rules[v] = {rule} /\ rule \in Rules
    BY <1>1, <2>1, OneValue DEF TermsTypeOK
  <2>3. Capped(amount, rule)
    BY <1>1, <2>1, <2>2, AmountAssumption, LimitIsCapped DEF TermsTypeOK
  <2>4. CallsHold'
    BY <1>9, <2>2, <2>3 DEF ApplyCheck, Begin, TermsInv, CallsHold
  <2> QED BY <1>2, <1>3, <1>9, <2>4 DEF ApplyCheck
<1>10. ASSUME NEW c \in calls, NEW v \in Version, ApplyTerms(c, v)
       PROVE  Kept
  <2>1. c \in ApplyCall
    BY <1>1, <1>10, TermsCalls DEF ApplyTerms, At
  <2>2. /\ [c EXCEPT !.config = v, !.at = "insert"].op = "apply"
        /\ [c EXCEPT !.config = v, !.at = "insert"].checked = c.checked
        /\ [c EXCEPT !.config = v, !.at = "insert"].amount = c.amount
    BY <2>1 DEF ApplyCall
  <2>3. CallsHold'
    BY <1>10, <2>2 DEF ApplyTerms, At, GoOn, TermsInv, CallsHold
  <2> QED BY <1>2, <1>3, <1>10, <2>3 DEF ApplyTerms
<1>11. ASSUME NEW c \in calls, InsertApplication(c)
       PROVE  Kept
  BY <1>2, <1>11, InsertKeeps DEF InsertApplication
<1>12. ASSUME NEW c \in calls, TermsAbort(c)
       PROVE  Kept
  <2>1. CallsHold'
    BY <1>12 DEF TermsAbort, End, TermsInv, CallsHold
  <2> QED BY <1>2, <1>3, <1>12, <2>1 DEF TermsAbort
<1>13. CASE UNCHANGED <<termsVars, calls>>
  <2>1. CallsHold'
    BY <1>13 DEF TermsInv, CallsHold
  <2> QED BY <1>2, <1>3, <1>13, <2>1
<1> HIDE DEF Kept
<1> QED BY <1>4, <1>5, <1>6, <1>7, <1>8, <1>9, <1>10, <1>11, <1>12, <1>13
        DEF TermsNext, ConfigSteps, ApplySteps, OverridePercentage

----------------------------------------------------------------------------
(* The numbers.  As long as nothing has raced a handler since it looked    *)
(* for the highest number, what it read bounds every number in the table,  *)
(* then the sequence does, and then its own number is above them - or is   *)
(* the 1 of a sequence that had not been called.                           *)
Looked(c) ==
    /\ c.at \in {"syncLast", "syncSet"} => \A n \in Taken : n <= c.max
    /\ c.at = "number" => \A n \in Taken : n <= sequence.last
    /\ c.at = "insert" => c.number = 1 \/ \A n \in Taken : n < c.number

LooksHold == \A c \in calls : c.raced \/ Looked(c)

TakenBounded == \E bound \in Nat : \A n \in Taken : n <= bound

NumbersInv ==
    /\ NumbersTypeOK
    /\ ~sequence.called => sequence.last = 1
    /\ TakenBounded
    /\ LooksHold

LEMMA TakenAre ==
    ASSUME NumbersTypeOK
    PROVE  \A n \in Taken : n \in Nat /\ n # 0
BY NumbersAssumption DEF NumbersTypeOK, Taken, Numbered

LEMMA InitNumbersInv == NumbersInit => NumbersInv
<1> SUFFICES ASSUME NumbersInit PROVE NumbersInv
  OBVIOUS
<1>1. NumbersTypeOK
  BY DEF NumbersInit, NumbersTypeOK
<1>2. ~sequence.called => sequence.last = 1
  BY DEF NumbersInit
<1>3. TakenBounded
  <2>1. Taken = 1..imported /\ imported \in Nat
    BY NumbersAssumption DEF NumbersInit, Taken, Numbered
  <2>2. imported \in Nat /\ \A n \in Taken : n <= imported
    BY <2>1
  <2> QED BY <2>2 DEF TakenBounded
<1>4. LooksHold
  BY DEF NumbersInit, LooksHold
<1> QED BY <1>1, <1>2, <1>3, <1>4 DEF NumbersInv

(* The highest number is what SyncMax looks for. *)
LEMMA HighestTaken ==
    ASSUME NumbersTypeOK, TakenBounded
    PROVE  /\ Highest \in Nat
           /\ \A n \in Taken : n <= Highest
           /\ Highest = 0 => Taken = {}
<1>1. CASE Taken = {}
  BY <1>1 DEF Highest
<1>2. CASE Taken # {}
  <2>1. \E n \in Taken : \A m \in Taken : m <= n
    <3>1. PICK bound \in Nat : \A n \in Taken : n <= bound
      BY DEF TakenBounded
    <3>2. Taken \in SUBSET Nat
      BY TakenAre
    <3> QED BY <1>2, <3>1, <3>2, GreatestNatural
  <2>2. Highest \in Taken /\ \A m \in Taken : m <= Highest
    BY <1>2, <2>1 DEF Highest
  <2> QED BY <2>2, TakenAre
<1> QED BY <1>1, <1>2

LEMMA NextValueIs ==
    ASSUME NumbersInv
    PROVE  /\ NextValue \in Nat /\ NextValue >= sequence.last
           /\ NextValue > sequence.last \/ NextValue = 1
BY DEF NumbersInv, NumbersTypeOK, NextValue

LEMMA NumbersTyped ==
    ASSUME NumbersInv, [NumbersNext]_<<numberVars, calls>>
    PROVE  NumbersTypeOK'
<1> USE DEF NumbersTypeOK, numberVars
<1>1. NumbersTypeOK /\ \A c \in calls : c \in StoreCall
  BY DEF NumbersInv
<1>2. ASSUME NEW r \in Request, NEW a \in Submission, StoreBegin(r, a)
      PROVE  NumbersTypeOK'
  <2>1. [req |-> r, op |-> "store", submission |-> a, max |-> 0, number |-> 0, tries |-> 0,
         raced |-> FALSE, at |-> "syncMax"] \in StoreCall
    BY NumbersAssumption DEF StoreCall
  <2> QED BY <1>1, <1>2, <2>1 DEF StoreBegin, Begin
<1>3. ASSUME NEW c \in calls, SyncMax(c)
      PROVE  NumbersTypeOK'
  <2>1. [c EXCEPT !.max = Highest, !.raced = FALSE,
                  !.at = IF Highest = 0 THEN "number" ELSE "syncLast"] \in StoreCall
    BY <1>1, HighestTaken DEF NumbersInv, StoreCall
  <2> QED BY <1>1, <1>3, <2>1 DEF SyncMax, GoOn
<1>4. ASSUME NEW c \in calls, SyncLast(c)
      PROVE  NumbersTypeOK'
  <2>1. [c EXCEPT !.at = IF sequence.last >= c.max THEN "number" ELSE "syncSet"] \in StoreCall
    BY <1>1 DEF StoreCall
  <2> QED BY <1>1, <1>4, <2>1 DEF SyncLast, GoOn
<1>5. ASSUME NEW c \in calls
      PROVE  RacedBy(c) \subseteq StoreCall
  <2>1. \A d \in calls : [d EXCEPT !.raced = TRUE] \in StoreCall
    BY <1>1 DEF StoreCall
  <2> QED BY <2>1 DEF RacedBy
<1>6. ASSUME NEW c \in calls, SyncSet(c)
      PROVE  NumbersTypeOK'
  <2>1. [c EXCEPT !.at = "number"] \in StoreCall /\ c.max \in Nat
    BY <1>1 DEF StoreCall
  <2> QED BY <1>1, <1>5, <1>6, <2>1 DEF SyncSet
<1>7. ASSUME NEW c \in calls, GenerateNumber(c)
      PROVE  NumbersTypeOK'
  <2>1. [c EXCEPT !.number = NextValue, !.at = "insert"] \in StoreCall
    BY <1>1, NextValueIs DEF StoreCall
  <2> QED BY <1>1, <1>7, <2>1, NextValueIs DEF GenerateNumber, GoOn
<1>8. ASSUME NEW c \in calls, InsertNumbered(c)
      PROVE  NumbersTypeOK'
  <2>1. c.submission \in Submission /\ c.number \in Nat
    BY <1>1 DEF StoreCall
  <2> QED BY <1>1, <1>5, <1>8, <2>1 DEF InsertNumbered
<1>9. ASSUME NEW c \in calls, NumberCollides(c)
      PROVE  NumbersTypeOK'
  <2>1. CASE LastTry(c)
    BY <1>1, <1>9, <2>1 DEF NumberCollides, End
  <2>2. CASE ~LastTry(c)
    <3>1. c \in StoreCall /\ c.tries + 1 \in 0..MaxTries - 1
      BY <1>1, <2>2, NumbersAssumption DEF LastTry, StoreCall
    <3>2. [c EXCEPT !.tries = @ + 1, !.at = "syncMax"] \in StoreCall
      BY <3>1 DEF StoreCall
    <3> QED BY <1>1, <1>9, <2>2, <3>2 DEF NumberCollides, GoOn
  <2> QED BY <2>1, <2>2
<1>10. ASSUME NEW c \in calls, NumbersAbort(c)
       PROVE  NumbersTypeOK'
  BY <1>1, <1>10 DEF NumbersAbort, End
<1>11. CASE UNCHANGED <<numberVars, calls>>
  BY <1>1, <1>11
<1> QED BY <1>2, <1>3, <1>4, <1>6, <1>7, <1>8, <1>9, <1>10, <1>11 DEF NumbersNext

(* What the handlers read holds on while nothing races them. *)
LEMMA LooksKeep ==
    ASSUME NumbersInv, [NumbersNext]_<<numberVars, calls>>
    PROVE  LooksHold'
<1> USE DEF numberVars
<1>1. NumbersTypeOK /\ TakenBounded /\ LooksHold /\ \A c \in calls : c \in StoreCall
  BY DEF NumbersInv, NumbersTypeOK
<1>2. \A c \in calls : c.raced \/ Looked(c)
  BY <1>1 DEF LooksHold
<1>3. ASSUME UNCHANGED <<imported, appNumber>>
      PROVE  Taken' = Taken
  BY <1>3 DEF Taken, Numbered
<1>4. ASSUME UNCHANGED <<imported, appNumber>>, sequence.last \in Nat, sequence'.last \in Nat,
             sequence'.last >= sequence.last,
             NEW next, calls' \subseteq calls \cup {next},
             next.raced \/ Looked(next)'
      PROVE  LooksHold'
  <2>1. ASSUME NEW c \in calls, ~c.raced
        PROVE  Looked(c)'
    <3>1. \A n \in Taken : n <= sequence.last => n <= sequence'.last
      BY <1>1, <1>4, TakenAre
    <3> QED BY <1>2, <1>3, <1>4, <2>1, <3>1 DEF Looked
  <2> QED BY <1>4, <2>1 DEF LooksHold
<1>5. ASSUME calls' \subseteq calls, UNCHANGED numberVars
      PROVE  LooksHold'
  BY <1>2, <1>3, <1>5 DEF LooksHold, Looked
<1>6. ASSUME NEW r \in Request, NEW a \in Submission, StoreBegin(r, a)
      PROVE  LooksHold'
  <2>0. PICK next : next = [req |-> r, op |-> "store", submission |-> a, max |-> 0,
                           number |-> 0, tries |-> 0, raced |-> FALSE, at |-> "syncMax"]
    OBVIOUS
  <2>1. Looked(next)'
    BY <2>0 DEF Looked
  <2>2. calls' \subseteq calls \cup {next} /\ UNCHANGED numberVars
    BY <1>6, <2>0 DEF StoreBegin, Begin
  <2> QED BY <1>1, <1>4, <2>1, <2>2 DEF NumbersTypeOK
<1>7. ASSUME NEW c \in calls, SyncMax(c)
      PROVE  LooksHold'
  <2>0. PICK next : next = [c EXCEPT !.max = Highest, !.raced = FALSE,
                               !.at = IF Highest = 0 THEN "number" ELSE "syncLast"]
    OBVIOUS
  <2>1. next.max = Highest /\ next.at = IF Highest = 0 THEN "number" ELSE "syncLast"
    BY <1>1, <2>0 DEF StoreCall
  <2>2. calls' \subseteq calls \cup {next} /\ UNCHANGED numberVars
    BY <1>7, <2>0 DEF SyncMax, GoOn
  <2>3. Looked(next)'
    BY <1>1, <1>3, <2>1, <2>2, HighestTaken DEF Looked
  <2> QED BY <1>1, <1>4, <2>2, <2>3 DEF NumbersTypeOK
<1>8. ASSUME NEW c \in calls, SyncLast(c)
      PROVE  LooksHold'
  <2>0. PICK next : next = [c EXCEPT !.at = IF sequence.last >= c.max THEN "number" ELSE "syncSet"]
    OBVIOUS
  <2>1. /\ next.max = c.max /\ next.raced = c.raced /\ c.max \in Nat
        /\ next.at = IF sequence.last >= c.max THEN "number" ELSE "syncSet"
    BY <1>1, <2>0 DEF StoreCall
  <2>2. calls' \subseteq calls \cup {next} /\ UNCHANGED numberVars
    BY <1>8, <2>0 DEF SyncLast, GoOn
  <2>3. next.raced \/ Looked(next)'
    <3>1. c.raced \/ \A n \in Taken : n <= c.max
      BY <1>2, <1>8 DEF SyncLast, At, Looked
    <3>2. sequence.last >= c.max => c.raced \/ \A n \in Taken : n <= sequence.last
      BY <1>1, <2>1, <3>1, TakenAre DEF NumbersTypeOK
    <3> QED BY <1>3, <2>1, <2>2, <3>1, <3>2 DEF Looked
  <2> QED BY <1>1, <1>4, <2>2, <2>3 DEF NumbersTypeOK
<1>9. ASSUME NEW c \in calls, NEW d \in RacedBy(c)
      PROVE  d.raced
  BY <1>1 DEF RacedBy, StoreCall
<1>10. ASSUME NEW c \in calls, SyncSet(c)
       PROVE  LooksHold'
  <2>0. PICK next : next = [c EXCEPT !.at = "number"]
    OBVIOUS
  <2>1. next.max = c.max /\ next.raced = c.raced /\ next.at = "number"
    BY <1>1, <2>0 DEF StoreCall
  <2>2. /\ calls' = RacedBy(c) \cup {next} /\ sequence'.last = c.max
        /\ UNCHANGED <<imported, appNumber>>
    BY <1>10, <2>0 DEF SyncSet
  <2>3. next.raced \/ Looked(next)'
    BY <1>2, <1>3, <1>10, <2>1, <2>2 DEF SyncSet, At, Looked
  <2> QED BY <1>9, <2>2, <2>3 DEF LooksHold
<1>11. ASSUME NEW c \in calls, GenerateNumber(c)
       PROVE  LooksHold'
  <2>0. PICK next : next = [c EXCEPT !.number = NextValue, !.at = "insert"]
    OBVIOUS
  <2>1. next.number = NextValue /\ next.raced = c.raced /\ next.at = "insert"
    BY <1>1, <2>0 DEF StoreCall
  <2>2. /\ calls' \subseteq calls \cup {next} /\ sequence'.last = NextValue
        /\ UNCHANGED <<imported, appNumber>>
    BY <1>11, <2>0 DEF GenerateNumber, GoOn
  <2>3. next.raced \/ Looked(next)'
    <3>1. c.raced \/ \A n \in Taken : n <= sequence.last
      BY <1>2, <1>11 DEF GenerateNumber, At, Looked
    <3>2. c.raced \/ NextValue = 1 \/ \A n \in Taken : n < NextValue
      BY <1>1, <3>1, NextValueIs, TakenAre DEF NumbersTypeOK
    <3> QED BY <1>3, <2>1, <2>2, <3>2 DEF Looked
  <2> QED BY <1>1, <1>4, <2>2, <2>3, NextValueIs DEF NumbersTypeOK
<1>12. ASSUME NEW c \in calls, InsertNumbered(c)
       PROVE  LooksHold'
  BY <1>9, <1>12 DEF InsertNumbered, LooksHold
<1>13. ASSUME NEW c \in calls, NumberCollides(c)
       PROVE  LooksHold'
  <2>1. CASE LastTry(c)
    BY <1>5, <1>13, <2>1 DEF NumberCollides, End
  <2>2. CASE ~LastTry(c)
    <3>0. PICK next : next = [c EXCEPT !.tries = @ + 1, !.at = "syncMax"]
      OBVIOUS
    <3>1. next.at = "syncMax"
      BY <1>1, <3>0 DEF StoreCall
    <3>2. calls' \subseteq calls \cup {next} /\ UNCHANGED numberVars
      BY <1>13, <2>2, <3>0 DEF NumberCollides, GoOn
    <3> QED BY <1>1, <1>4, <3>1, <3>2 DEF NumbersTypeOK, Looked
  <2> QED BY <2>1, <2>2
<1>14. ASSUME NEW c \in calls, NumbersAbort(c)
       PROVE  LooksHold'
  BY <1>5, <1>14 DEF NumbersAbort, End
<1>15. CASE UNCHANGED <<numberVars, calls>>
  BY <1>5, <1>15
<1> QED BY <1>6, <1>7, <1>8, <1>10, <1>11, <1>12, <1>13, <1>14, <1>15 DEF NumbersNext

LEMMA NextNumbersInv ==
    ASSUME NumbersInv, [NumbersNext]_<<numberVars, calls>>
    PROVE  NumbersInv'
<1> USE DEF numberVars
<1>1. NumbersTypeOK /\ NumbersTypeOK' /\ LooksHold'
  BY NumbersTyped, LooksKeep DEF NumbersInv
<1>2. (~sequence.called => sequence.last = 1)'
  <2>1. ASSUME NEW c \in calls, SyncSet(c) \/ GenerateNumber(c)
        PROVE  sequence'.called
    BY <2>1 DEF SyncSet, GenerateNumber
  <2>2. CASE UNCHANGED sequence
    BY <2>2 DEF NumbersInv
  <2> QED BY <2>1, <2>2 DEF NumbersNext, StoreBegin, SyncMax, SyncLast, InsertNumbered,
                          NumberCollides, NumbersAbort
<1>3. TakenBounded'
  <2>1. ASSUME UNCHANGED <<imported, appNumber>>
        PROVE  TakenBounded'
    BY <2>1 DEF NumbersInv, TakenBounded, Taken, Numbered
  <2>2. ASSUME NEW c \in calls, InsertNumbered(c)
        PROVE  TakenBounded'
    <3>1. c.submission \in Submission /\ c.number \in Nat
      BY <1>1 DEF NumbersTypeOK, StoreCall
    <3>2. Taken' \subseteq Taken \cup {c.number}
      <4>1. /\ imported' = imported
            /\ \A a \in Submission : appNumber'[a] \in {appNumber[a], c.number}
        BY <1>1, <2>2, <3>1 DEF InsertNumbered, NumbersTypeOK
      <4> QED BY <4>1 DEF Taken, Numbered
    <3>3. PICK bound \in Nat : \A n \in Taken : n <= bound
      BY DEF NumbersInv, TakenBounded
    <3>4. \A n \in Taken : n \in Nat
      BY <1>1, TakenAre
    <3>5. bound + c.number \in Nat /\ \A n \in Taken' : n <= bound + c.number
      BY <3>1, <3>2, <3>3, <3>4
    <3> QED BY <3>5 DEF TakenBounded
  <2> QED BY <2>1, <2>2 DEF NumbersNext, StoreBegin, SyncMax, SyncLast, SyncSet, GenerateNumber,
                          NumberCollides, NumbersAbort
<1> QED BY <1>1, <1>2, <1>3 DEF NumbersInv

----------------------------------------------------------------------------
(* The calendar.  Every month begins after the one before it, by what the  *)
(* longest and the shortest month have of days. *)
LEMMA Months ==
    /\ Len(FirstDay) \in Nat /\ Len(FirstDay) > 3 /\ FirstDay[1] = 1
    /\ \A m \in 1..Len(FirstDay) : FirstDay[m] \in Nat
    /\ \A m \in 1..Len(FirstDay) - 1 : FirstDay[m] + 28 <= FirstDay[m + 1]
                                       /\ FirstDay[m + 1] <= FirstDay[m] + 31
<1>1. /\ FirstDay \in Seq(Nat) /\ Len(FirstDay) > 3 /\ FirstDay[1] = 1
      /\ \A m \in 1..Len(FirstDay) - 1 : FirstDay[m + 1] - FirstDay[m] \in 28..31
  BY CalendarAssumption
<1>2. Len(FirstDay) \in Nat /\ \A m \in 1..Len(FirstDay) : FirstDay[m] \in Nat
  BY <1>1
<1>3. ASSUME NEW m \in 1..Len(FirstDay) - 1
      PROVE  FirstDay[m] + 28 <= FirstDay[m + 1] /\ FirstDay[m + 1] <= FirstDay[m] + 31
  <2>1. FirstDay[m] \in Nat /\ FirstDay[m + 1] \in Nat
    BY <1>2
  <2>2. FirstDay[m + 1] - FirstDay[m] \in 28..31
    BY <1>1
  <2> QED BY <2>1, <2>2
<1> QED BY <1>1, <1>2, <1>3

LEMMA MonthsInOrder ==
    ASSUME NEW m \in 1..Len(FirstDay), NEW n \in 1..Len(FirstDay), m < n
    PROVE  FirstDay[m] < FirstDay[n]
<1> DEFINE T == {k \in 1..Len(FirstDay) : m < k /\ FirstDay[m] >= FirstDay[k]}
<1>1. CASE T = {}
  <2>1. FirstDay[m] \in Nat /\ FirstDay[n] \in Nat
    BY Months
  <2> QED BY <1>1, <2>1
<1>2. CASE T # {}
  <2>1. T \in SUBSET Nat
    BY Months
  <2>2. PICK k \in T : \A j \in T : k <= j
    <3> HIDE DEF T
    <3> QED BY <1>2, <2>1, LeastNatural
  <2>3. k \in 1..Len(FirstDay) /\ m < k /\ FirstDay[m] >= FirstDay[k]
    BY <2>2
  <2>4. k - 1 \in 1..Len(FirstDay) - 1 /\ k - 1 \in 1..Len(FirstDay) /\ m <= k - 1 /\ k = (k - 1) + 1
    BY <2>3, Months
  <2>5. FirstDay[k - 1] + 28 <= FirstDay[k]
    BY <2>4, Months
  <2>6. FirstDay[m] \in Nat /\ FirstDay[k] \in Nat /\ FirstDay[k - 1] \in Nat
    BY <2>3, <2>4, Months
  <2>7. m # k - 1
    BY <2>3, <2>5, <2>6
  <2>8. k - 1 \in T
    BY <2>3, <2>4, <2>5, <2>6, <2>7
  <2>9. ~(k <= k - 1)
    BY <2>4
  <2> QED BY <2>2, <2>8, <2>9
<1> QED BY <1>1, <1>2

(* A day is in one month, *)
LEMMA MonthIs ==
    ASSUME NEW day \in Nat, NEW m \in 1..Len(FirstDay) - 1,
           FirstDay[m] <= day, day < FirstDay[m + 1]
    PROVE  MonthOf(day) = m
<1>1. \A k \in 1..Len(FirstDay) - 1 : /\ FirstDay[k] \in Nat /\ FirstDay[k + 1] \in Nat
                                      /\ k + 1 \in 1..Len(FirstDay) /\ k \in 1..Len(FirstDay)
  BY Months
<1>2. ASSUME NEW k \in 1..Len(FirstDay) - 1, day \in FirstDay[k]..FirstDay[k + 1] - 1
      PROVE  k = m
  <2>1. FirstDay[k] <= day /\ day < FirstDay[k + 1]
    BY <1>1, <1>2
  <2>2. FirstDay[m] \in Nat /\ FirstDay[m + 1] \in Nat
    BY <1>1
  <2>3. FirstDay[k] \in Nat /\ FirstDay[k + 1] \in Nat
    BY <1>1
  <2>4. CASE k < m
    <3>1. k + 1 = m \/ k + 1 < m
      BY <2>4, Months
    <3>2. FirstDay[k + 1] <= FirstDay[m]
      BY <1>1, <3>1, MonthsInOrder
    <3> QED BY <2>1, <2>2, <2>3, <3>2
  <2>5. CASE m < k
    <3>1. m + 1 = k \/ m + 1 < k
      BY <2>5, Months
    <3>2. FirstDay[m + 1] <= FirstDay[k]
      BY <1>1, <3>1, MonthsInOrder
    <3> QED BY <2>1, <2>2, <2>3, <3>2
  <2> QED BY <2>4, <2>5, Months
<1>3. day \in FirstDay[m]..FirstDay[m + 1] - 1
  BY <1>1
<1> QED BY <1>2, <1>3 DEF MonthOf

(* and every day before the calendar ends is in some. *)
LEMMA MonthOfDay ==
    ASSUME NEW day \in Nat, 1 <= day, day < FirstDay[Len(FirstDay)]
    PROVE  /\ MonthOf(day) \in 1..Len(FirstDay) - 1
           /\ FirstDay[MonthOf(day)] <= day /\ day < FirstDay[MonthOf(day) + 1]
<1> DEFINE T == {k \in 1..Len(FirstDay) : day < FirstDay[k]}
<1>1. T \in SUBSET Nat /\ Len(FirstDay) \in T
  BY Months
<1>2. PICK k \in T : \A j \in T : k <= j
  <2> HIDE DEF T
  <2> QED BY <1>1, LeastNatural
<1>3. k \in 1..Len(FirstDay) /\ day < FirstDay[k] /\ k # 1
  BY <1>2, Months
<1>4. k - 1 \in 1..Len(FirstDay) - 1 /\ k - 1 \in 1..Len(FirstDay) /\ k = (k - 1) + 1 /\ ~(k <= k - 1)
  BY <1>3, Months
<1>5. k - 1 \notin T
  BY <1>2, <1>4
<1>6. FirstDay[k - 1] <= day
  BY <1>4, <1>5, Months
<1>7. MonthOf(day) = k - 1
  BY <1>3, <1>4, <1>6, MonthIs
<1> QED BY <1>3, <1>4, <1>6, <1>7

(* A request is made in a month with three after it. *)
LEMMA RequestDay ==
    ASSUME NEW day \in 1..LastRequestDay
    PROVE  /\ day \in Nat /\ MonthOf(day) \in 1..Len(FirstDay) - 4
           /\ FirstDay[MonthOf(day)] <= day /\ day < FirstDay[MonthOf(day) + 1]
           /\ DayOf(day) \in 1..31 /\ day = FirstDay[MonthOf(day)] + DayOf(day) - 1
<1> DEFINE L == Len(FirstDay)
           m == MonthOf(day)
<1>1. L \in Nat /\ L > 3 /\ FirstDay[L - 3] \in Nat /\ FirstDay[L] \in Nat
  BY Months
<1>2. day \in Nat /\ 1 <= day /\ day < FirstDay[L - 3]
  BY <1>1 DEF LastRequestDay
<1>3. FirstDay[L - 3] < FirstDay[L]
  BY <1>1, MonthsInOrder
<1>4. m \in 1..L - 1 /\ FirstDay[m] <= day /\ day < FirstDay[m + 1]
  BY <1>1, <1>2, <1>3, MonthOfDay
<1>5. m < L - 3
  <2>1. ASSUME ~(m < L - 3)
        PROVE  FALSE
    <3>1. m = L - 3 \/ L - 3 < m
      BY <1>1, <1>4, <2>1
    <3>2. L - 3 \in 1..L /\ m \in 1..L
      BY <1>1, <1>4
    <3>3. FirstDay[m] \in Nat
      BY <3>2, Months
    <3>4. L - 3 < m => FirstDay[L - 3] < FirstDay[m]
      BY <3>2, MonthsInOrder
    <3>5. FirstDay[L - 3] <= FirstDay[m]
      BY <1>1, <3>1, <3>3, <3>4
    <3> QED BY <1>1, <1>2, <1>4, <3>3, <3>5
  <2> QED BY <2>1
<1>6. FirstDay[m] \in Nat /\ FirstDay[m + 1] \in Nat /\ FirstDay[m + 1] <= FirstDay[m] + 31
  BY <1>1, <1>4, Months
<1>7. DayOf(day) = day - FirstDay[m] + 1
  BY DEF DayOf
<1> HIDE DEF m
<1>8. DayOf(day) \in 1..31 /\ day = FirstDay[m] + DayOf(day) - 1
  <2> DEFINE first == FirstDay[m]
             next == FirstDay[m + 1]
  <2>1. first \in Nat /\ next \in Nat /\ first <= day /\ day < next /\ next <= first + 31
    BY <1>4, <1>6
  <2>2. DayOf(day) = day - first + 1
    BY <1>7
  <2> HIDE DEF first, next
  <2>3. DayOf(day) \in 1..31 /\ day = first + DayOf(day) - 1
    BY <1>2, <2>1, <2>2
  <2> QED BY <2>3 DEF first
<1>9. m \in 1..L - 4
  BY <1>1, <1>4, <1>5
<1> QED BY <1>2, <1>4, <1>8, <1>9 DEF m

(* The payday of a month in question is in the calendar. *)
LEMMA RecoveryInCalendar ==
    ASSUME NEW day \in 1..LastRequestDay, NEW p \in Payroll
    PROVE  /\ RecoveryDate(day, p) \in Nat
           /\ p.cutoff <= p.date + 1 => day <= RecoveryDate(day, p)
<1> DEFINE m == MonthOf(day)
           first == FirstDay[m]
           next == FirstDay[m + 1]
<1>1. p.date \in 1..31 /\ p.cutoff \in 1..31
  BY PayrollAssumption
<1>2. /\ day \in Nat /\ m \in 1..Len(FirstDay) - 4 /\ first <= day /\ day < next
      /\ DayOf(day) \in 1..31 /\ day = first + DayOf(day) - 1
  BY RequestDay
<1>3. first \in Nat /\ next \in Nat
  <2>1. m \in 1..Len(FirstDay) /\ m + 1 \in 1..Len(FirstDay)
    BY <1>2, Months
  <2> QED BY <2>1, Months
<1>4. RecoveryDate(day, p) = (IF DayOf(day) < p.cutoff THEN first ELSE next) + p.date - 1
  BY DEF RecoveryDate
<1>5. \A d \in 1..31, date \in 1..31, cutoff \in 1..31 :
          LET recovery == (IF d < cutoff THEN first ELSE next) + date - 1
          IN  /\ recovery \in Nat
              /\ cutoff <= date + 1 /\ first + d - 1 < next => first + d - 1 <= recovery
  <2> HIDE DEF first, next
  <2> QED BY <1>3
<1> QED BY <1>1, <1>2, <1>4, <1>5

(* A day counted from the beginning of a month is in it or in the next.    *)
LEMMA DayCarried ==
    ASSUME NEW n \in 1..Len(FirstDay) - 2, NEW d \in 1..31
    PROVE  /\ FirstDay[n] + d - 1 \in Nat
           /\ MonthOf(FirstDay[n] + d - 1) \in {n, n + 1}
           /\ d <= LengthOf(n) => MonthOf(FirstDay[n] + d - 1) = n
<1> DEFINE day == FirstDay[n] + d - 1
<1>1. n \in 1..Len(FirstDay) - 1 /\ n + 1 \in 1..Len(FirstDay) - 1 /\ n + 2 \in 1..Len(FirstDay)
      /\ n \in 1..Len(FirstDay) /\ n + 1 \in 1..Len(FirstDay) /\ (n + 1) + 1 = n + 2
  BY Months
<1>2. FirstDay[n] \in Nat /\ FirstDay[n + 1] \in Nat /\ FirstDay[n + 2] \in Nat
  BY <1>1, Months
<1>3. FirstDay[n] + 28 <= FirstDay[n + 1] /\ FirstDay[n + 1] + 28 <= FirstDay[n + 2]
  BY <1>1, Months
<1>4. day \in Nat /\ FirstDay[n] <= day /\ day < FirstDay[n + 2]
      /\ (d <= LengthOf(n) <=> day < FirstDay[n + 1])
  <2>1. \A a, b, c \in Nat : a + 28 <= b /\ b + 28 <= c =>
            /\ a + d - 1 \in Nat /\ a <= a + d - 1 /\ a + d - 1 < c
            /\ (d <= b - a <=> a + d - 1 < b)
    OBVIOUS
  <2> QED BY <1>2, <1>3, <2>1 DEF LengthOf
<1> HIDE DEF day
<1>5. CASE day < FirstDay[n + 1]
  BY <1>1, <1>4, <1>5, MonthIs DEF day
<1>6. CASE ~(day < FirstDay[n + 1])
  <2>1. FirstDay[n + 1] <= day
    BY <1>2, <1>4, <1>6
  <2>2. MonthOf(day) = n + 1
    BY <1>1, <1>4, <2>1, MonthIs
  <2> QED BY <1>4, <1>6, <2>2 DEF day
<1> QED BY <1>5, <1>6

(* What calculateDueDate comes to: the payday of the month, or of the next *)
(* one unless that is too short to have the day.                           *)
LEMMA DueInCalendar ==
    ASSUME NEW day \in 1..LastRequestDay, NEW p \in Payroll
    PROVE  /\ MonthOf(DueDate(day, p)) \in 1..Len(FirstDay)
           /\ DayOf(day) <= LengthOf(MonthOf(day) + 1) => DueDate(day, p) = RecoveryDate(day, p)
<1> DEFINE m == MonthOf(day)
           moved == IF DayOf(day) < p.cutoff THEN day ELSE FirstDay[m + 1] + DayOf(day) - 1
<1>1. p.date \in 1..31
  BY PayrollAssumption
<1>2. m \in 1..Len(FirstDay) - 4 /\ DayOf(day) \in 1..31
  BY RequestDay
<1>3. m + 1 \in 1..Len(FirstDay) - 2
  BY <1>2, Months
<1>4. DueDate(day, p) = FirstDay[MonthOf(moved)] + p.date - 1
  BY DEF DueDate
<1>5. MonthOf(moved) \in {m, m + 1, (m + 1) + 1}
  BY <1>2, <1>3, DayCarried
<1>6. MonthOf(moved) \in 1..Len(FirstDay) - 2
  BY <1>2, <1>5, Months
<1>7. MonthOf(DueDate(day, p)) \in {MonthOf(moved), MonthOf(moved) + 1}
  BY <1>1, <1>4, <1>6, DayCarried
<1>8. DayOf(day) <= LengthOf(m + 1) => DueDate(day, p) = RecoveryDate(day, p)
  <2>1. CASE DayOf(day) < p.cutoff
    BY <1>4, <2>1 DEF RecoveryDate
  <2>2. CASE ~(DayOf(day) < p.cutoff)
    BY <1>2, <1>3, <1>4, <2>2, DayCarried DEF RecoveryDate
  <2> QED BY <2>1, <2>2
<1> QED BY <1>6, <1>7, <1>8, Months

----------------------------------------------------------------------------
(* Money.  Rounding is to the nearest whole, for any divisor; it leaves    *)
(* whole numbers alone and keeps the order of the others.                  *)
LEMMA Products == \A x, y \in Nat : x * y \in Nat
OBVIOUS

LEMMA ProductsGrow ==
    ASSUME NEW k \in Nat, NEW x \in Int, NEW y \in Int, x <= y
    PROVE  k * x <= k * y /\ x * k <= y * k
OBVIOUS

LEMMA RoundIs ==
    ASSUME NEW n \in Nat, NEW d \in Nat \ {0}
    PROVE  /\ Round(n, d) \in Nat
           /\ (2 * d) * Round(n, d) <= 2 * n + d
           /\ 2 * n + d < (2 * d) * Round(n, d) + 2 * d
<1> DEFINE a == 2 * n + d
           b == 2 * d
<1>1. a \in Nat /\ b \in Nat \ {0}
  OBVIOUS
<1> HIDE DEF a, b
<1>2. a \div b \in Nat /\ b * (a \div b) <= a /\ a < b * (a \div b) + b
  BY <1>1
<1>3. Round(n, d) = a \div b
  BY DEF Round, a, b
<1> QED BY <1>2, <1>3 DEF a, b

LEMMA RoundWhole ==
    ASSUME NEW k \in Nat, NEW d \in Nat \ {0}
    PROVE  Round(d * k, d) = k
<1> PICK n \in Nat : n = d * k
  BY Products
<1>1. /\ Round(n, d) \in Nat
      /\ (2 * d) * Round(n, d) <= 2 * n + d
      /\ 2 * n + d < (2 * d) * Round(n, d) + 2 * d
  BY RoundIs
<1>2. Round(n, d) + 1 <= k => (2 * d) * (Round(n, d) + 1) <= (2 * d) * k
  BY <1>1, ProductsGrow
<1>3. k + 1 <= Round(n, d) => (2 * d) * (k + 1) <= (2 * d) * Round(n, d)
  BY <1>1, ProductsGrow
<1> QED BY <1>1, <1>2, <1>3

LEMMA RoundGrows ==
    ASSUME NEW d \in Nat \ {0}, NEW x \in Nat, NEW y \in Nat, x <= y
    PROVE  Round(x, d) <= Round(y, d)
<1>1. Round(x, d) \in Nat /\ (2 * d) * Round(x, d) <= 2 * x + d
  BY RoundIs
<1>2. Round(y, d) \in Nat /\ 2 * y + d < (2 * d) * Round(y, d) + 2 * d
  BY RoundIs
<1>3. Round(y, d) + 1 <= Round(x, d) => (2 * d) * (Round(y, d) + 1) <= (2 * d) * Round(x, d)
  BY <1>1, <1>2, ProductsGrow
<1> QED BY <1>1, <1>2, <1>3

LEMMA PartsAre == Parts \in Nat \ {0} /\ 3650000 * Parts \in Nat \ {0} /\ 10000 * Parts \in Nat \ {0}
BY RatesAssumption

(* What a column holds is a whole number of its last place. *)
LEMMA ColumnIs ==
    ASSUME NEW n \in Nat
    PROVE  Column(n) \in Nat /\ Round(Column(n), Parts) = Round(n, Parts)
<1>1. Round(n, Parts) \in Nat
  BY PartsAre, RoundIs
<1> QED BY <1>1, PartsAre, Products, RoundWhole DEF Column

(* The amount that is free of interest is the principal up to the rounded  *)
(* threshold.                                                              *)
LEMMA InterestFree ==
    ASSUME NEW principal \in Nat, NEW threshold \in Nat
    PROVE  Round(Least(Parts * principal, threshold), Parts) = Least(principal, Round(threshold, Parts))
<1>1. Parts * principal \in Nat /\ Round(Parts * principal, Parts) = principal
  BY PartsAre, Products, RoundWhole
<1>2. Round(threshold, Parts) \in Nat
  BY PartsAre, RoundIs
<1>3. CASE Parts * principal <= threshold
  <2>1. principal <= Round(threshold, Parts)
    BY <1>1, <1>3, PartsAre, RoundGrows
  <2> QED BY <1>1, <1>3, <2>1 DEF Least
<1>4. CASE ~(Parts * principal <= threshold)
  <2>1. Round(threshold, Parts) <= principal
    BY <1>1, <1>4, PartsAre, RoundGrows
  <2> QED BY <1>1, <1>2, <1>4, <2>1 DEF Least
<1> QED BY <1>3, <1>4

(* A breakdown from the amount that is free of interest. *)
TotalWith(principal, free, s) ==
    LET interest == Round((principal - free) * s.annualRate * s.days, 3650000 * Parts)
        fee      == Round(principal * s.feeRate, 10000 * Parts)
    IN  principal + interest + fee + Round((interest + fee) * s.gstRate, 10000 * Parts)

LEMMA TotalIs ==
    ASSUME NEW principal \in Nat, NEW s, s.threshold \in Nat
    PROVE  RepaymentBreakdown(principal, s).total
               = TotalWith(principal, Least(principal, Round(s.threshold, Parts)), s)
<1> DEFINE free == Round(Least(Parts * principal, s.threshold), Parts)
<1>1. RepaymentBreakdown(principal, s).total = TotalWith(principal, free, s)
  BY DEF RepaymentBreakdown, TotalWith
<1> QED BY <1>1, InterestFree

(* A breakdown is made of whole paise and grows with the principal, *)
LEMMA TotalGrows ==
    ASSUME NEW p \in Nat, NEW q \in Nat, p <= q, NEW s \in Snapshot
    PROVE  /\ RepaymentBreakdown(p, s).total \in Nat
           /\ RepaymentBreakdown(p, s).total <= RepaymentBreakdown(q, s).total
<1> DEFINE k == Round(s.threshold, Parts)
           Bearing(n) == n - Least(n, k)
           Interest(n) == Round(Bearing(n) * s.annualRate * s.days, 3650000 * Parts)
           Fee(n) == Round(n * s.feeRate, 10000 * Parts)
           Gst(n) == Round((Interest(n) + Fee(n)) * s.gstRate, 10000 * Parts)
<1>1. s.threshold \in Nat /\ s.annualRate \in Nat /\ s.days \in Nat /\ s.feeRate \in Nat
      /\ s.gstRate \in Nat
  BY DEF Snapshot
<1>2. Bearing(p) \in Nat /\ Bearing(q) \in Nat /\ Bearing(p) <= Bearing(q)
  <2>1. k \in Nat
    BY <1>1, PartsAre, RoundIs
  <2> HIDE DEF k
  <2> QED BY <2>1 DEF Least
<1> HIDE DEF Bearing
<1>3. Interest(p) \in Nat /\ Interest(q) \in Nat /\ Interest(p) <= Interest(q)
  <2>1. /\ Bearing(p) * s.annualRate \in Nat /\ Bearing(q) * s.annualRate \in Nat
        /\ Bearing(p) * s.annualRate <= Bearing(q) * s.annualRate
    BY <1>1, <1>2, Products, ProductsGrow
  <2>2. /\ Bearing(p) * s.annualRate * s.days \in Nat /\ Bearing(q) * s.annualRate * s.days \in Nat
        /\ Bearing(p) * s.annualRate * s.days <= Bearing(q) * s.annualRate * s.days
    BY <1>1, <2>1, Products, ProductsGrow
  <2> QED BY <2>2, PartsAre, RoundIs, RoundGrows
<1>4. Fee(p) \in Nat /\ Fee(q) \in Nat /\ Fee(p) <= Fee(q)
  <2>1. p * s.feeRate \in Nat /\ q * s.feeRate \in Nat /\ p * s.feeRate <= q * s.feeRate
    BY <1>1, Products, ProductsGrow
  <2> QED BY <2>1, PartsAre, RoundIs, RoundGrows
<1> HIDE DEF Interest, Fee
<1>5. Gst(p) \in Nat /\ Gst(q) \in Nat /\ Gst(p) <= Gst(q)
  <2>1. /\ Interest(p) + Fee(p) \in Nat /\ Interest(q) + Fee(q) \in Nat
        /\ Interest(p) + Fee(p) <= Interest(q) + Fee(q)
    BY <1>3, <1>4
  <2>2. /\ (Interest(p) + Fee(p)) * s.gstRate \in Nat /\ (Interest(q) + Fee(q)) * s.gstRate \in Nat
        /\ (Interest(p) + Fee(p)) * s.gstRate <= (Interest(q) + Fee(q)) * s.gstRate
    BY <1>1, <2>1, Products, ProductsGrow
  <2> QED BY <2>2, PartsAre, RoundIs, RoundGrows
<1> HIDE DEF Gst
<1>6. \A n \in Nat : RepaymentBreakdown(n, s).total = n + Interest(n) + Fee(n) + Gst(n)
  BY <1>1, TotalIs DEF TotalWith, Bearing, Interest, Fee, Gst
<1> QED BY <1>3, <1>4, <1>5, <1>6

(* and is the same from the columns as from what they were written from,   *)
(* if they hold the rates.                                                 *)
LEMMA StoredTyped ==
    ASSUME NEW s \in Snapshot
    PROVE  /\ Stored(s) \in Snapshot /\ Stored(s).recovery = s.recovery
           /\ Stored(s).threshold = Column(s.threshold) /\ Stored(s).days = s.days
           /\ Stored(s).annualRate = Column(s.annualRate)
           /\ Stored(s).feeRate = Column(s.feeRate) /\ Stored(s).gstRate = Column(s.gstRate)
<1>1. /\ Column(s.threshold) \in Nat /\ Column(s.annualRate) \in Nat
      /\ Column(s.feeRate) \in Nat /\ Column(s.gstRate) \in Nat
  BY ColumnIs DEF Snapshot
<1> QED BY <1>1 DEF Stored, Snapshot

LEMMA StoredCostsSame ==
    ASSUME NEW principal \in Nat, NEW s \in Snapshot, ExactRates(s)
    PROVE  RepaymentBreakdown(principal, Stored(s)).total = RepaymentBreakdown(principal, s).total
<1>1. /\ Stored(s).annualRate = s.annualRate /\ Stored(s).days = s.days
      /\ Stored(s).feeRate = s.feeRate /\ Stored(s).gstRate = s.gstRate
  BY StoredTyped DEF ExactRates
<1>2. /\ s.threshold \in Nat /\ Stored(s).threshold \in Nat
      /\ Round(Stored(s).threshold, Parts) = Round(s.threshold, Parts)
  BY StoredTyped, ColumnIs DEF Snapshot
<1>3. \A free : TotalWith(principal, free, Stored(s)) = TotalWith(principal, free, s)
  BY <1>1 DEF TotalWith
<1> QED BY <1>2, <1>3, TotalIs

----------------------------------------------------------------------------
(* The repayment terms.  The application was shown what the frozen columns *)
(* say, if they hold its rates, and owes, once it is disbursed, what they  *)
(* say of the amount approved.                                             *)
OfferKept(a) ==
    /\ a.day \in 1..LastRequestDay
    /\ ExactRates(a.terms) => a.shown = RepaymentBreakdown(a.principal, a.snapshot).total
    /\ a.approved <= a.principal
    /\ a.approved # 0 => a.owed = RepaymentBreakdown(a.approved, a.snapshot).total
    /\ a.snapshot.recovery = RecoveryDate(a.day, payroll)
    /\ a.cycle = MonthOf(DueDate(a.day, payroll))

RepaymentInv ==
    /\ RepaymentTypeOK
    /\ advance = {} => today <= LastRequestDay
    /\ \A a \in advance : OfferKept(a)

LEMMA InitRepaymentInv == RepaymentInit => RepaymentInv
<1> SUFFICES ASSUME RepaymentInit PROVE RepaymentInv
  OBVIOUS
<1>1. LastRequestDay \in Int /\ MaxDelay \in Nat
  <2>1. Len(FirstDay) - 3 \in 1..Len(FirstDay)
    BY Months
  <2> QED BY <2>1, Months, CalendarAssumption DEF LastRequestDay
<1>2. today \in 1..LastRequestDay + MaxDelay /\ today <= LastRequestDay
  BY <1>1 DEF RepaymentInit
<1>3. advance = {} /\ payroll \in Payroll /\ calls = {} /\ Cardinality({}) = 0
  BY FS_EmptySet DEF RepaymentInit
<1>4. RepaymentTypeOK
  BY <1>2, <1>3 DEF RepaymentTypeOK
<1> QED BY <1>2, <1>3, <1>4 DEF RepaymentInv

(* A request freezes a snapshot that costs what the preview showed, if its *)
(* columns hold the rates.                                                 *)
LEMMA SubmitKeeps ==
    ASSUME RepaymentInv, NEW principal \in Principal, NEW t \in Terms, Submit(principal, t)
    PROVE  RepaymentInv'
<1> DEFINE s == SnapshotOf(today, payroll, t)
<1> PICK a : a = [day |-> today, principal |-> principal, terms |-> t, snapshot |-> Stored(s),
                  cycle |-> MonthOf(DueDate(today, payroll)),
                  shown |-> RepaymentBreakdown(principal, s).total, approved |-> 0, owed |-> 0]
  OBVIOUS
<1>1. /\ today \in 1..LastRequestDay /\ today \in 1..LastRequestDay + MaxDelay
      /\ payroll \in Payroll /\ calls = {} /\ advance = {}
  BY DEF RepaymentInv, RepaymentTypeOK, Submit
<1>2. advance' = {a} /\ UNCHANGED <<today, payroll, calls>>
  BY DEF Submit
<1>3. /\ s.recovery = RecoveryDate(today, payroll)
      /\ s \in Snapshot /\ (ExactRates(s) <=> ExactRates(t))
  <2>1. RecoveryDate(today, payroll) \in Nat /\ today \in Nat
    BY <1>1, RecoveryInCalendar, RequestDay
  <2>2. DaysBetween(today, RecoveryDate(today, payroll)) \in Nat \ {0}
    BY <2>1 DEF DaysBetween
  <2>3. /\ t.threshold \in Nat /\ t.annualRate \in Nat /\ t.feeRate \in Nat /\ t.gstRate \in Nat
    BY RatesAssumption
  <2> QED BY <2>1, <2>2, <2>3 DEF SnapshotOf, Snapshot, ExactRates
<1>4. principal \in Nat
  BY CalendarAssumption
<1> HIDE DEF s
<1>5. /\ Stored(s) \in Snapshot /\ Stored(s).recovery = s.recovery
      /\ ExactRates(t) => RepaymentBreakdown(principal, Stored(s)).total
                             = RepaymentBreakdown(principal, s).total
      /\ RepaymentBreakdown(principal, s).total \in Nat
  BY <1>3, <1>4, StoredTyped, StoredCostsSame, TotalGrows
<1>6. MonthOf(DueDate(today, payroll)) \in 1..Len(FirstDay)
  BY <1>1, DueInCalendar
<1>7. a \in Offer
  BY <1>1, <1>5, <1>6 DEF Offer
<1>8. OfferKept(a)'
  <2>1. OfferKept(a)
    BY <1>1, <1>3, <1>4, <1>5 DEF OfferKept
  <2> QED BY <1>2, <2>1 DEF OfferKept
<1>9. Cardinality({a}) = 1 /\ a.day \in 1..today
  <2>1. a.day = today
    OBVIOUS
  <2>2. a.day \in 1..today
    BY <1>1, <2>1, RequestDay
  <2> QED BY <2>2, FS_Singleton
<1>10. RepaymentTypeOK'
  BY <1>1, <1>2, <1>7, <1>9 DEF RepaymentTypeOK
<1> QED BY <1>2, <1>8, <1>10 DEF RepaymentInv

(* A disbursal takes the frozen columns as they are. *)
LEMMA DisburseKeeps ==
    ASSUME RepaymentInv, NEW b \in advance, NEW amount \in Principal, Disburse(b, amount)
    PROVE  RepaymentInv'
<1> PICK a : a = [b EXCEPT !.approved = amount,
                           !.owed = RepaymentBreakdown(amount, b.snapshot).total]
  OBVIOUS
<1>1. /\ b \in Offer /\ OfferKept(b) /\ b.day \in 1..today
      /\ today \in 1..LastRequestDay + MaxDelay /\ payroll \in Payroll /\ calls = {}
  BY DEF RepaymentInv, RepaymentTypeOK
<1>2. advance' = {a} /\ UNCHANGED <<today, payroll, calls>>
  BY DEF Disburse
<1>3. amount \in Nat \ {0} /\ RepaymentBreakdown(amount, b.snapshot).total \in Nat
  BY <1>1, CalendarAssumption, TotalGrows DEF Offer
<1>4. a \in Offer
  BY <1>1, <1>3 DEF Offer
<1>5. /\ a.day = b.day /\ a.principal = b.principal /\ a.terms = b.terms
      /\ a.snapshot = b.snapshot /\ a.cycle = b.cycle /\ a.shown = b.shown
      /\ a.approved = amount /\ amount <= a.principal
      /\ a.owed = RepaymentBreakdown(amount, b.snapshot).total
  BY <1>1 DEF Offer, Disburse
<1>6. OfferKept(a)'
  <2>1. OfferKept(a)
    BY <1>1, <1>5 DEF OfferKept
  <2> QED BY <1>2, <2>1 DEF OfferKept
<1>7. Cardinality({a}) = 1
  BY FS_Singleton
<1>8. RepaymentTypeOK'
  BY <1>1, <1>2, <1>4, <1>5, <1>7 DEF RepaymentTypeOK
<1> QED BY <1>2, <1>6, <1>8 DEF RepaymentInv

LEMMA NextRepaymentInv ==
    ASSUME RepaymentInv, [RepaymentNext]_<<repaymentVars, calls>>
    PROVE  RepaymentInv'
<1>1. CASE NextDay
  <2>1. /\ today \in 1..LastRequestDay + MaxDelay /\ today' = today + 1
        /\ UNCHANGED <<payroll, advance, calls>>
    BY <1>1 DEF RepaymentInv, RepaymentTypeOK, NextDay
  <2>2. LastRequestDay \in Int /\ MaxDelay \in Nat
    <3>1. Len(FirstDay) - 3 \in 1..Len(FirstDay)
      BY Months
    <3> QED BY <3>1, Months, CalendarAssumption DEF LastRequestDay
  <2>3. /\ advance = {} => today' <= LastRequestDay
        /\ today' \in 1..LastRequestDay + MaxDelay
    <3>1. CASE advance = {}
      BY <1>1, <2>1, <2>2, <3>1 DEF NextDay
    <3>2. CASE advance # {}
      <4>1. PICK a \in advance : today < a.day + MaxDelay
        BY <1>1, <3>2 DEF NextDay
      <4>2. a.day \in 1..LastRequestDay
        BY DEF RepaymentInv, OfferKept
      <4> QED BY <2>1, <2>2, <3>2, <4>1, <4>2
    <3> QED BY <3>1, <3>2
  <2>4. \A a \in advance : a.day \in 1..today'
    BY <2>1 DEF RepaymentInv, RepaymentTypeOK
  <2>5. RepaymentTypeOK'
    BY <2>1, <2>3, <2>4 DEF RepaymentInv, RepaymentTypeOK
  <2>6. \A a \in advance' : OfferKept(a)'
    BY <2>1 DEF RepaymentInv, OfferKept
  <2> QED BY <2>1, <2>3, <2>5, <2>6 DEF RepaymentInv
<1>2. CASE UNCHANGED <<repaymentVars, calls>>
  BY <1>2 DEF repaymentVars, RepaymentInv, RepaymentTypeOK, OfferKept
<1> QED BY <1>1, <1>2, SubmitKeeps, DisburseKeeps DEF RepaymentNext

(* What the desk's properties follow from. *)
LEMMA QuoteIs == RepaymentInv => QuoteKept
<1> SUFFICES ASSUME RepaymentInv, NEW a \in advance, ExactRates(a.terms), a.approved # 0
             PROVE  a.owed <= a.shown /\ (a.approved = a.principal => a.owed = a.shown)
  BY DEF QuoteKept
<1>1. OfferKept(a) /\ a.snapshot \in Snapshot /\ a.approved \in Nat /\ a.principal \in Nat
  BY CalendarAssumption DEF RepaymentInv, RepaymentTypeOK, Offer
<1>2. /\ a.shown = RepaymentBreakdown(a.principal, a.snapshot).total
      /\ a.owed = RepaymentBreakdown(a.approved, a.snapshot).total
      /\ a.approved <= a.principal
  BY <1>1 DEF OfferKept
<1> QED BY <1>1, <1>2, TotalGrows

LEMMA CyclesAre == RepaymentInv => CyclesAgree
<1> SUFFICES ASSUME RepaymentInv, NEW a \in advance,
                    DayOf(a.day) <= LengthOf(MonthOf(a.day) + 1)
             PROVE  a.cycle = MonthOf(a.snapshot.recovery)
  BY DEF CyclesAgree
<1>1. OfferKept(a) /\ payroll \in Payroll
  BY DEF RepaymentInv, RepaymentTypeOK
<1>2. DueDate(a.day, payroll) = RecoveryDate(a.day, payroll)
  BY <1>1, DueInCalendar DEF OfferKept
<1> QED BY <1>1, <1>2 DEF OfferKept

LEMMA NotDueBefore == RepaymentInv => NeverDueBefore
<1> SUFFICES ASSUME RepaymentInv, NEW a \in advance, payroll.cutoff <= payroll.date + 1
             PROVE  a.day <= a.snapshot.recovery
  BY DEF NeverDueBefore
<1>1. OfferKept(a) /\ payroll \in Payroll
  BY DEF RepaymentInv, RepaymentTypeOK
<1> QED BY <1>1, RecoveryInCalendar DEF OfferKept

----------------------------------------------------------------------------
(* The office.  The rows of a desk at rest are as they were at first. *)
Rest ==
    /\ desk # "setup" => verified = FALSE /\ frozen = {}
    /\ desk # "terms" => LatestIsActive /\ application = [a \in Applicant |-> {}]
    /\ desk # "repayment" => advance = {}

OfficeInv ==
    /\ desk = "setup" => SetupInv
    /\ desk = "terms" => TermsInv
    /\ desk = "numbers" => NumbersInv
    /\ desk = "repayment" => RepaymentInv
    /\ desk \in {"setup", "terms", "numbers", "repayment"}
    /\ Rest

LEMMA InitOfficeInv == Init => OfficeInv
<1> SUFFICES ASSUME Init PROVE OfficeInv
  OBVIOUS
<1>1. SetupInv /\ TermsInv /\ NumbersInv /\ RepaymentInv
  BY InitSetupInv, InitTermsInv, InitNumbersInv, InitRepaymentInv DEF Init
<1>2. Rest
  BY <1>1 DEF Init, SetupInit, TermsInit, RepaymentInit, Rest, TermsInv
<1> QED BY <1>1, <1>2, DesksAssumption DEF Init, OfficeInv

LEMMA DeskSteps ==
    ASSUME [Next]_vars
    PROVE  /\ desk' = desk
           /\ IF desk = "setup" THEN [SetupNext]_<<setupVars, calls>> ELSE UNCHANGED setupVars
           /\ IF desk = "terms" THEN [TermsNext]_<<termsVars, calls>> ELSE UNCHANGED termsVars
           /\ IF desk = "numbers" THEN [NumbersNext]_<<numberVars, calls>>
                                  ELSE UNCHANGED numberVars
           /\ IF desk = "repayment" THEN [RepaymentNext]_<<repaymentVars, calls>>
                                    ELSE UNCHANGED repaymentVars
BY DEF Next, vars, SetupDesk, TermsDesk, NumbersDesk, RepaymentDesk

LEMMA NextOfficeInv ==
    ASSUME OfficeInv, [Next]_vars
    PROVE  OfficeInv'
<1>1. desk' = desk
  BY DeskSteps
<1>2. Rest'
  <2>1. desk # "setup" => UNCHANGED <<verified, frozen>>
    BY DeskSteps DEF setupVars, bankVars
  <2>2. desk # "terms" => UNCHANGED <<number, active, application>>
    BY DeskSteps DEF termsVars
  <2>3. desk # "repayment" => UNCHANGED advance
    BY DeskSteps DEF repaymentVars
  <2>4. UNCHANGED <<number, active>> => LatestIsActive' = LatestIsActive
    BY DEF LatestIsActive, Latest, Published
  <2> QED BY <1>1, <2>1, <2>2, <2>3, <2>4 DEF OfficeInv, Rest
<1>3. desk = "setup" => SetupInv'
  BY DeskSteps, NextSetupInv DEF OfficeInv
<1>4. desk = "terms" => TermsInv'
  BY DeskSteps, NextTermsInv DEF OfficeInv
<1>5. desk = "numbers" => NumbersInv'
  BY DeskSteps, NextNumbersInv DEF OfficeInv
<1>6. desk = "repayment" => RepaymentInv'
  BY DeskSteps, NextRepaymentInv DEF OfficeInv
<1> QED BY <1>1, <1>2, <1>3, <1>4, <1>5, <1>6 DEF OfficeInv

(* Whichever desk is at work, its rows and handlers keep their invariant,  *)
(* and the rows of the others stay as they were at first.                  *)
THEOREM OfficeInvariance == Spec => []OfficeInv
BY InitOfficeInv, NextOfficeInv, PTL DEF Spec

(* The rows of every desk and its handlers in flight keep their types. *)
THEOREM OfficeTyped == Spec => []TypeOK
<1>1. OfficeInv => TypeOK
  BY DEF OfficeInv, TypeOK, SetupInv, TermsInv, NumbersInv, RepaymentInv
<1> QED BY <1>1, OfficeInvariance, PTL

(* Bank details that count as verified are ones an admin verified, however *)
(* the submissions and reviews of BankAccountsService overlap.             *)
THEOREM VerifiedStayReviewed == Spec => []VerifiedWasReviewed
<1>1. OfficeInv => VerifiedWasReviewed
  BY DEF OfficeInv, Rest, SetupInv, VerifiedWasReviewed
<1> QED BY <1>1, OfficeInvariance, PTL

(* DisbursalsService pays only to details that were verified at some time. *)
THEOREM PaidOnlyToReviewed == Spec => []PaidToReviewed
<1>1. OfficeInv => PaidToReviewed
  BY DEF OfficeInv, Rest, SetupInv, PaidToReviewed
<1> QED BY <1>1, OfficeInvariance, PTL

(* There are terms to lend on, the latest ones, whatever publications and  *)
(* deletions of LoanProductsService interleave.                            *)
THEOREM LatestStaysActive == Spec => []LatestIsActive
<1>1. OfficeInv => LatestIsActive
  BY DEF OfficeInv, Rest, TermsInv
<1> QED BY <1>1, OfficeInvariance, PTL

(* The version an application froze stays, and what was checked against it *)
(* exceeds its cap within its ceiling only, for any rules and overrides    *)
(* and whatever publications and deletions interleave.                     *)
THEOREM OverridesStayCapped == Spec => []OverrideCapped
<1>1. OfficeInv => OverrideCapped
  <2> SUFFICES ASSUME OfficeInv, NEW adv \in Applications
               PROVE  \E rule \in rules[adv.config] : adv.checked = adv.config =>
                          adv.amount <= rule.cap \/ adv.amount <= rule.ceiling
    BY DEF OverrideCapped
  <2>1. desk = "terms"
    BY DEF OfficeInv, Rest, Applications
  <2>2. RowsHold
    BY <2>1 DEF OfficeInv, TermsInv
  <2>3. rules[adv.config] # {}
    BY <2>2 DEF RowsHold, Referenced
  <2> QED BY <2>2, <2>3 DEF RowsHold, Capped
<1> QED BY <1>1, OfficeInvariance, PTL

(* A submission loses a try of LoanApplicationsService.create to another   *)
(* one only, or to the 1 of a sequence that was never called.              *)
THEOREM OnlyRacesCollide == Spec => []CollisionsAreRaces
<1>1. OfficeInv => CollisionsAreRaces
  <2> SUFFICES ASSUME OfficeInv, NEW c \in calls, At(c, "store", "insert"), c.number \in Taken,
                      ~c.raced
               PROVE  c.number = 1
    BY DEF CollisionsAreRaces
  <2>1. desk = "numbers"
    BY DEF OfficeInv, SetupInv, SetupTypeOK, SetupCall, SubmitCall, PayoutCall, TermsInv,
           TermsTypeOK, TermsCall, PublishCall, DeleteCall, ApplyCall, RepaymentInv,
           RepaymentTypeOK, At
  <2>2. NumbersTypeOK /\ LooksHold
    BY <2>1 DEF OfficeInv, NumbersInv
  <2>3. c.number = 1 \/ \A n \in Taken : n < c.number
    BY <2>2 DEF LooksHold, Looked, At
  <2>4. c.number \in Nat
    BY <2>2 DEF NumbersTypeOK, StoreCall
  <2> QED BY <2>3, <2>4
<1> QED BY <1>1, OfficeInvariance, PTL

(* At rates that the columns hold, an advance costs no more than           *)
(* PricingService showed, and exactly that when approved as asked for: for *)
(* any amounts, thresholds, parts of a paisa and delays.                   *)
THEOREM QuoteStays == Spec => []QuoteKept
<1>1. OfficeInv => QuoteKept
  BY QuoteIs DEF OfficeInv, Rest, QuoteKept
<1> QED BY <1>1, OfficeInvariance, PTL

(* calculateDueDate and resolveRecoveryDate put a request in one cycle, in *)
(* any calendar, unless the next month is too short to have its day.       *)
THEOREM CyclesStayAgreed == Spec => []CyclesAgree
<1>1. OfficeInv => CyclesAgree
  BY CyclesAre DEF OfficeInv, Rest, CyclesAgree
<1> QED BY <1>1, OfficeInvariance, PTL

(* No recovery is due before the request, for an employer whose cutoff is  *)
(* at most the day after payday.                                           *)
THEOREM NoneDueBefore == Spec => []NeverDueBefore
<1>1. OfficeInv => NeverDueBefore
  BY NotDueBefore DEF OfficeInv, Rest, NeverDueBefore
<1> QED BY <1>1, OfficeInvariance, PTL
=============================================================================
