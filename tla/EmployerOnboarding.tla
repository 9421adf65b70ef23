-------------------------- MODULE EmployerOnboarding --------------------------
(***************************************************************************)
(* How a company becomes an employer: it sends an enquiry, and an admin    *)
(* creates the employer from it, with a login user of its own.             *)
(* EmployersService.create and updateProfile, EmployerEnquiriesService.    *)
(***************************************************************************)
EXTENDS Handlers, FiniteSets, Naturals

CONSTANTS
    Email,    \* e-mail addresses, normalised
    Enquiry,  \* ids of employer_enquiries rows, used or still to be used
    SentFrom, \* the address each enquiry gives
    Company   \* ids of employers rows, used or still to be used

ASSUME SentFromAssumption == SentFrom \in [Enquiry -> Email]

VARIABLES
    enquiry, \* employer_enquiries.status, "NONE" before the row exists
    linked,  \* employer_enquiries.employerId, as the set of its one company
    contact, \* employers.email, as the set of its one address
    login,   \* users.email of the employer's user, likewise
    madeFor  \* history: the enquiry a company was created from, likewise

onboardingVars == <<enquiry, linked, contact, login, madeFor>>

----------------------------------------------------------------------------
EnquiryStatus == {"NONE", "NEW", "CONTACTED", "ONBOARDED", "REJECTED"}

LinkCall == [req : Request, op : {"linkEmployer"}, enq : Enquiry, to : Company,
             at : {"write"}]
CreateCall == [req : Request, op : {"createEmployer"}, enq : Optional(Enquiry),
               mail : Email, at : {"write"}]
OnboardingCall == LinkCall \cup CreateCall

OnboardingTypeOK ==
    /\ enquiry \in [Enquiry -> EnquiryStatus]
    /\ linked \in [Enquiry -> Optional(Company)]
    /\ contact \in [Company -> Optional(Email)]
    /\ login \in [Company -> Optional(Email)]
    /\ madeFor \in [Company -> Optional(Enquiry)]
    /\ calls \in SUBSET OnboardingCall

OnboardingInit ==
    /\ enquiry = [q \in Enquiry |-> "NONE"]
    /\ linked = [q \in Enquiry |-> {}]
    /\ contact = [x \in Company |-> {}]
    /\ login = [x \in Company |-> {}]
    /\ madeFor = [x \in Company |-> {}]
    /\ calls = {}

----------------------------------------------------------------------------
SendEnquiry(q) ==
    /\ enquiry[q] = "NONE"
    /\ enquiry' = [enquiry EXCEPT ![q] = "NEW"]
    /\ UNCHANGED <<linked, contact, login, madeFor, calls>>

(* updateStatus writes the status it is given, whatever the row holds. *)
UpdateEnquiry(q, s) ==
    /\ enquiry[q] # "NONE"
    /\ enquiry' = [enquiry EXCEPT ![q] = s]
    /\ UNCHANGED <<linked, contact, login, madeFor, calls>>

(* updateProfile changes employers.email, a unique key, and not the user's. *)
UpdateProfile(x, m) ==
    /\ contact[x] # {}
    /\ \A y \in Company \ {x} : contact[y] # {m}
    /\ contact' = [contact EXCEPT ![x] = {m}]
    /\ UNCHANGED <<enquiry, linked, login, madeFor, calls>>

NewLogin(m) == \A x \in Company : login[x] # {m}

(* create, without an enquiry: nobody has the address as a login yet. *)
CreateRead(r, m) ==
    /\ NewLogin(m)
    /\ Begin([req |-> r, op |-> "createEmployer", enq |-> {}, mail |-> m, at |-> "write"])
    /\ UNCHANGED onboardingVars

KnownAs(m) == {x \in Company : contact[x] = {m}}

(* The enquiry's employer is not looked up. *)
CreateFromLinked(r, q, m) ==
    /\ enquiry[q] # "NONE"
    /\ KnownAs(SentFrom[q]) = {}
    /\ NewLogin(m)
    /\ Begin([req |-> r, op |-> "createEmployer", enq |-> {q}, mail |-> m, at |-> "write"])
    /\ UNCHANGED onboardingVars

(* create, from an enquiry that has no employer yet and whose address no   *)
(* employer has; *)
CreateFromEnquiry(r, q, m) ==
    /\ enquiry[q] # "NONE"
    /\ linked[q] = {}
    /\ KnownAs(SentFrom[q]) = {}
    /\ NewLogin(m)
    /\ Begin([req |-> r, op |-> "createEmployer", enq |-> {q}, mail |-> m, at |-> "write"])
    /\ UNCHANGED onboardingVars

(* Its transaction inserts the user, under the unique e-mail, the employer, *)
(* under its own, and links the enquiry by its id.                          *)
CreateWrite(c, x) ==
    /\ At(c, "createEmployer", "write")
    /\ contact[x] = {}
    /\ NewLogin(c.mail)
    /\ KnownAs(c.mail) = {}
    /\ contact' = [contact EXCEPT ![x] = {c.mail}]
    /\ login' = [login EXCEPT ![x] = {c.mail}]
    /\ madeFor' = [madeFor EXCEPT ![x] = c.enq]
    /\ linked' = [q \in Enquiry |-> IF q \in c.enq THEN {x} ELSE linked[q]]
    /\ enquiry' = [q \in Enquiry |-> IF q \in c.enq THEN "ONBOARDED" ELSE enquiry[q]]
    /\ End(c)

(* create, from an enquiry whose address an employer has already: no       *)
(* employer is created, *)
LinkRead(r, q) ==
    \E x \in KnownAs(SentFrom[q]) :
        /\ enquiry[q] # "NONE"
        /\ linked[q] = {}
        /\ Begin([req |-> r, op |-> "linkEmployer", enq |-> q, to |-> x, at |-> "write"])
        /\ UNCHANGED onboardingVars

(* the enquiry is linked to that one, which may have one enquiry only. *)
LinkWrite(c) ==
    /\ At(c, "linkEmployer", "write")
    /\ \A q \in Enquiry \ {c.enq} : linked[q] # {c.to}
    /\ linked' = [linked EXCEPT ![c.enq] = {c.to}]
    /\ enquiry' = [enquiry EXCEPT ![c.enq] = "ONBOARDED"]
    /\ End(c)
    /\ UNCHANGED <<contact, login, madeFor>>

OnboardingAbort(c) == End(c) /\ UNCHANGED onboardingVars

OnboardingNext ==
    \/ \E q \in Enquiry :
          \/ SendEnquiry(q)
          \/ \E s \in EnquiryStatus \ {"NONE"} : UpdateEnquiry(q, s)
    \/ \E x \in Company, m \in Email : UpdateProfile(x, m)
    \/ \E r \in Request :
          \/ \E m \in Email : CreateRead(r, m)
          \/ \E q \in Enquiry : LinkRead(r, q) \/ \E m \in Email : CreateFromEnquiry(r, q, m)
    \/ \E c \in calls :
          \/ LinkWrite(c) \/ OnboardingAbort(c)
          \/ \E x \in Company : CreateWrite(c, x)

OnboardingSpec == OnboardingInit /\ [][OnboardingNext]_<<onboardingVars, calls>>

----------------------------------------------------------------------------
(* One enquiry makes one employer, and one more for every other create     *)
(* that read it unlinked before the first was committed.                   *)
FewCompanies ==
    \A q \in Enquiry :
        Cardinality({x \in Company : madeFor[x] = {q}}) <= Cardinality(Request)
=============================================================================
