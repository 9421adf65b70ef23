------------------------- MODULE AccessOffice_proofs -------------------------
(***************************************************************************)
(* The access office as a whole, for any numbers of rows and requests.     *)
(* Every desk keeps its invariant at its own steps, and its rows stay as   *)
(* they were at first while another desk is at work.  The invariants of    *)
(* the members and of the sessions have modules of their own; those of the *)
(* devices, of the enquiries and of the employees come first here.         *)
(***************************************************************************)
EXTENDS AccessOffice, EmployerMembers_proofs, AuthSessions_proofs

(* A set of one tells its member. *)
LEMMA OptionalValues ==
    ASSUME NEW S
    PROVE  /\ {} \in Optional(S)
           /\ \A x \in S : {x} \in Optional(S)
           /\ \A o \in Optional(S) : o # {} => \E x \in S : o = {x}
BY DEF Optional

----------------------------------------------------------------------------
(* Devices.  A registered token is its user's who is at the device, so     *)
(* that a push is meant for them when it reads it; the pushes that were    *)
(* shown to another and those that are about to be are handlers that read  *)
(* the token before that one came.                                         *)
Astray(d) == {c \in calls : c.at = "send" /\ d \in c.tokens /\ {c.user} # atDevice[d]}

StraysCounted ==
    \A d \in Device :
        /\ owner[d] # {} => owner[d] = atDevice[d]
        /\ strays[d] + Cardinality(Astray(d)) <= Cardinality(Request)

DevicesInv == DevicesTypeOK /\ OneEach(calls) /\ StraysCounted

LEMMA InitDevicesInv == DevicesInit => DevicesInv
<1> SUFFICES ASSUME DevicesInit PROVE DevicesInv
  OBVIOUS
<1>1. DevicesTypeOK
  BY OptionalValues DEF DevicesInit, DevicesTypeOK
<1>2. OneEach(calls) /\ \A d \in Device : Astray(d) = {} /\ strays[d] = 0 /\ owner[d] = {}
  BY DEF DevicesInit, OneEach, Astray
<1>3. Cardinality({}) = 0 /\ 0 + 0 <= Cardinality(Request)
  BY FS_EmptySet, RequestsNumber
<1>4. StraysCounted
  BY <1>2, <1>3 DEF StraysCounted
<1> QED BY <1>1, <1>2, <1>4 DEF DevicesInv

LEMMA DevicesTyped ==
    ASSUME DevicesTypeOK, [DevicesNext]_<<deviceVars, calls>>
    PROVE  DevicesTypeOK'
<1> USE DEF DevicesTypeOK, deviceVars
<1>1. ASSUME NEW d \in Device, NEW people \in Optional(AppUser),
             owner' = [owner EXCEPT ![d] = people], Arrives(d, people)
      PROVE  DevicesTypeOK'
  <2>1. /\ atDevice' = [atDevice EXCEPT ![d] = people] /\ strays' = [strays EXCEPT ![d] = 0]
        /\ lapsed' = lapsed /\ calls' = calls
    BY <1>1 DEF Arrives
  <2>2. owner' \in [Device -> Optional(AppUser)] /\ atDevice' \in [Device -> Optional(AppUser)]
    BY <1>1, <2>1
  <2>3. strays' \in [Device -> Nat]
    BY <2>1
  <2> QED BY <2>1, <2>2, <2>3
<1>2. ASSUME NEW d \in Device, TokenLapses(d)
      PROVE  DevicesTypeOK'
  BY <1>2 DEF TokenLapses
<1>3. ASSUME NEW r \in Request, NEW u \in AppUser, PushRead(r, u)
      PROVE  DevicesTypeOK'
  <2>1. [req |-> r, op |-> "push", user |-> u, tokens |-> {d \in Device : owner[d] = {u}},
         at |-> "send"] \in PushCall
    BY DEF PushCall
  <2> QED BY <1>3, <2>1 DEF PushRead, Begin
<1>4. ASSUME NEW c \in calls, PushSend(c)
      PROVE  DevicesTypeOK'
  <2>1. [c EXCEPT !.tokens = @ \cap lapsed, !.at = "clean"] \in PushCall
    BY DEF PushCall
  <2>2. strays' \in [Device -> Nat]
    BY <1>4 DEF PushSend
  <2> QED BY <1>4, <2>1, <2>2 DEF PushSend, End, GoOn
<1>5. ASSUME NEW c \in calls, PushClean(c) \/ PushAbort(c)
      PROVE  DevicesTypeOK'
  <2>1. {} \in Optional(AppUser)
    BY OptionalValues
  <2>2. owner' \in [Device -> Optional(AppUser)]
    BY <1>5, <2>1 DEF PushClean, PushAbort
  <2> QED BY <1>5, <2>2 DEF PushClean, PushAbort, End
<1>6. CASE UNCHANGED <<deviceVars, calls>>
  BY <1>6
<1> QED BY <1>1, <1>2, <1>3, <1>4, <1>5, <1>6, OptionalValues
        DEF DevicesNext, RegisterToken, RemoveToken

(* A push that has been sent is the same one, on its way to clean up. *)
LEMMA Pushing ==
    ASSUME DevicesTypeOK, NEW c \in calls, PushSend(c)
    PROVE  \A d \in calls' : \/ d \in calls \ {c}
                             \/ d.req = c.req /\ d.at = "clean"
<1>1. c \in PushCall
  BY DEF DevicesTypeOK
<1> DEFINE next == [c EXCEPT !.tokens = @ \cap lapsed, !.at = "clean"]
<1>2. next.req = c.req /\ next.at = "clean"
  BY <1>1 DEF PushCall
<1> QED BY <1>2 DEF PushSend, End, GoOn

LEMMA DevicesApart ==
    ASSUME DevicesTypeOK, OneEach(calls), [DevicesNext]_<<deviceVars, calls>>
    PROVE  OneEach(calls')
<1>1. ASSUME NEW r \in Request, NEW u \in AppUser, PushRead(r, u)
      PROVE  OneEach(calls')
  BY <1>1, BeginOneEach DEF PushRead
<1>2. ASSUME NEW c \in calls, PushSend(c)
      PROVE  OneEach(calls')
  <2>1. CASE c.tokens \cap lapsed = {}
    BY <1>2, <2>1, FewerOneEach DEF PushSend, End
  <2>2. CASE c.tokens \cap lapsed # {}
    <3>1. [c EXCEPT !.tokens = @ \cap lapsed, !.at = "clean"].req = c.req
      BY DEF DevicesTypeOK, PushCall
    <3> QED BY <1>2, <2>2, <3>1, GoOnOneEach DEF PushSend
  <2> QED BY <2>1, <2>2
<1>3. ASSUME NEW c \in calls, PushClean(c) \/ PushAbort(c)
      PROVE  OneEach(calls')
  BY <1>3, FewerOneEach DEF PushClean, PushAbort, End
<1>4. ASSUME \/ \E d \in Device : RemoveToken(d) \/ TokenLapses(d)
             \/ \E d \in Device, u \in AppUser : RegisterToken(d, u)
             \/ UNCHANGED calls
      PROVE  OneEach(calls')
  BY <1>4 DEF RemoveToken, TokenLapses, RegisterToken, Arrives
<1> QED BY <1>1, <1>2, <1>3, <1>4 DEF DevicesNext, deviceVars

LEMMA StraysKeep ==
    ASSUME DevicesInv, [DevicesNext]_<<deviceVars, calls>>
    PROVE  StraysCounted'
<1> USE DEF DevicesInv, deviceVars
<1> SUFFICES ASSUME NEW d \in Device
             PROVE  /\ owner'[d] # {} => owner'[d] = atDevice'[d]
                    /\ strays'[d] + Cardinality(Astray(d)') <= Cardinality(Request)
  BY DEF StraysCounted
<1>1. IsFiniteSet(Astray(d)) /\ Cardinality(Astray(d)) \in Nat
      /\ Cardinality(Astray(d)) <= Cardinality(Request)
  <2>1. Astray(d) \subseteq calls
    BY DEF Astray
  <2> QED BY <2>1, HandlersCount
<1>2. Cardinality(Astray(d)') \in Nat /\ Cardinality(Astray(d)') <= Cardinality(Request)
  <2>1. Astray(d)' \subseteq calls' /\ OneEach(calls')
    BY DevicesApart DEF Astray
  <2> QED BY <2>1, HandlersCount
<1>3. /\ owner[d] # {} => owner[d] = atDevice[d]
      /\ strays[d] \in Nat /\ strays[d] + Cardinality(Astray(d)) <= Cardinality(Request)
  BY DEF StraysCounted, DevicesTypeOK
<1>4. ASSUME strays'[d] = strays[d], Astray(d)' \subseteq Astray(d)
      PROVE  strays'[d] + Cardinality(Astray(d)') <= Cardinality(Request)
  <2>1. Cardinality(Astray(d)') <= Cardinality(Astray(d))
    BY <1>1, <1>4, FS_Subset
  <2> QED BY <1>1, <1>2, <1>3, <1>4, <2>1, RequestsNumber
<1>5. ASSUME NEW e \in Device, NEW people \in Optional(AppUser),
             owner' = [owner EXCEPT ![e] = people], Arrives(e, people)
      PROVE  /\ owner'[d] # {} => owner'[d] = atDevice'[d]
             /\ strays'[d] + Cardinality(Astray(d)') <= Cardinality(Request)
  <2>1. CASE d = e
    <3>1. strays'[d] = 0 /\ owner'[d] = people /\ atDevice'[d] = people
      BY <1>5, <2>1 DEF Arrives, DevicesTypeOK
    <3> QED BY <1>2, <3>1
  <2>2. CASE d # e
    <3>1. strays'[d] = strays[d] /\ owner'[d] = owner[d] /\ atDevice'[d] = atDevice[d]
          /\ calls' = calls
      BY <1>5, <2>2 DEF Arrives, DevicesTypeOK
    <3>2. Astray(d)' = Astray(d)
      BY <3>1 DEF Astray
    <3> QED BY <1>3, <3>1, <3>2
  <2> QED BY <2>1, <2>2
<1>6. ASSUME NEW r \in Request, NEW u \in AppUser, PushRead(r, u)
      PROVE  Astray(d)' \subseteq Astray(d)
  <2>1. \A c \in calls' : \/ c \in calls
                          \/ c.user = u /\ c.tokens = {e \in Device : owner[e] = {u}}
    BY <1>6 DEF PushRead, Begin
  <2>2. atDevice' = atDevice
    BY <1>6 DEF PushRead
  <2> QED BY <1>3, <2>1, <2>2 DEF Astray
<1>7. ASSUME NEW c \in calls, PushSend(c)
      PROVE  /\ owner'[d] # {} => owner'[d] = atDevice'[d]
             /\ strays'[d] + Cardinality(Astray(d)') <= Cardinality(Request)
  <2>1. /\ owner' = owner /\ atDevice' = atDevice
        /\ Astray(d)' \subseteq Astray(d) \ {c}
    BY <1>7, Pushing DEF PushSend, Astray
  <2>2. CASE d \in c.tokens \ lapsed /\ atDevice[d] # {c.user}
    <3>1. strays'[d] = strays[d] + 1 /\ c \in Astray(d)
      BY <1>7, <2>2 DEF PushSend, At, Astray
    <3>2. IsFiniteSet(Astray(d) \ {c})
          /\ Cardinality(Astray(d) \ {c}) = Cardinality(Astray(d)) - 1
      BY <1>1, <3>1, OneLess
    <3>3. Cardinality(Astray(d)') <= Cardinality(Astray(d) \ {c})
      BY <2>1, <3>2, FS_Subset
    <3> QED BY <1>1, <1>2, <1>3, <2>1, <3>1, <3>2, <3>3, RequestsNumber
  <2>3. CASE ~(d \in c.tokens \ lapsed /\ atDevice[d] # {c.user})
    <3>1. strays'[d] = strays[d]
      BY <1>7, <2>3 DEF PushSend
    <3> QED BY <1>3, <1>4, <2>1, <3>1
  <2> QED BY <2>2, <2>3
<1>8. ASSUME NEW c \in calls, PushClean(c) \/ PushAbort(c)
      PROVE  /\ owner'[d] # {} => owner'[d] = atDevice'[d]
             /\ strays'[d] + Cardinality(Astray(d)') <= Cardinality(Request)
  <2>1. /\ strays' = strays /\ atDevice' = atDevice /\ calls' \subseteq calls
        /\ owner'[d] # {} => owner'[d] = owner[d]
    BY <1>8 DEF PushClean, PushAbort, End
  <2>2. Astray(d)' \subseteq Astray(d)
    BY <2>1 DEF Astray
  <2> QED BY <1>3, <1>4, <2>1, <2>2
<1>9. ASSUME NEW e \in Device, TokenLapses(e)
      PROVE  UNCHANGED <<owner, atDevice, strays, calls>>
  BY <1>9 DEF TokenLapses
<1>10. ASSUME UNCHANGED <<owner, atDevice, strays, calls>>
       PROVE  /\ owner'[d] # {} => owner'[d] = atDevice'[d]
              /\ strays'[d] + Cardinality(Astray(d)') <= Cardinality(Request)
  <2>1. Astray(d)' = Astray(d)
    BY <1>10 DEF Astray
  <2> QED BY <1>3, <1>10, <2>1
<1>11. ASSUME NEW r \in Request, NEW u \in AppUser, PushRead(r, u)
       PROVE  /\ owner'[d] # {} => owner'[d] = atDevice'[d]
              /\ strays'[d] + Cardinality(Astray(d)') <= Cardinality(Request)
  BY <1>3, <1>4, <1>6, <1>11 DEF PushRead
<1> QED BY <1>5, <1>7, <1>8, <1>9, <1>10, <1>11, OptionalValues
        DEF DevicesNext, RegisterToken, RemoveToken

LEMMA NextDevicesInv == DevicesInv /\ [DevicesNext]_<<deviceVars, calls>> => DevicesInv'
BY DevicesTyped, DevicesApart, StraysKeep DEF DevicesInv

LEMMA StraysFew == DevicesInv => FewStrays
<1> SUFFICES ASSUME DevicesInv, NEW d \in Device
             PROVE  strays[d] <= Cardinality(Request)
  BY DEF FewStrays
<1>1. Astray(d) \subseteq calls /\ OneEach(calls)
  BY DEF Astray, DevicesInv
<1>2. Cardinality(Astray(d)) \in Nat
  BY <1>1, HandlersCount
<1> QED BY <1>2, RequestsNumber DEF DevicesInv, DevicesTypeOK, StraysCounted

----------------------------------------------------------------------------
(* Enquiries.  A company comes with an address and an enquiry it was       *)
(* created from with a link, so that none was created while the enquiry    *)
(* was read without one: later creates are those that had read it.         *)
Made(q) == {x \in Company : madeFor[x] = {q}}

Creating(q) == {c \in calls : c.op = "createEmployer" /\ c.enq = {q}}

CompaniesCounted ==
    /\ \A x \in Company : contact[x] = {} => madeFor[x] = {}
    /\ \A q \in Enquiry :
          /\ linked[q] = {} => Made(q) = {}
          /\ IsFiniteSet(Made(q))
          /\ Cardinality(Made(q)) + Cardinality(Creating(q)) <= Cardinality(Request)

OnboardingInv == OnboardingTypeOK /\ OneEach(calls) /\ CompaniesCounted

LEMMA OnboardingCallsByOp ==
    ASSUME OnboardingTypeOK, NEW c \in calls
    PROVE  /\ c.req \in Request
           /\ c.op = "linkEmployer" => c.enq \in Enquiry /\ c.to \in Company
           /\ c.op = "createEmployer" => c.enq \in Optional(Enquiry) /\ c.mail \in Email
BY DEF OnboardingTypeOK, OnboardingCall, LinkCall, CreateCall

LEMMA InitOnboardingInv == OnboardingInit => OnboardingInv
<1> SUFFICES ASSUME OnboardingInit PROVE OnboardingInv
  OBVIOUS
<1>1. OnboardingTypeOK
  BY OptionalValues DEF OnboardingInit, OnboardingTypeOK, EnquiryStatus
<1>2. OneEach(calls) /\ \A q \in Enquiry : Made(q) = {} /\ Creating(q) = {}
  BY DEF OnboardingInit, OneEach, Made, Creating
<1>3. IsFiniteSet({}) /\ Cardinality({}) = 0 /\ 0 + 0 <= Cardinality(Request)
  BY FS_EmptySet, RequestsNumber
<1>4. \A x \in Company : madeFor[x] = {}
  BY DEF OnboardingInit
<1>5. CompaniesCounted
  BY <1>2, <1>3, <1>4 DEF CompaniesCounted
<1> QED BY <1>1, <1>2, <1>5 DEF OnboardingInv

LEMMA OnboardingTyped ==
    ASSUME OnboardingTypeOK, [OnboardingNext]_<<onboardingVars, calls>>
    PROVE  OnboardingTypeOK'
<1> USE DEF OnboardingTypeOK, onboardingVars
<1>1. ASSUME NEW q \in Enquiry,
             SendEnquiry(q) \/ \E s \in EnquiryStatus \ {"NONE"} : UpdateEnquiry(q, s)
      PROVE  OnboardingTypeOK'
  BY <1>1 DEF SendEnquiry, UpdateEnquiry, EnquiryStatus
<1>2. ASSUME NEW x \in Company, NEW m \in Email, UpdateProfile(x, m)
      PROVE  OnboardingTypeOK'
  <2>1. {m} \in Optional(Email)
    BY OptionalValues
  <2> QED BY <1>2, <2>1 DEF UpdateProfile
<1>3. ASSUME NEW r \in Request, NEW m \in Email,
             CreateRead(r, m) \/ \E q \in Enquiry : CreateFromEnquiry(r, q, m)
      PROVE  OnboardingTypeOK'
  <2>1. \A o \in Optional(Enquiry) :
            [req |-> r, op |-> "createEmployer", enq |-> o, mail |-> m, at |-> "write"]
                \in OnboardingCall
    BY DEF OnboardingCall, CreateCall
  <2>2. {} \in Optional(Enquiry) /\ \A q \in Enquiry : {q} \in Optional(Enquiry)
    BY OptionalValues
  <2>3. CASE CreateRead(r, m)
    BY <2>1, <2>2, <2>3 DEF CreateRead, Begin
  <2>4. ASSUME NEW q \in Enquiry, CreateFromEnquiry(r, q, m)
        PROVE  OnboardingTypeOK'
    <3>1. [req |-> r, op |-> "createEmployer", enq |-> {q}, mail |-> m, at |-> "write"]
              \in OnboardingCall
      BY <2>1, <2>2
    <3> QED BY <2>4, <3>1 DEF CreateFromEnquiry, Begin
  <2> QED BY <1>3, <2>3, <2>4
<1>4. ASSUME NEW r \in Request, NEW q \in Enquiry, LinkRead(r, q)
      PROVE  OnboardingTypeOK'
  <2>1. PICK x \in KnownAs(SentFrom[q]) :
            /\ Begin([req |-> r, op |-> "linkEmployer", enq |-> q, to |-> x, at |-> "write"])
            /\ UNCHANGED onboardingVars
    BY <1>4 DEF LinkRead
  <2>2. [req |-> r, op |-> "linkEmployer", enq |-> q, to |-> x, at |-> "write"]
            \in OnboardingCall
    BY DEF OnboardingCall, LinkCall, KnownAs
  <2> QED BY <2>1, <2>2 DEF Begin
<1>5. ASSUME NEW c \in calls, LinkWrite(c)
      PROVE  OnboardingTypeOK'
  <2>1. c.enq \in Enquiry /\ {c.to} \in Optional(Company)
    BY <1>5, OnboardingCallsByOp, OptionalValues DEF LinkWrite, At
  <2> QED BY <1>5, <2>1 DEF LinkWrite, End, EnquiryStatus
<1>6. ASSUME NEW c \in calls, NEW x \in Company, CreateWrite(c, x)
      PROVE  OnboardingTypeOK'
  <2>1. c.enq \in Optional(Enquiry) /\ {c.mail} \in Optional(Email) /\ {x} \in Optional(Company)
    BY <1>6, OnboardingCallsByOp, OptionalValues DEF CreateWrite, At
  <2> QED BY <1>6, <2>1 DEF CreateWrite, End, EnquiryStatus
<1>7. ASSUME NEW c \in calls, OnboardingAbort(c)
      PROVE  OnboardingTypeOK'
  BY <1>7 DEF OnboardingAbort, End
<1>8. CASE UNCHANGED <<onboardingVars, calls>>
  BY <1>8
<1> QED BY <1>1, <1>2, <1>3, <1>4, <1>5, <1>6, <1>7, <1>8 DEF OnboardingNext

LEMMA OnboardingApart ==
    ASSUME OneEach(calls), [OnboardingNext]_<<onboardingVars, calls>>
    PROVE  OneEach(calls')
<1>1. ASSUME NEW r \in Request,
             \/ \E m \in Email : CreateRead(r, m) \/ \E q \in Enquiry : CreateFromEnquiry(r, q, m)
             \/ \E q \in Enquiry : LinkRead(r, q)
      PROVE  OneEach(calls')
  BY <1>1, BeginOneEach DEF CreateRead, CreateFromEnquiry, LinkRead
<1>2. ASSUME NEW c \in calls,
             LinkWrite(c) \/ OnboardingAbort(c) \/ \E x \in Company : CreateWrite(c, x)
      PROVE  OneEach(calls')
  <2>1. calls' \subseteq calls
    BY <1>2 DEF LinkWrite, OnboardingAbort, CreateWrite, End
  <2> QED BY <2>1, FewerOneEach
<1>3. ASSUME \/ \E q \in Enquiry :
                   SendEnquiry(q) \/ \E s \in EnquiryStatus \ {"NONE"} : UpdateEnquiry(q, s)
             \/ \E x \in Company, m \in Email : UpdateProfile(x, m)
             \/ UNCHANGED calls
      PROVE  OneEach(calls')
  BY <1>3 DEF SendEnquiry, UpdateEnquiry, UpdateProfile
<1> QED BY <1>1, <1>2, <1>3 DEF OnboardingNext

(* Steps that make no company and start none from an enquiry. *)
LEMMA CompaniesStay ==
    ASSUME OnboardingTypeOK, OneEach(calls), CompaniesCounted, madeFor' = madeFor,
           \A x \in Company : contact'[x] = {} => contact[x] = {},
           \A q \in Enquiry : linked'[q] = {} => linked[q] = {},
           \A d \in calls' : d.op = "createEmployer" => d \in calls \/ d.enq = {}
    PROVE  CompaniesCounted'
<1>1. ASSUME NEW q \in Enquiry
      PROVE  Cardinality(Made(q)) + Cardinality(Creating(q)') <= Cardinality(Request)
  <2>1. Creating(q)' \subseteq Creating(q) /\ Creating(q) \subseteq calls
    BY DEF Creating
  <2>2. IsFiniteSet(Creating(q)) /\ Cardinality(Creating(q)) \in Nat
    BY <2>1, HandlersCount
  <2>3. Cardinality(Creating(q)') \in Nat
        /\ Cardinality(Creating(q)') <= Cardinality(Creating(q))
    BY <2>1, <2>2, FS_Subset, FS_CardinalityType
  <2>4. Cardinality(Made(q)) \in Nat
        /\ Cardinality(Made(q)) + Cardinality(Creating(q)) <= Cardinality(Request)
    BY FS_CardinalityType DEF CompaniesCounted
  <2> QED BY <2>2, <2>3, <2>4, RequestsNumber
<1>2. \A q \in Enquiry : Made(q)' = Made(q)
  BY DEF Made
<1> QED BY <1>1, <1>2 DEF CompaniesCounted

LEMMA CompaniesKeep ==
    ASSUME OnboardingInv, [OnboardingNext]_<<onboardingVars, calls>>
    PROVE  CompaniesCounted'
<1> USE DEF OnboardingInv
<1>1. ASSUME NEW r \in Request, NEW q \in Enquiry, NEW m \in Email, CreateFromEnquiry(r, q, m)
      PROVE  CompaniesCounted'
  <2> DEFINE new == [req |-> r, op |-> "createEmployer", enq |-> {q}, mail |-> m, at |-> "write"]
  <2>1. linked[q] = {} /\ calls' = calls \cup {new}
        /\ linked' = linked /\ contact' = contact /\ madeFor' = madeFor
    BY <1>1 DEF CreateFromEnquiry, Begin, onboardingVars
  <2>2. \A p \in Enquiry : Made(p)' = Made(p) /\ (p # q => Creating(p)' = Creating(p))
    BY <2>1 DEF Made, Creating
  <2>3. Creating(q)' \subseteq calls' /\ OneEach(calls')
    BY OnboardingApart DEF Creating
  <2>4. Cardinality(Creating(q)') \in Nat /\ Cardinality(Creating(q)') <= Cardinality(Request)
    BY <2>3, HandlersCount
  <2>5. Made(q) = {} /\ Cardinality({}) = 0
    BY <2>1, FS_EmptySet DEF CompaniesCounted
  <2>6. Cardinality(Made(q)) + Cardinality(Creating(q)') <= Cardinality(Request)
    BY <2>4, <2>5
  <2> QED BY <2>1, <2>2, <2>6 DEF CompaniesCounted
<1>2. ASSUME NEW c \in calls, NEW x \in Company, CreateWrite(c, x)
      PROVE  CompaniesCounted'
  <2>1. /\ c.op = "createEmployer" /\ contact[x] = {} /\ calls' = calls \ {c}
        /\ contact' = [contact EXCEPT ![x] = {c.mail}]
        /\ madeFor' = [madeFor EXCEPT ![x] = c.enq]
        /\ linked' = [q \in Enquiry |-> IF q \in c.enq THEN {x} ELSE linked[q]]
    BY <1>2 DEF CreateWrite, At, End
  <2>2. madeFor[x] = {}
    BY <2>1 DEF CompaniesCounted
  <2>3. \A y \in Company : contact'[y] = {} => y # x /\ contact[y] = {}
    BY <2>1 DEF OnboardingTypeOK
  <2>4. \A y \in Company : contact'[y] = {} => madeFor'[y] = {}
    BY <2>1, <2>3 DEF OnboardingTypeOK, CompaniesCounted
  <2>5. ASSUME NEW q \in Enquiry
        PROVE  /\ linked'[q] = {} => Made(q)' = {}
               /\ IsFiniteSet(Made(q)')
               /\ Cardinality(Made(q)') + Cardinality(Creating(q)') <= Cardinality(Request)
    <3>1. Creating(q) \subseteq calls /\ Creating(q)' = Creating(q) \ {c}
      BY <2>1 DEF Creating
    <3>2. IsFiniteSet(Creating(q)) /\ Cardinality(Creating(q)) \in Nat
      BY <3>1, HandlersCount
    <3>3. /\ linked[q] = {} => Made(q) = {}
          /\ IsFiniteSet(Made(q)) /\ Cardinality(Made(q)) \in Nat
          /\ Cardinality(Made(q)) + Cardinality(Creating(q)) <= Cardinality(Request)
      BY FS_CardinalityType DEF CompaniesCounted
    <3>4. CASE c.enq = {q}
      <4>1. c \in Creating(q) /\ linked'[q] = {x}
        BY <2>1, <3>4 DEF Creating
      <4>2. Made(q)' = Made(q) \cup {x} /\ x \notin Made(q)
        BY <2>1, <2>2, <3>4 DEF Made, OnboardingTypeOK
      <4>3. IsFiniteSet(Made(q)') /\ Cardinality(Made(q)') = Cardinality(Made(q)) + 1
        BY <3>3, <4>2, OneMore
      <4>4. Cardinality(Creating(q)') = Cardinality(Creating(q)) - 1
        BY <3>1, <3>2, <4>1, OneLess
      <4> QED BY <3>2, <3>3, <4>1, <4>3, <4>4, RequestsNumber
    <3>5. CASE c.enq # {q}
      <4>1. Creating(q)' = Creating(q)
        BY <2>1, <3>5 DEF Creating
      <4>2. Made(q)' = Made(q)
        BY <2>1, <2>2, <3>5 DEF Made, OnboardingTypeOK
      <4>3. linked'[q] = {} => linked[q] = {}
        BY <2>1
      <4> QED BY <3>3, <4>1, <4>2, <4>3
    <3> QED BY <3>4, <3>5
  <2> QED BY <2>4, <2>5 DEF CompaniesCounted
<1>3. ASSUME NEW c \in calls, LinkWrite(c)
      PROVE  CompaniesCounted'
  <2>1. /\ c.enq \in Enquiry /\ linked' = [linked EXCEPT ![c.enq] = {c.to}]
        /\ calls' \subseteq calls /\ contact' = contact /\ madeFor' = madeFor
    BY <1>3, OnboardingCallsByOp DEF LinkWrite, At, End
  <2>2. \A q \in Enquiry : linked'[q] = {} => linked[q] = {}
    BY <2>1 DEF OnboardingTypeOK
  <2> QED BY <2>1, <2>2, CompaniesStay
<1>4. ASSUME NEW x \in Company, NEW m \in Email, UpdateProfile(x, m)
      PROVE  CompaniesCounted'
  <2>1. \A y \in Company : contact'[y] = {} => contact[y] = {}
    BY <1>4 DEF UpdateProfile, OnboardingTypeOK
  <2> QED BY <1>4, <2>1, CompaniesStay DEF UpdateProfile
<1>5. ASSUME NEW q \in Enquiry,
             SendEnquiry(q) \/ \E s \in EnquiryStatus \ {"NONE"} : UpdateEnquiry(q, s)
      PROVE  CompaniesCounted'
  BY <1>5, CompaniesStay DEF SendEnquiry, UpdateEnquiry
<1>6. ASSUME NEW r \in Request, NEW m \in Email, CreateRead(r, m)
      PROVE  CompaniesCounted'
  BY <1>6, CompaniesStay DEF CreateRead, Begin, onboardingVars
<1>7. ASSUME NEW r \in Request, NEW q \in Enquiry, LinkRead(r, q)
      PROVE  CompaniesCounted'
  <2>1. \A d \in calls' : d \in calls \/ d.op = "linkEmployer"
    BY <1>7 DEF LinkRead, Begin
  <2> QED BY <1>7, <2>1, CompaniesStay DEF LinkRead, onboardingVars
<1>8. ASSUME (\E c \in calls : OnboardingAbort(c)) \/ UNCHANGED <<onboardingVars, calls>>
      PROVE  CompaniesCounted'
  BY <1>8, CompaniesStay DEF OnboardingAbort, End, onboardingVars
<1> QED BY <1>1, <1>2, <1>3, <1>4, <1>5, <1>6, <1>7, <1>8 DEF OnboardingNext

LEMMA NextOnboardingInv ==
    OnboardingInv /\ [OnboardingNext]_<<onboardingVars, calls>> => OnboardingInv'
BY OnboardingTyped, OnboardingApart, CompaniesKeep DEF OnboardingInv

LEMMA CompaniesFew == OnboardingInv => FewCompanies
<1> SUFFICES ASSUME OnboardingInv, NEW q \in Enquiry
             PROVE  Cardinality(Made(q)) <= Cardinality(Request)
  BY DEF FewCompanies, Made
<1>1. Creating(q) \subseteq calls /\ OneEach(calls)
  BY DEF Creating, OnboardingInv
<1>2. Cardinality(Creating(q)) \in Nat
  BY <1>1, HandlersCount
<1>3. Cardinality(Made(q)) \in Nat
      /\ Cardinality(Made(q)) + Cardinality(Creating(q)) <= Cardinality(Request)
  BY FS_CardinalityType DEF OnboardingInv, CompaniesCounted
<1> QED BY <1>2, <1>3, RequestsNumber

----------------------------------------------------------------------------
(* Employees.  Both addresses are written together, and each write is      *)
(* under the unique keys of the tables.                                    *)
UpdatesSound == \A c \in calls : c.op = "updateEmployee" => c.id \in Registered

RecordsInv == RecordsTypeOK /\ UpdatesSound /\ EmailsAgree

LEMMA InitRecordsInv == RecordsInit => RecordsInv
<1> SUFFICES ASSUME RecordsInit PROVE RecordsInv
  OBVIOUS
<1>1. RecordsTypeOK
  BY OptionalValues DEF RecordsInit, RecordsTypeOK
<1> QED BY <1>1 DEF RecordsInit, RecordsInv, UpdatesSound, EmailsAgree, Registered

LEMMA NextRecordsInv ==
    ASSUME RecordsInv, [RecordsNext]_<<recordVars, calls>>
    PROVE  RecordsInv'
<1> USE DEF RecordsInv, recordVars
<1>1. ASSUME NEW r \in Request, NEW k \in Code, NEW m \in Address,
             NEW works \in BOOLEAN, NEW access \in BOOLEAN,
             CreateEmployeeRead(r, k, m, works, access)
      PROVE  RecordsInv'
  <2> DEFINE new == [req |-> r, op |-> "createEmployee", code |-> k, mail |-> m,
                     employed |-> works, activated |-> works /\ access, at |-> "write"]
  <2>1. new \in RecordsCall
    BY DEF RecordsCall, NewCall
  <2>2. UNCHANGED recordVars /\ calls' = calls \cup {new}
    BY <1>1 DEF CreateEmployeeRead, Begin
  <2> QED BY <2>1, <2>2 DEF RecordsTypeOK, UpdatesSound, EmailsAgree, Registered
<1>2. ASSUME NEW r \in Request, NEW e \in Employee, NEW m \in Optional(Address),
             NEW works \in Optional(BOOLEAN), UpdateEmployeeRead(r, e, m, works)
      PROVE  RecordsInv'
  <2> DEFINE new == [req |-> r, op |-> "updateEmployee", id |-> e, mail |-> m,
                     employed |-> works, at |-> "write"]
  <2>1. new \in RecordsCall
    BY DEF RecordsCall, UpdateCall
  <2>2. UNCHANGED recordVars /\ calls' = calls \cup {new} /\ e \in Registered
    BY <1>2 DEF UpdateEmployeeRead, Begin
  <2> QED BY <2>1, <2>2 DEF RecordsTypeOK, UpdatesSound, EmailsAgree, Registered
<1>3. ASSUME NEW some \in SUBSET Employee, NEW access \in BOOLEAN, Activation(some, access)
      PROVE  RecordsInv'
  <2>1. UNCHANGED <<code, mail, userMail, employed, calls>> /\ activated' \in SUBSET Employee
    BY <1>3 DEF Activation, RecordsTypeOK
  <2> QED BY <2>1 DEF RecordsTypeOK, UpdatesSound, EmailsAgree, Registered
<1>4. ASSUME NEW c \in calls, UpdateEmployeeWrite(c)
      PROVE  RecordsInv'
  <2>1. c.id \in Registered /\ c.id \in Employee /\ c.mail \in Optional(Address)
    <3>1. c.op = "updateEmployee"
      BY <1>4 DEF UpdateEmployeeWrite, At
    <3>2. c \in UpdateCall
      BY <3>1 DEF RecordsTypeOK, RecordsCall, NewCall, UpdateCall
    <3> QED BY <3>1, <3>2 DEF UpdateCall, UpdatesSound
  <2>2. /\ mail' = [mail EXCEPT ![c.id] = IF c.mail = {} THEN @ ELSE c.mail]
        /\ userMail' = [userMail EXCEPT ![c.id] = IF c.mail = {} THEN @ ELSE c.mail]
        /\ code' = code /\ calls' \subseteq calls /\ Employment(c)
    BY <1>4 DEF UpdateEmployeeWrite, End
  <2>3. \A n \in c.mail : \A f \in Employee \ {c.id} : mail[f] # {n}
    BY <1>4 DEF UpdateEmployeeWrite
  <2>4. employed' \in SUBSET Employee /\ activated' \in SUBSET Employee
    BY <2>1, <2>2 DEF Employment, RecordsTypeOK
  <2>5. code[c.id] # {}
    BY <2>1 DEF Registered
  <2>6. RecordsTypeOK'
    <3>1. mail' \in [Employee -> Optional(Address)] /\ userMail' \in [Employee -> Optional(Address)]
      BY <2>1, <2>2 DEF RecordsTypeOK
    <3>2. \A e \in Employee : code[e] = {} <=> mail'[e] = {} /\ userMail'[e] = {}
      BY <2>1, <2>2, <2>5 DEF RecordsTypeOK
    <3> QED BY <2>2, <2>4, <3>1, <3>2 DEF RecordsTypeOK
  <2>7. EmailsAgree'
    <3>1. Registered' = Registered
      BY <2>2 DEF Registered
    <3>2. \A e \in Registered : mail'[e] = userMail'[e]
      BY <2>1, <2>2 DEF EmailsAgree, Registered, RecordsTypeOK
    <3>3. CASE c.mail = {}
      BY <2>2, <3>1, <3>2, <3>3 DEF EmailsAgree, Registered, RecordsTypeOK
    <3>4. CASE c.mail # {}
      <4>1. PICK n \in Address : c.mail = {n}
        BY <2>1, <3>4, OptionalValues
      <4>2. mail'[c.id] = {n} /\ \A f \in Employee \ {c.id} : mail'[f] = mail[f] /\ mail[f] # {n}
        BY <2>1, <2>2, <2>3, <4>1 DEF RecordsTypeOK
      <4> QED BY <3>1, <3>2, <4>2 DEF EmailsAgree, Registered
    <3> QED BY <3>3, <3>4
  <2>8. UpdatesSound'
    BY <2>2 DEF UpdatesSound, Registered
  <2> QED BY <2>6, <2>7, <2>8
<1>5. ASSUME NEW c \in calls, NEW e \in Employee, CreateEmployeeWrite(c, e)
      PROVE  RecordsInv'
  <2>1. c.code \in Code /\ c.mail \in Address
    <3>1. c \in NewCall
      BY <1>5 DEF CreateEmployeeWrite, At, RecordsTypeOK, RecordsCall, NewCall, UpdateCall
    <3> QED BY <3>1 DEF NewCall
  <2>2. /\ code' = [code EXCEPT ![e] = {c.code}] /\ mail' = [mail EXCEPT ![e] = {c.mail}]
        /\ userMail' = [userMail EXCEPT ![e] = {c.mail}] /\ calls' \subseteq calls
        /\ \A f \in Employee : mail[f] # {c.mail}
        /\ employed' \subseteq employed \cup {e} /\ activated' \subseteq activated \cup {e}
    BY <1>5 DEF CreateEmployeeWrite, End
  <2>3. {c.code} \in Optional(Code) /\ {c.mail} \in Optional(Address)
    BY <2>1, OptionalValues
  <2>4. RecordsTypeOK'
    <3>1. /\ code' \in [Employee -> Optional(Code)] /\ mail' \in [Employee -> Optional(Address)]
          /\ userMail' \in [Employee -> Optional(Address)]
      BY <2>2, <2>3 DEF RecordsTypeOK
    <3>2. \A f \in Employee : code'[f] = {} <=> mail'[f] = {} /\ userMail'[f] = {}
      BY <2>2 DEF RecordsTypeOK
    <3> QED BY <2>2, <3>1, <3>2 DEF RecordsTypeOK
  <2>5. Registered' = Registered \cup {e}
    BY <2>2 DEF Registered, RecordsTypeOK
  <2>6. mail'[e] = {c.mail} /\ userMail'[e] = {c.mail}
        /\ \A f \in Employee \ {e} : mail'[f] = mail[f] /\ userMail'[f] = userMail[f]
    BY <2>2 DEF RecordsTypeOK
  <2>7. EmailsAgree'
    <3>1. Registered \subseteq Employee
      BY DEF Registered
    <3>2. \A f \in Registered \ {e} : mail[f] = userMail[f] /\ mail[f] # {c.mail}
      BY <2>2, <3>1 DEF EmailsAgree
    <3>3. \A f, g \in Registered \ {e} : f # g => mail'[f] # mail'[g]
      BY <2>6, <3>1 DEF EmailsAgree
    <3> QED BY <2>5, <2>6, <3>1, <3>2, <3>3 DEF EmailsAgree
  <2>8. UpdatesSound'
    BY <2>2, <2>5 DEF UpdatesSound
  <2> QED BY <2>4, <2>7, <2>8
<1>6. ASSUME (\E c \in calls : RecordsAbort(c)) \/ UNCHANGED <<recordVars, calls>>
      PROVE  RecordsInv'
  <2>1. UNCHANGED recordVars /\ calls' \subseteq calls
    BY <1>6 DEF RecordsAbort, End
  <2> QED BY <2>1 DEF RecordsTypeOK, UpdatesSound, EmailsAgree, Registered
<1> QED BY <1>1, <1>2, <1>3, <1>4, <1>5, <1>6 DEF RecordsNext, BulkCreateRow

----------------------------------------------------------------------------
(* The office.  Each desk keeps its invariant while it is at work, and     *)
(* what is asked of its rows holds for the first ones, which stay while it *)
(* is not.                                                                 *)
Rest ==
    /\ desk # "members" => /\ \A m \in Member : standing[m] = "NONE"
                           /\ \A i \in Invite : resends[i] = 0
    /\ desk # "sessions" => /\ \A s \in Session : session[s] = "NONE"
                            /\ \A k \in Link : uses[k] = 0
    /\ desk # "devices" => \A d \in Device : strays[d] = 0
    /\ desk # "onboarding" => \A x \in Company : madeFor[x] = {}
    /\ desk # "records" => \A e \in Employee : code[e] = {}

OfficeInv ==
    /\ desk = "members" => MembersInv
    /\ desk = "sessions" => SessionsInv
    /\ desk = "devices" => DevicesInv
    /\ desk = "onboarding" => OnboardingInv
    /\ desk = "records" => RecordsInv
    /\ Rest

LEMMA InitOfficeInv == Init => OfficeInv
<1> SUFFICES ASSUME Init PROVE OfficeInv
  OBVIOUS
<1>1. Rest
  BY DEF Init, Rest, MembersInit, SessionsInit, DevicesInit, OnboardingInit, RecordsInit
<1> QED BY <1>1, InitMembersInv, InitSessionsInv, InitDevicesInv, InitOnboardingInv,
           InitRecordsInv DEF Init, OfficeInv

(* A step of the office is one of the desk at work, and none of the others. *)
LEMMA DeskSteps ==
    ASSUME [Next]_vars
    PROVE  /\ desk' = desk
           /\ IF desk = "members" THEN [MembersNext]_<<membersVars, calls>>
                                  ELSE UNCHANGED membersVars
           /\ IF desk = "sessions" THEN [SessionsNext]_<<sessionsVars, calls>>
                                   ELSE UNCHANGED sessionsVars
           /\ IF desk = "devices" THEN [DevicesNext]_<<deviceVars, calls>>
                                  ELSE UNCHANGED deviceVars
           /\ IF desk = "onboarding" THEN [OnboardingNext]_<<onboardingVars, calls>>
                                     ELSE UNCHANGED onboardingVars
           /\ IF desk = "records" THEN [RecordsNext]_<<recordVars, calls>>
                                  ELSE UNCHANGED recordVars
BY DEF Next, vars, MembersDesk, SessionsDesk, DevicesDesk, OnboardingDesk, RecordsDesk

LEMMA NextOfficeInv ==
    ASSUME OfficeInv, [Next]_vars
    PROVE  OfficeInv'
<1>1. desk' = desk
  BY DeskSteps
<1>2. Rest'
  <2>1. desk # "members" => UNCHANGED <<standing, resends>>
    BY DeskSteps DEF membersVars, memberVars, inviteVars
  <2>2. desk # "sessions" => UNCHANGED <<session, uses>>
    BY DeskSteps DEF sessionsVars, sessionVars, linkVars
  <2>3. desk # "devices" => UNCHANGED strays
    BY DeskSteps DEF deviceVars
  <2>4. desk # "onboarding" => UNCHANGED madeFor
    BY DeskSteps DEF onboardingVars
  <2>5. desk # "records" => UNCHANGED code
    BY DeskSteps DEF recordVars
  <2> QED BY <1>1, <2>1, <2>2, <2>3, <2>4, <2>5 DEF OfficeInv, Rest
<1>3. desk = "members" => MembersInv'
  BY DeskSteps, NextMembersInv DEF OfficeInv
<1>4. desk = "sessions" => SessionsInv'
  BY DeskSteps, NextSessionsInv DEF OfficeInv
<1>5. desk = "devices" => DevicesInv'
  BY DeskSteps, NextDevicesInv DEF OfficeInv
<1>6. desk = "onboarding" => OnboardingInv'
  BY DeskSteps, NextOnboardingInv DEF OfficeInv
<1>7. desk = "records" => RecordsInv'
  BY DeskSteps, NextRecordsInv DEF OfficeInv
<1> QED BY <1>1, <1>2, <1>3, <1>4, <1>5, <1>6, <1>7 DEF OfficeInv

(* Whichever desk is at work, its rows and handlers keep their invariant,  *)
(* and the rows of the others stay as they were at first.                  *)
THEOREM OfficeInvariance == Spec => []OfficeInv
BY InitOfficeInv, NextOfficeInv, PTL DEF Spec

(* Nothing at rest is more than nothing. *)
LEMMA NoneIsFew == Cardinality({}) = 0 /\ 0 <= Cardinality(Request) /\ 0 < Cardinality(Request)
BY FS_EmptySet, RequestsNumber

(* The tables of every desk and its handlers in flight keep their types.   *)
THEOREM OfficeTyped == Spec => []TypeOK
<1>1. OfficeInv => TypeOK
  BY DEF OfficeInv, TypeOK, MembersInv, IInv, SessionsInv, DevicesInv, OnboardingInv, RecordsInv
<1> QED BY <1>1, OfficeInvariance, PTL

(* An employer with members keeps an active owner, whatever handlers of    *)
(* the access office race: invitations, changes of role, suspensions and   *)
(* removals of EmployerMembersService among them.                          *)
THEOREM OwnerStays == Spec => []HasOwner
<1>1. OfficeInv => HasOwner
  <2> SUFFICES ASSUME OfficeInv PROVE HasOwner
    OBVIOUS
  <2>1. CASE desk = "members"
    BY <2>1, FirstOwns DEF OfficeInv, MembersInv
  <2>2. CASE desk # "members"
    BY <2>2 DEF OfficeInv, Rest, HasOwner, Member
  <2> QED BY <2>1, <2>2
<1> QED BY <1>1, OfficeInvariance, PTL

(* An invite is resent MAX_RESEND_COUNT times, and once more for every     *)
(* other request of EmployerMembersService.resendInvite that read the      *)
(* count before it was raised: never more often.                           *)
THEOREM ResendsStayFew == Spec => []ResendsBounded
<1>1. OfficeInv => ResendsBounded
  <2> SUFFICES ASSUME OfficeInv PROVE ResendsBounded
    OBVIOUS
  <2>1. CASE desk = "members"
    BY <2>1, ResendsFew DEF OfficeInv
  <2>2. CASE desk # "members"
    BY <2>2, RequestsNumber, MaxResendsAssumption DEF OfficeInv, Rest, ResendsBounded
  <2> QED BY <2>1, <2>2
<1> QED BY <1>1, OfficeInvariance, PTL

(* A user has no more open sessions than there are requests that could not *)
(* see each other's: the logins of AuthService deactivate the earlier ones. *)
THEOREM SessionsStayFew == Spec => []FewSessions
<1>1. OfficeInv => FewSessions
  <2> SUFFICES ASSUME OfficeInv PROVE FewSessions
    OBVIOUS
  <2>1. CASE desk = "sessions"
    BY <2>1, FewOpen DEF OfficeInv
  <2>2. CASE desk # "sessions"
    <3>1. \A u \in User : OpenOf(u) = {}
      BY <2>2 DEF OfficeInv, Rest, OpenOf
    <3> QED BY <3>1, NoneIsFew DEF FewSessions
  <2> QED BY <2>1, <2>2
<1> QED BY <1>1, OfficeInvariance, PTL

(* Sessions of a password the user has replaced are fewer than requests:   *)
(* the one that replaced it closed them all, and each other one may have   *)
(* opened one that it had compared the old password for.                   *)
THEOREM OldPasswordGoes == Spec => []OldPasswordFades
<1>1. OfficeInv => OldPasswordFades
  <2> SUFFICES ASSUME OfficeInv PROVE OldPasswordFades
    OBVIOUS
  <2>1. CASE desk = "sessions"
    BY <2>1, OldFew DEF OfficeInv
  <2>2. CASE desk # "sessions"
    <3>1. \A u \in User : OpenOf(u) \cap stale = {}
      BY <2>2 DEF OfficeInv, Rest, OpenOf
    <3> QED BY <3>1, NoneIsFew DEF OldPasswordFades
  <2> QED BY <2>1, <2>2
<1> QED BY <1>1, OfficeInvariance, PTL

(* A reset link sets a password once for each request that had read it     *)
(* unused: AuthService.resetPassword marks it without looking again.       *)
THEOREM ResetsStayFew == Spec => []ResetOnce
<1>1. OfficeInv => ResetOnce
  <2> SUFFICES ASSUME OfficeInv PROVE ResetOnce
    OBVIOUS
  <2>1. CASE desk = "sessions"
    BY <2>1, ResetFew DEF OfficeInv
  <2>2. CASE desk # "sessions"
    BY <2>2, NoneIsFew DEF OfficeInv, Rest, ResetOnce
  <2> QED BY <2>1, <2>2
<1> QED BY <1>1, OfficeInvariance, PTL

(* A device shows at most one push for each request to those it is not     *)
(* for: PushNotificationService sends to the tokens it read, and reads     *)
(* those of the user who is there.                                         *)
THEOREM StraysStayFew == Spec => []FewStrays
<1>1. OfficeInv => FewStrays
  <2> SUFFICES ASSUME OfficeInv PROVE FewStrays
    OBVIOUS
  <2>1. CASE desk = "devices"
    BY <2>1, StraysFew DEF OfficeInv
  <2>2. CASE desk # "devices"
    BY <2>2, NoneIsFew DEF OfficeInv, Rest, FewStrays
  <2> QED BY <2>1, <2>2
<1> QED BY <1>1, OfficeInvariance, PTL

(* An enquiry makes at most one employer for each request of               *)
(* EmployersService.create that had read it without one.                   *)
THEOREM CompaniesStayFew == Spec => []FewCompanies
<1>1. OfficeInv => FewCompanies
  <2> SUFFICES ASSUME OfficeInv PROVE FewCompanies
    OBVIOUS
  <2>1. CASE desk = "onboarding"
    BY <2>1, CompaniesFew DEF OfficeInv
  <2>2. CASE desk # "onboarding"
    <3>1. \A q \in Enquiry : {x \in Company : madeFor[x] = {q}} = {}
      BY <2>2 DEF OfficeInv, Rest
    <3> QED BY <3>1, NoneIsFew DEF FewCompanies
  <2> QED BY <2>1, <2>2
<1> QED BY <1>1, OfficeInvariance, PTL

(* The address of an employee is the one they sign in with, and nobody     *)
(* else's: EmployeesService writes both tables in one transaction, under   *)
(* the unique keys of each.                                                *)
THEOREM EmailsStayAgreed == Spec => []EmailsAgree
<1>1. OfficeInv => EmailsAgree
  BY DEF OfficeInv, Rest, RecordsInv, EmailsAgree, Registered
<1> QED BY <1>1, OfficeInvariance, PTL

(* An invite with an outcome keeps it, once the handlers that read it      *)
(* pending have ended.                                                     *)
THEOREM SettledStay == Spec => SettledInvites
<1>1. ASSUME OfficeInv, [Next]_vars
      PROVE  [\A i \in Invite :
                 /\ invite[i] \in {"ACCEPTED", "EXPIRED", "REVOKED"}
                 /\ \A c \in calls : c.op \notin {"accept", "expire", "revokeInvite"}
                                     \/ c.inv # i
                 => invite'[i] = invite[i]]_<<membersVars, calls>>
  <2>1. CASE desk = "members"
    BY <1>1, <2>1, DeskSteps, SettledStays DEF OfficeInv, MembersInv, IInv, Outcomes
  <2>2. CASE desk # "members"
    BY <1>1, <2>2, DeskSteps DEF membersVars, inviteVars
  <2> QED BY <2>1, <2>2
<1> QED BY <1>1, OfficeInvariance, PTL DEF Spec, SettledInvites

(* The sessions of the office keep the contract with their holders, token  *)
(* by token.                                                               *)
THEOREM OfficeKeepsContract == Spec => KeepsSessionContract
<1>1. Init => Contract!Init
  BY ContractBegins DEF Init, SessionsInit
<1>2. ASSUME OfficeInv, OfficeInv', [Next]_vars
      PROVE  [Contract!Next]_(Contract!vars)
  <2>1. CASE desk = "sessions"
    BY <1>2, <2>1, DeskSteps, SessionsKeepContract DEF OfficeInv
  <2>2. CASE desk # "sessions"
    BY <1>2, <2>2, DeskSteps DEF sessionsVars, sessionVars, Contract!vars, SessionState
  <2> QED BY <2>1, <2>2
<1> QED BY <1>1, <1>2, OfficeInvariance, PTL DEF Spec, KeepsSessionContract, Contract!Spec
=============================================================================
