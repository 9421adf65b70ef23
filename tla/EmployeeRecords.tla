---------------------------- MODULE EmployeeRecords ----------------------------
(***************************************************************************)
(* The employees an employer registers, one by one or as a list, with the  *)
(* user each signs in with.  EmployeesService: create, bulkCreate, update, *)
(* updateActivation and bulkActivation, for the employees of one employer. *)
(***************************************************************************)
EXTENDS Handlers, FiniteSets, Naturals

CONSTANTS
    Employee, \* ids of employees rows, used or still to be used
    Code,     \* employee codes
    Address,  \* e-mail addresses, normalised
    Others    \* the addresses of users who are not employees

ASSUME OthersAssumption == Others \subseteq Address

VARIABLES
    code,      \* employees.employeeCode, as the set of its one code
    mail,      \* employees.email, likewise
    userMail,  \* users.email of the employee's user, likewise
    employed,  \* the employees with employmentStatus ACTIVE
    activated  \* the employees with appActivated

recordVars == <<code, mail, userMail, employed, activated>>

----------------------------------------------------------------------------
NewCall == [req : Request, op : {"createEmployee"}, code : Code, mail : Address,
            employed : BOOLEAN, activated : BOOLEAN, at : {"write"}]
UpdateCall == [req : Request, op : {"updateEmployee"}, id : Employee, mail : Optional(Address),
               employed : Optional(BOOLEAN), at : {"write"}]
RecordsCall == NewCall \cup UpdateCall

RecordsTypeOK ==
    /\ code \in [Employee -> Optional(Code)]
    /\ mail \in [Employee -> Optional(Address)]
    /\ userMail \in [Employee -> Optional(Address)]
    /\ employed \in SUBSET Employee
    /\ activated \in SUBSET Employee
    /\ \A e \in Employee : code[e] = {} <=> mail[e] = {} /\ userMail[e] = {}
    /\ calls \in SUBSET RecordsCall

RecordsInit ==
    /\ code = [e \in Employee |-> {}]
    /\ mail = [e \in Employee |-> {}]
    /\ userMail = [e \in Employee |-> {}]
    /\ employed = {} /\ activated = {}
    /\ calls = {}

----------------------------------------------------------------------------
Registered == {e \in Employee : code[e] # {}}

(* No other user has the address: the unique key of users.email. *)
FreeForUser(m, e) == m \notin Others /\ \A f \in Employee \ {e} : userMail[f] # {m}

FreeCode(k) == \A e \in Employee : code[e] # {k}

(* create: the address and the code are free; an INACTIVE employee gets no *)
(* access to the app. *)
CreateEmployeeRead(r, k, m, works, access) ==
    /\ m \notin Others /\ \A e \in Employee : userMail[e] # {m}
    /\ FreeCode(k)
    /\ Begin([req |-> r, op |-> "createEmployee", code |-> k, mail |-> m, employed |-> works,
              activated |-> works /\ access, at |-> "write"])
    /\ UNCHANGED recordVars

(* bulkCreate checks each row of its list and goes on with the next one    *)
(* when it fails: every row is a create of an ACTIVE employee without      *)
(* access.                                                                 *)
BulkCreateRow(r, k, m) == CreateEmployeeRead(r, k, m, TRUE, FALSE)

(* The user without the employee. *)
CreateHalf(c, e) ==
    /\ At(c, "createEmployee", "write")
    /\ code[e] = {}
    /\ FreeForUser(c.mail, e)
    /\ userMail' = [userMail EXCEPT ![e] = {c.mail}]
    /\ End(c)
    /\ UNCHANGED <<code, mail, employed, activated>>

(* One transaction inserts the user and the employee, under the keys of    *)
(* users.email, employees.email and the employer's employeeCode.           *)
CreateEmployeeWrite(c, e) ==
    /\ At(c, "createEmployee", "write")
    /\ code[e] = {}
    /\ FreeForUser(c.mail, e) /\ FreeCode(c.code)
    /\ \A f \in Employee : mail[f] # {c.mail}
    /\ code' = [code EXCEPT ![e] = {c.code}]
    /\ mail' = [mail EXCEPT ![e] = {c.mail}]
    /\ userMail' = [userMail EXCEPT ![e] = {c.mail}]
    /\ employed' = IF c.employed THEN employed \cup {e} ELSE employed
    /\ activated' = IF c.activated THEN activated \cup {e} ELSE activated
    /\ End(c)

(* update: a new address, if one is given, is not another user's; *)
UpdateEmployeeRead(r, e, m, works) ==
    /\ e \in Registered
    /\ \A n \in m : n \notin mail[e] => FreeForUser(n, e)
    /\ Begin([req |-> r, op |-> "updateEmployee", id |-> e, mail |-> m, employed |-> works,
              at |-> "write"])
    /\ UNCHANGED recordVars

Employment(c) ==
    /\ employed' = CASE c.employed = {TRUE} -> employed \cup {c.id}
                     [] c.employed = {FALSE} -> employed \ {c.id}
                     [] OTHER -> employed
    /\ activated' = IF c.employed = {FALSE} THEN activated \ {c.id} ELSE activated

(* The employee's address only. *)
UpdateMailOnly(c) ==
    /\ At(c, "updateEmployee", "write")
    /\ \A n \in c.mail : \A f \in Employee \ {c.id} : mail[f] # {n}
    /\ mail' = [mail EXCEPT ![c.id] = IF c.mail = {} THEN @ ELSE c.mail]
    /\ Employment(c)
    /\ End(c)
    /\ UNCHANGED <<code, userMail>>

(* then one transaction writes the employee and, if there is an address,   *)
(* the user, each under its unique key.                                    *)
UpdateEmployeeWrite(c) ==
    /\ At(c, "updateEmployee", "write")
    /\ \A n \in c.mail : FreeForUser(n, c.id) /\ \A f \in Employee \ {c.id} : mail[f] # {n}
    /\ mail' = [mail EXCEPT ![c.id] = IF c.mail = {} THEN @ ELSE c.mail]
    /\ userMail' = [userMail EXCEPT ![c.id] = IF c.mail = {} THEN @ ELSE c.mail]
    /\ Employment(c)
    /\ End(c)
    /\ UNCHANGED code

(* updateActivation and bulkActivation write the flag of one employee or   *)
(* of several, whatever their employment status.                           *)
Activation(chosen, access) ==
    /\ chosen \subseteq Registered
    /\ chosen # {}
    /\ activated' = IF access THEN activated \cup chosen ELSE activated \ chosen
    /\ UNCHANGED <<code, mail, userMail, employed, calls>>

RecordsAbort(c) == End(c) /\ UNCHANGED recordVars

RecordsNext ==
    \/ \E r \in Request, k \in Code, m \in Address :
          \/ BulkCreateRow(r, k, m)
          \/ \E works, access \in BOOLEAN : CreateEmployeeRead(r, k, m, works, access)
    \/ \E r \in Request, e \in Employee, m \in Optional(Address), works \in Optional(BOOLEAN) :
          UpdateEmployeeRead(r, e, m, works)
    \/ \E chosen \in SUBSET Employee, access \in BOOLEAN : Activation(chosen, access)
    \/ \E c \in calls :
          \/ UpdateEmployeeWrite(c) \/ RecordsAbort(c)
          \/ \E e \in Employee : CreateEmployeeWrite(c, e)

RecordsSpec == RecordsInit /\ [][RecordsNext]_<<recordVars, calls>>

----------------------------------------------------------------------------
(* "Login email lives on User, not Employee": the address the profile and  *)
(* every e-mail of the service use is the one the employee signs in with,  *)
(* and two employees never share one, through every order of updates and   *)
(* registrations that take each other's address.                           *)
EmailsAgree ==
    \A e \in Registered :
        /\ mail[e] = userMail[e]
        /\ \A f \in Registered \ {e} : mail[f] # mail[e]
=============================================================================
