----------------------------- MODULE AccessOffice -----------------------------
(***************************************************************************)
(* Who may use the system: the members of an employer, the sessions of a   *)
(* user and the devices their pushes go to, the enquiries that become      *)
(* employers and the employees they register, a desk each.  What they     *)
(* have in common is the users table: each keeps the users its own         *)
(* handlers are about, and the addresses taken by others only refuse       *)
(* (Others).  A column is kept by the desk that decides on it, and what    *)
(* the handlers of another write to it is an action of that desk, at any   *)
(* time (ActivateEmployer).  So whatever a desk does while all of them are *)
(* at work it also does alone: a behaviour of this module is one of a      *)
(* single desk, with the others at rest.                                   *)
(***************************************************************************)
EXTENDS EmployerMembers, AuthSessions, Devices, EmployerOnboarding, EmployeeRecords

CONSTANT Desks \* the desks that may be at work

ASSUME DesksAssumption ==
    Desks \subseteq {"members", "sessions", "devices", "onboarding", "records"}

VARIABLE desk \* the one at work

vars == <<desk, calls, membersVars, sessionsVars, deviceVars, onboardingVars, recordVars>>

----------------------------------------------------------------------------
Init ==
    /\ desk \in Desks
    /\ MembersInit /\ SessionsInit /\ DevicesInit /\ OnboardingInit /\ RecordsInit

(* The work of each desk, which leaves the rows of the others alone. *)
MembersDesk ==
    /\ desk = "members"
    /\ MembersNext
    /\ UNCHANGED <<desk, sessionsVars, deviceVars, onboardingVars, recordVars>>

SessionsDesk ==
    /\ desk = "sessions"
    /\ SessionsNext
    /\ UNCHANGED <<desk, membersVars, deviceVars, onboardingVars, recordVars>>

DevicesDesk ==
    /\ desk = "devices"
    /\ DevicesNext
    /\ UNCHANGED <<desk, membersVars, sessionsVars, onboardingVars, recordVars>>

OnboardingDesk ==
    /\ desk = "onboarding"
    /\ OnboardingNext
    /\ UNCHANGED <<desk, membersVars, sessionsVars, deviceVars, recordVars>>

RecordsDesk ==
    /\ desk = "records"
    /\ RecordsNext
    /\ UNCHANGED <<desk, membersVars, sessionsVars, deviceVars, onboardingVars>>

Next == MembersDesk \/ SessionsDesk \/ DevicesDesk \/ OnboardingDesk \/ RecordsDesk

Spec == Init /\ [][Next]_vars

----------------------------------------------------------------------------
(* The state of every desk keeps its type, and the handlers in flight are  *)
(* those of the desk at work.                                              *)
TypeOK ==
    /\ desk = "members" => MembersTypeOK
    /\ desk = "sessions" => SessionsTypeOK
    /\ desk = "devices" => DevicesTypeOK
    /\ desk = "onboarding" => OnboardingTypeOK
    /\ desk = "records" => RecordsTypeOK
==============================================================================
