--------------------------- MODULE EmployerMembers ---------------------------
(***************************************************************************)
(* The team of an employer's portal: EmployerMembersService, with the      *)
(* permissions and the guards in front of it, and the migration that makes *)
(* the first members.  A person is invited by e-mail, accepts within 72    *)
(* hours, and is a member with a role until suspended or removed.          *)
(***************************************************************************)
EXTENDS Handlers, FiniteSets, Naturals

CONSTANTS
    Employer,   \* employers, each created with a user of its own
    Person,     \* e-mail addresses
    UserOf,     \* employers.userId: the person an employer was created for
    Invite,     \* ids of employer_invites rows, used or still to be used
    InviteTo,   \* the employer, the person and the role of each invite
    NewRole,    \* the roles updateMemberRole is asked for
    MaxResends  \* MAX_RESEND_COUNT

Role == {"OWNER", "ADMIN", "HR", "FINANCE", "VIEWER"}

ASSUME UserOfAssumption ==
    /\ UserOf \in [Employer -> Person]
    /\ \A e, f \in Employer : UserOf[e] = UserOf[f] => e = f
ASSUME InviteToAssumption ==
    InviteTo \in [Invite -> [emp : Employer, who : Person, as : Role]]
ASSUME NewRoleAssumption == NewRole \subseteq Role
ASSUME MaxResendsAssumption == MaxResends \in Nat

VARIABLES
    role,     \* employer_members.role, "NONE" before the row exists
    standing, \* employer_members.status, "NONE" before the row exists
    account,  \* the persons who have a users row
    employer, \* employers.status, "NONE" before the row exists
    invite,   \* employer_invites.status, "NONE" before the row exists
    overdue,  \* the invites whose expiresAt has passed
    resends   \* employer_invites.resendCount

memberVars == <<role, standing, account>>
inviteVars == <<invite, overdue, resends>>
membersVars == <<memberVars, employer, inviteVars>>

----------------------------------------------------------------------------
(* The unique key of a membership. *)
Member == Employer \X Person
(* PENDING stands for SUSPENDED too: what matters is whether it is ACTIVE. *)
EmployerStatus == {"NONE", "PENDING", "ACTIVE"}
Standing == {"NONE", "ACTIVE", "SUSPENDED", "REMOVED"}
InviteStatus == {"NONE", "PENDING", "ACCEPTED", "EXPIRED", "REVOKED"}

InviteCall == [req : Request, op : {"invite"}, inv : Invite,
               at : {"revoke", "insert"}]
AcceptCall == [req : Request, op : {"accept"}, inv : Invite,
               at : {"lookup", "create", "join"}]
OneWriteCall == [req : Request, op : {"expire", "resend", "revokeInvite"},
                 inv : Invite, at : {"write"}]
RoleCall == [req : Request, op : {"updateRole"}, row : Member, new : Role,
             at : {"write"}]
OutCall == [req : Request, op : {"suspend", "remove"}, row : Member, at : {"write"}]
MembersCall == InviteCall \cup AcceptCall \cup OneWriteCall \cup RoleCall \cup OutCall

MembersTypeOK ==
    /\ role \in [Member -> Role \cup {"NONE"}]
    /\ standing \in [Member -> Standing]
    /\ account \in SUBSET Person
    /\ employer \in [Employer -> EmployerStatus]
    /\ invite \in [Invite -> InviteStatus]
    /\ overdue \in SUBSET Invite
    /\ resends \in [Invite -> Nat]
    /\ calls \in SUBSET MembersCall

MembersInit ==
    /\ role = [m \in Member |-> "NONE"]
    /\ standing = [m \in Member |-> "NONE"]
    /\ account = {}
    /\ employer = [e \in Employer |-> "NONE"]
    /\ invite = [i \in Invite |-> "NONE"]
    /\ overdue = {}
    /\ resends = [i \in Invite |-> 0]
    /\ calls = {}

----------------------------------------------------------------------------
Rank == [OWNER |-> 5, ADMIN |-> 4, HR |-> 3, FINANCE |-> 3, VIEWER |-> 1]

(* A role may be given by an equal one. *)
CanManageEqual(actor, target) == Rank[actor] >= Rank[target]

CanManage(actor, target) == Rank[actor] > Rank[target]

(* RolePermissions: who has MEMBER_INVITE and who has MEMBER_MANAGE. *)
MayInvite == {"OWNER", "ADMIN"}
MayManage == {"OWNER"}

(* getAuthUser signs in an EMPLOYER user only through employers.userId. *)
CanSignIn(p) == \E e \in Employer : UserOf[e] = p /\ employer[e] = "ACTIVE"

(* JwtStrategy resolves a signed-in user to the first of its memberships   *)
(* the database returns, which has to be ACTIVE at an ACTIVE employer.     *)
ActsFor(p, e) ==
    /\ \E f \in Employer : UserOf[f] = p /\ employer[f] # "NONE"
    /\ standing[<<e, p>>] = "ACTIVE"
    /\ employer[e] = "ACTIVE"

Authorised(p, e, roles) == ActsFor(p, e) /\ role[<<e, p>>] \in roles

Owners(e) == {p \in Person : role[<<e, p>>] = "OWNER" /\ standing[<<e, p>>] = "ACTIVE"}

(* seed-employer-members: the employer's own user becomes its owner. *)
SeedMember(e) ==
    LET m == <<e, UserOf[e]>>
    IN /\ employer[e] # "NONE"
       /\ standing[m] = "NONE"
       /\ role' = [role EXCEPT ![m] = "OWNER"]
       /\ standing' = [standing EXCEPT ![m] = "ACTIVE"]
       /\ UNCHANGED <<account, employer, inviteVars, calls>>

(* EmployersService.create: an employer comes with a user of its own, whose *)
(* e-mail nobody has yet.                                                  *)
OpenEmployer(e) ==
    /\ employer[e] = "NONE"
    /\ UserOf[e] \notin account
    /\ employer' = [employer EXCEPT ![e] = "PENDING"]
    /\ account' = account \cup {UserOf[e]}
    /\ UNCHANGED <<role, standing, inviteVars, calls>>

(* The admin activates an employer or takes it out of service.  The new    *)
(* password that comes with it is in AuthSessions, ActivateEmployer.       *)
SwitchEmployer(e) ==
    /\ employer[e] # "NONE"
    /\ employer' = [employer EXCEPT ![e] = IF @ = "ACTIVE" THEN "PENDING" ELSE "ACTIVE"]
    /\ UNCHANGED <<memberVars, inviteVars, calls>>

InviteLapses(i) ==
    /\ invite[i] = "PENDING"
    /\ i \notin overdue
    /\ overdue' = overdue \cup {i}
    /\ UNCHANGED <<memberVars, employer, invite, resends, calls>>

----------------------------------------------------------------------------
(* createInvite: nobody invites to a role equal to or above their own, nor *)
(* a person who is a member and not removed; *)
InviteRead(r, i, p) ==
    LET to == InviteTo[i]
    IN /\ invite[i] = "NONE"
       /\ Authorised(p, to.emp, MayInvite)
       /\ CanManage(role[<<to.emp, p>>], to.as)
       /\ standing[<<to.emp, to.who>>] \in {"NONE", "REMOVED"}
       /\ Begin([req |-> r, op |-> "invite", inv |-> i, at |-> "revoke"])
       /\ UNCHANGED membersVars

SameInvitee(i, j) == InviteTo[i].emp = InviteTo[j].emp /\ InviteTo[i].who = InviteTo[j].who

(* The earlier invites are revoked, whatever has become of them. *)
InviteRevokesAll(c) ==
    /\ At(c, "invite", "revoke")
    /\ invite' = [i \in Invite |-> IF SameInvitee(i, c.inv) /\ invite[i] # "NONE"
                                   THEN "REVOKED" ELSE invite[i]]
    /\ GoOn(c, [c EXCEPT !.at = "insert"])
    /\ UNCHANGED <<memberVars, employer, overdue, resends>>

(* what is pending for the person is revoked in one statement, *)
InviteRevoke(c) ==
    /\ At(c, "invite", "revoke")
    /\ invite' = [i \in Invite |-> IF SameInvitee(i, c.inv) /\ invite[i] = "PENDING"
                                   THEN "REVOKED" ELSE invite[i]]
    /\ GoOn(c, [c EXCEPT !.at = "insert"])
    /\ UNCHANGED <<memberVars, employer, overdue, resends>>

(* and the new invite inserted in another. *)
InviteInsert(c) ==
    /\ At(c, "invite", "insert")
    /\ invite[c.inv] = "NONE"
    /\ invite' = [invite EXCEPT ![c.inv] = "PENDING"]
    /\ End(c)
    /\ UNCHANGED <<memberVars, employer, overdue, resends>>

----------------------------------------------------------------------------
(* acceptInvite: the token's invite is pending, in time, of an ACTIVE      *)
(* employer; then the person's account is looked up; *)
AcceptRead(r, i) ==
    /\ invite[i] = "PENDING"
    /\ i \notin overdue
    /\ employer[InviteTo[i].emp] = "ACTIVE"
    /\ Begin([req |-> r, op |-> "accept", inv |-> i, at |-> "lookup"])
    /\ UNCHANGED membersVars

AcceptLookUp(c) ==
    /\ At(c, "accept", "lookup")
    /\ GoOn(c, [c EXCEPT !.at = IF InviteTo[c.inv].who \in account THEN "join" ELSE "create"])
    /\ UNCHANGED membersVars

(* and one transaction creates the account, under its unique e-mail,       *)
(* upserts the membership and marks the invite by its id.                  *)
AcceptWrite(c) ==
    LET to == InviteTo[c.inv]
        m == <<to.emp, to.who>>
    IN /\ \/ At(c, "accept", "create") /\ to.who \notin account
          \/ At(c, "accept", "join")
       /\ account' = account \cup {to.who}
       /\ role' = [role EXCEPT ![m] = to.as]
       /\ standing' = [standing EXCEPT ![m] = "ACTIVE"]
       /\ invite' = [invite EXCEPT ![c.inv] = "ACCEPTED"]
       /\ End(c)
       /\ UNCHANGED <<employer, overdue, resends>>

(* previewInvite and acceptInvite mark an overdue invite they read pending. *)
ExpireRead(r, i) ==
    /\ invite[i] = "PENDING"
    /\ i \in overdue
    /\ Begin([req |-> r, op |-> "expire", inv |-> i, at |-> "write"])
    /\ UNCHANGED membersVars

ExpireWrite(c) ==
    /\ At(c, "expire", "write")
    /\ invite' = [invite EXCEPT ![c.inv] = "EXPIRED"]
    /\ End(c)
    /\ UNCHANGED <<memberVars, employer, overdue, resends>>

(* No limit on the resends. *)
ResendUnlimited(r, i, p) ==
    /\ invite[i] = "PENDING"
    /\ resends[i] <= MaxResends + Cardinality(Request)
    /\ Authorised(p, InviteTo[i].emp, MayInvite)
    /\ Begin([req |-> r, op |-> "resend", inv |-> i, at |-> "write"])
    /\ UNCHANGED membersVars

(* resendInvite: a pending invite gets a new token and a new expiry. *)
ResendRead(r, i, p) ==
    /\ invite[i] = "PENDING"
    /\ resends[i] < MaxResends
    /\ Authorised(p, InviteTo[i].emp, MayInvite)
    /\ Begin([req |-> r, op |-> "resend", inv |-> i, at |-> "write"])
    /\ UNCHANGED membersVars

ResendWrite(c) ==
    /\ At(c, "resend", "write")
    /\ resends' = [resends EXCEPT ![c.inv] = @ + 1]
    /\ overdue' = overdue \ {c.inv}
    /\ End(c)
    /\ UNCHANGED <<memberVars, employer, invite>>

RevokeInviteRead(r, i, p) ==
    /\ invite[i] = "PENDING"
    /\ Authorised(p, InviteTo[i].emp, MayInvite)
    /\ Begin([req |-> r, op |-> "revokeInvite", inv |-> i, at |-> "write"])
    /\ UNCHANGED membersVars

RevokeInviteWrite(c) ==
    /\ At(c, "revokeInvite", "write")
    /\ invite' = [invite EXCEPT ![c.inv] = "REVOKED"]
    /\ End(c)
    /\ UNCHANGED <<memberVars, employer, overdue, resends>>

----------------------------------------------------------------------------
(* requireMember: the row of the actor's employer, not yet removed. *)
Present(m) == standing[m] \notin {"NONE", "REMOVED"}

ByOwner(e, p) == role[<<e, p>>] = "OWNER"

(* updateMemberRole: only an owner touches an owner, nobody gives a role   *)
(* equal to or above their own, and the last active owner stays one.       *)
UpdateRoleRead(r, m, new, p) ==
    /\ Authorised(p, m[1], MayManage)
    /\ Present(m)
    /\ CanManage(role[<<m[1], p>>], new)
    /\ role[m] = "OWNER" /\ new # "OWNER" =>
           ByOwner(m[1], p) /\ Cardinality(Owners(m[1])) > 1
    /\ Begin([req |-> r, op |-> "updateRole", row |-> m, new |-> new, at |-> "write"])
    /\ UNCHANGED membersVars

UpdateRoleWrite(c) ==
    /\ At(c, "updateRole", "write")
    /\ role' = [role EXCEPT ![c.row] = c.new]
    /\ End(c)
    /\ UNCHANGED <<standing, account, employer, inviteVars>>

(* suspendMember: not oneself, and an owner only by an owner. *)
SuspendRead(r, m, p) ==
    /\ Authorised(p, m[1], MayManage)
    /\ Present(m)
    /\ m[2] # p
    /\ role[m] = "OWNER" => ByOwner(m[1], p)
    /\ Begin([req |-> r, op |-> "suspend", row |-> m, at |-> "write"])
    /\ UNCHANGED membersVars

SuspendWrite(c) ==
    /\ At(c, "suspend", "write")
    /\ standing' = [standing EXCEPT ![c.row] = "SUSPENDED"]
    /\ End(c)
    /\ UNCHANGED <<role, account, employer, inviteVars>>

(* removeMember: not oneself, and never the last active owner. *)
RemoveRead(r, m, p) ==
    /\ Authorised(p, m[1], MayManage)
    /\ Present(m)
    /\ m[2] # p
    /\ role[m] = "OWNER" => ByOwner(m[1], p) /\ Cardinality(Owners(m[1])) > 1
    /\ Begin([req |-> r, op |-> "remove", row |-> m, at |-> "write"])
    /\ UNCHANGED membersVars

RemoveWrite(c) ==
    /\ At(c, "remove", "write")
    /\ standing' = [standing EXCEPT ![c.row] = "REMOVED"]
    /\ End(c)
    /\ UNCHANGED <<role, account, employer, inviteVars>>

(* A later check throws, a unique key refuses, or the server goes down. *)
MembersAbort(c) == End(c) /\ UNCHANGED membersVars

----------------------------------------------------------------------------
InviteSteps ==
    \/ \E r \in Request, i \in Invite :
          AcceptRead(r, i) \/ ExpireRead(r, i)
    \/ \E r \in Request, i \in Invite, p \in Person :
          InviteRead(r, i, p) \/ ResendRead(r, i, p) \/ RevokeInviteRead(r, i, p)
    \/ \E c \in calls :
          InviteRevoke(c) \/ InviteInsert(c)
          \/ AcceptLookUp(c) \/ AcceptWrite(c) \/ ExpireWrite(c)
          \/ ResendWrite(c) \/ RevokeInviteWrite(c)

MemberSteps ==
    \/ \E r \in Request, m \in Member, p \in Person :
          \/ \E new \in NewRole : UpdateRoleRead(r, m, new, p)
          \/ SuspendRead(r, m, p)
          \/ RemoveRead(r, m, p)
    \/ \E c \in calls : UpdateRoleWrite(c) \/ SuspendWrite(c) \/ RemoveWrite(c)

MembersNext ==
    \/ \E e \in Employer : SeedMember(e) \/ OpenEmployer(e) \/ SwitchEmployer(e)
    \/ \E i \in Invite : InviteLapses(i)
    \/ InviteSteps
    \/ MemberSteps
    \/ \E c \in calls : MembersAbort(c)

MembersSpec == MembersInit /\ [][MembersNext]_<<membersVars, calls>>

----------------------------------------------------------------------------
(* An employer with members keeps an active owner.  suspendMember counts   *)
(* no owners and two owners may suspend each other in flight: it is the    *)
(* strict ranking of canManageRole, under which no second owner is made,   *)
(* that keeps the first one in.                                            *)
HasOwner ==
    \A e \in Employer :
        (\E p \in Person : standing[<<e, p>>] # "NONE") => Owners(e) # {}

(* An invite that was accepted, revoked or found expired stays what it is  *)
(* once the handlers that read it pending have ended: a later invite,      *)
(* resend or acceptance does not revive it or rewrite its outcome.         *)
SettledInvites ==
    [][\A i \in Invite :
          /\ invite[i] \in {"ACCEPTED", "EXPIRED", "REVOKED"}
          /\ \A c \in calls : c.op \notin {"accept", "expire", "revokeInvite"}
                              \/ c.inv # i
          => invite'[i] = invite[i]]_<<membersVars, calls>>

(* An invite is resent at most MAX_RESEND_COUNT times, and once more for   *)
(* every other request that read the count before it was raised.           *)
ResendsBounded ==
    \A i \in Invite : resends[i] < MaxResends + Cardinality(Request)

(* "Invite accepted. You can now sign in.": the active member of an open   *)
(* employer who came by an invite can sign in.                             *)
InvitedSignIn ==
    \A i \in Invite :
        LET to == InviteTo[i]
        IN /\ invite[i] = "ACCEPTED"
           /\ standing[<<to.emp, to.who>>] = "ACTIVE"
           /\ employer[to.emp] = "ACTIVE"
           => CanSignIn(to.who)
=============================================================================
