----------------------- MODULE EmployerMembers_proofs -----------------------
(***************************************************************************)
(* An employer with members keeps an active owner, for any employers,      *)
(* persons, invites and requests.  The owner is the person the employer    *)
(* was created for: the strict ranking of roles makes no second one, so    *)
(* that no handler may touch the first.                                    *)
(***************************************************************************)
EXTENDS EmployerMembers, Handlers_proofs

(* An owner is the employer's own user, who is there before anybody else.  *)
OwnerIsFirst ==
    /\ \A m \in Member : role[m] = "OWNER" => m[2] = UserOf[m[1]]
    /\ \A e \in Employer :
          \/ role[<<e, UserOf[e]>>] = "OWNER" /\ standing[<<e, UserOf[e]>>] = "ACTIVE"
          \/ \A p \in Person : standing[<<e, p>>] = "NONE"

(* Invites, used or about to be, are for others and for lower roles, and   *)
(* there is an owner by the time of the first.                             *)
SoundInvite(i) ==
    LET to == InviteTo[i]
    IN /\ to.as # "OWNER"
       /\ to.who # UserOf[to.emp]
       /\ standing[<<to.emp, UserOf[to.emp]>>] # "NONE"

InviteOps == {"invite", "accept", "expire", "resend", "revokeInvite"}

InvitesSound ==
    /\ \A i \in Invite : invite[i] # "NONE" => SoundInvite(i)
    /\ \A c \in calls : c.op \in InviteOps => SoundInvite(c.inv)

(* Handlers that change a member are about to change somebody else than    *)
(* the owner, and make no owner.                                           *)
MemberCallsSound ==
    \A c \in calls : c.op \in {"updateRole", "suspend", "remove"} =>
        /\ c.row[2] # UserOf[c.row[1]]
        /\ standing[c.row] # "NONE"
        /\ c.op = "updateRole" => c.new # "OWNER"

IInv == MembersTypeOK /\ OwnerIsFirst /\ InvitesSound /\ MemberCallsSound

----------------------------------------------------------------------------
(* What a handler in flight is about. *)
LEMMA InviteOfCall ==
    ASSUME calls \in SUBSET MembersCall, NEW c \in calls,
           c.op \notin {"updateRole", "suspend", "remove"}
    PROVE  c.inv \in Invite
BY DEF MembersCall, InviteCall, AcceptCall, OneWriteCall, RoleCall, OutCall

LEMMA RowOfCall ==
    ASSUME calls \in SUBSET MembersCall, NEW c \in calls,
           c.op \in {"updateRole", "suspend", "remove"}
    PROVE  c.row \in Member /\ (c.op = "updateRole" => c.new \in Role)
BY DEF MembersCall, InviteCall, AcceptCall, OneWriteCall, RoleCall, OutCall

(* An ended handler leaves the others as they were. *)
LEMMA EndKeepsCalls ==
    ASSUME calls \in SUBSET MembersCall, NEW c \in calls, End(c)
    PROVE  calls' \in SUBSET MembersCall
BY DEF End

LEMMA BeginKeepsCalls ==
    ASSUME calls \in SUBSET MembersCall, NEW call \in MembersCall, Begin(call)
    PROVE  calls' \in SUBSET MembersCall
BY DEF Begin

(* An invitation and an acceptance go on as what they are. *)
LEMMA GoOnKeepsCalls ==
    ASSUME calls \in SUBSET MembersCall, NEW c \in calls,
           \/ c.op = "invite" /\ GoOn(c, [c EXCEPT !.at = "insert"])
           \/ c.op = "accept" /\ GoOn(c, [c EXCEPT !.at = "join"])
           \/ c.op = "accept" /\ GoOn(c, [c EXCEPT !.at = "create"])
    PROVE  calls' \in SUBSET MembersCall
<1>1. CASE c.op = "invite" /\ GoOn(c, [c EXCEPT !.at = "insert"])
  <2>1. c \in InviteCall
    BY <1>1 DEF MembersCall, InviteCall, AcceptCall, OneWriteCall, RoleCall, OutCall
  <2>2. [c EXCEPT !.at = "insert"] \in InviteCall
    BY <2>1 DEF InviteCall
  <2> QED BY <1>1, <2>2 DEF GoOn, MembersCall
<1>2. CASE c.op = "accept" /\ \E at \in {"join", "create"} : GoOn(c, [c EXCEPT !.at = at])
  <2>1. c \in AcceptCall
    BY <1>2 DEF MembersCall, InviteCall, AcceptCall, OneWriteCall, RoleCall, OutCall
  <2>2. \A at \in {"join", "create"} : [c EXCEPT !.at = at] \in AcceptCall
    BY <2>1 DEF AcceptCall
  <2> QED BY <1>2, <2>2 DEF GoOn, MembersCall
<1> QED BY <1>1, <1>2

----------------------------------------------------------------------------
(* Type correctness, one step per action. *)
LEMMA InviteStepsTyped ==
    ASSUME MembersTypeOK, InviteSteps
    PROVE  MembersTypeOK'
<1> USE DEF MembersTypeOK, membersVars, memberVars, inviteVars
<1>1. ASSUME NEW r \in Request, NEW i \in Invite, AcceptRead(r, i)
      PROVE  MembersTypeOK'
  <2>1. [req |-> r, op |-> "accept", inv |-> i, at |-> "lookup"] \in MembersCall
    BY DEF MembersCall, AcceptCall
  <2> QED BY <1>1, <2>1, BeginKeepsCalls DEF AcceptRead
<1>2. ASSUME NEW r \in Request, NEW i \in Invite, ExpireRead(r, i)
      PROVE  MembersTypeOK'
  <2>1. [req |-> r, op |-> "expire", inv |-> i, at |-> "write"] \in MembersCall
    BY DEF MembersCall, OneWriteCall
  <2> QED BY <1>2, <2>1, BeginKeepsCalls DEF ExpireRead
<1>3. ASSUME NEW r \in Request, NEW i \in Invite, NEW p \in Person, InviteRead(r, i, p)
      PROVE  MembersTypeOK'
  <2>1. [req |-> r, op |-> "invite", inv |-> i, at |-> "revoke"] \in MembersCall
    BY DEF MembersCall, InviteCall
  <2> QED BY <1>3, <2>1, BeginKeepsCalls DEF InviteRead
<1>4. ASSUME NEW r \in Request, NEW i \in Invite, NEW p \in Person, ResendRead(r, i, p)
      PROVE  MembersTypeOK'
  <2>1. [req |-> r, op |-> "resend", inv |-> i, at |-> "write"] \in MembersCall
    BY DEF MembersCall, OneWriteCall
  <2> QED BY <1>4, <2>1, BeginKeepsCalls DEF ResendRead
<1>5. ASSUME NEW r \in Request, NEW i \in Invite, NEW p \in Person, RevokeInviteRead(r, i, p)
      PROVE  MembersTypeOK'
  <2>1. [req |-> r, op |-> "revokeInvite", inv |-> i, at |-> "write"] \in MembersCall
    BY DEF MembersCall, OneWriteCall
  <2> QED BY <1>5, <2>1, BeginKeepsCalls DEF RevokeInviteRead
<1>6. ASSUME NEW c \in calls, InviteRevoke(c)
      PROVE  MembersTypeOK'
  <2>1. calls' \in SUBSET MembersCall
    BY <1>6, GoOnKeepsCalls DEF InviteRevoke, At
  <2> QED BY <1>6, <2>1 DEF InviteRevoke, InviteStatus
<1>7. ASSUME NEW c \in calls, InviteInsert(c)
      PROVE  MembersTypeOK'
  BY <1>7, EndKeepsCalls DEF InviteInsert, InviteStatus
<1>8. ASSUME NEW c \in calls, AcceptLookUp(c)
      PROVE  MembersTypeOK'
  <2>1. calls' \in SUBSET MembersCall
    BY <1>8, GoOnKeepsCalls DEF AcceptLookUp, At
  <2> QED BY <1>8, <2>1 DEF AcceptLookUp
<1>9. ASSUME NEW c \in calls, AcceptWrite(c)
      PROVE  MembersTypeOK'
  <2>1. c.inv \in Invite
    BY <1>9, InviteOfCall DEF AcceptWrite, At
  <2>2. InviteTo[c.inv] \in [emp : Employer, who : Person, as : Role]
    BY <2>1, InviteToAssumption
  <2> QED BY <1>9, <2>2, EndKeepsCalls DEF AcceptWrite, InviteStatus, Standing
<1>10. ASSUME NEW c \in calls, ExpireWrite(c) \/ RevokeInviteWrite(c)
       PROVE  MembersTypeOK'
  BY <1>10, EndKeepsCalls DEF ExpireWrite, RevokeInviteWrite, InviteStatus
<1>11. ASSUME NEW c \in calls, ResendWrite(c)
       PROVE  MembersTypeOK'
  <2>1. c.inv \in Invite
    BY <1>11, InviteOfCall DEF ResendWrite, At
  <2>2. resends' \in [Invite -> Nat]
    BY <1>11, <2>1 DEF ResendWrite
  <2> QED BY <1>11, <2>2, EndKeepsCalls DEF ResendWrite
<1> QED BY <1>1, <1>2, <1>3, <1>4, <1>5, <1>6, <1>7, <1>8, <1>9, <1>10, <1>11 DEF InviteSteps

LEMMA MemberStepsTyped ==
    ASSUME MembersTypeOK, MemberSteps
    PROVE  MembersTypeOK'
<1> USE DEF MembersTypeOK, membersVars, memberVars, inviteVars
<1>1. ASSUME NEW r \in Request, NEW m \in Member, NEW p \in Person, NEW new \in NewRole,
             UpdateRoleRead(r, m, new, p)
      PROVE  MembersTypeOK'
  <2>1. [req |-> r, op |-> "updateRole", row |-> m, new |-> new, at |-> "write"] \in MembersCall
    BY NewRoleAssumption DEF MembersCall, RoleCall
  <2> QED BY <1>1, <2>1, BeginKeepsCalls DEF UpdateRoleRead
<1>2. ASSUME NEW r \in Request, NEW m \in Member, NEW p \in Person, SuspendRead(r, m, p)
      PROVE  MembersTypeOK'
  <2>1. [req |-> r, op |-> "suspend", row |-> m, at |-> "write"] \in MembersCall
    BY DEF MembersCall, OutCall
  <2> QED BY <1>2, <2>1, BeginKeepsCalls DEF SuspendRead
<1>3. ASSUME NEW r \in Request, NEW m \in Member, NEW p \in Person, RemoveRead(r, m, p)
      PROVE  MembersTypeOK'
  <2>1. [req |-> r, op |-> "remove", row |-> m, at |-> "write"] \in MembersCall
    BY DEF MembersCall, OutCall
  <2> QED BY <1>3, <2>1, BeginKeepsCalls DEF RemoveRead
<1>4. ASSUME NEW c \in calls, UpdateRoleWrite(c)
      PROVE  MembersTypeOK'
  BY <1>4, EndKeepsCalls, RowOfCall DEF UpdateRoleWrite, At
<1>5. ASSUME NEW c \in calls, SuspendWrite(c) \/ RemoveWrite(c)
      PROVE  MembersTypeOK'
  BY <1>5, EndKeepsCalls DEF SuspendWrite, RemoveWrite, Standing
<1> QED BY <1>1, <1>2, <1>3, <1>4, <1>5 DEF MemberSteps

(* Every step keeps every row and every handler in flight in its type. *)
LEMMA NextTyped ==
    ASSUME MembersTypeOK, [MembersNext]_<<membersVars, calls>>
    PROVE  MembersTypeOK'
<1> USE DEF MembersTypeOK, membersVars, memberVars, inviteVars
<1>1. ASSUME NEW e \in Employer, SeedMember(e) \/ OpenEmployer(e) \/ SwitchEmployer(e)
      PROVE  MembersTypeOK'
  <2>1. UserOf[e] \in Person
    BY UserOfAssumption
  <2>2. CASE SeedMember(e)
    BY <2>2 DEF SeedMember, Standing, Role
  <2>3. CASE OpenEmployer(e)
    BY <2>1, <2>3 DEF OpenEmployer, EmployerStatus
  <2>4. CASE SwitchEmployer(e)
    BY <2>4 DEF SwitchEmployer, EmployerStatus
  <2> QED BY <1>1, <2>2, <2>3, <2>4
<1>2. ASSUME NEW i \in Invite, InviteLapses(i)
      PROVE  MembersTypeOK'
  BY <1>2 DEF InviteLapses
<1>3. ASSUME NEW c \in calls, MembersAbort(c)
      PROVE  MembersTypeOK'
  BY <1>3, EndKeepsCalls DEF MembersAbort
<1>4. CASE UNCHANGED <<membersVars, calls>>
  BY <1>4
<1> QED BY <1>1, <1>2, <1>3, <1>4, InviteStepsTyped, MemberStepsTyped DEF MembersNext

----------------------------------------------------------------------------
(* Who may act and on whom, by the rows alone.                             *)

(* A member of any role makes the employer one with an owner. *)
LEMMA FirstIsIn ==
    ASSUME MembersTypeOK, OwnerIsFirst, NEW e \in Employer, NEW p \in Person,
           standing[<<e, p>>] # "NONE"
    PROVE  role[<<e, UserOf[e]>>] = "OWNER" /\ standing[<<e, UserOf[e]>>] = "ACTIVE"
BY DEF OwnerIsFirst

(* There is one owner at most, so that no owner is ever one of two. *)
LEMMA OneOwner ==
    ASSUME MembersTypeOK, OwnerIsFirst, NEW e \in Employer
    PROVE  ~(Cardinality(Owners(e)) > 1)
<1>1. UserOf[e] \in Person
  BY UserOfAssumption
<1>2. Owners(e) \subseteq {UserOf[e]}
  BY DEF Owners, OwnerIsFirst, Member
<1>3. IsFiniteSet({UserOf[e]}) /\ Cardinality({UserOf[e]}) = 1
  BY FS_Singleton
<1>4. Cardinality(Owners(e)) <= 1 /\ IsFiniteSet(Owners(e))
  BY <1>2, <1>3, FS_Subset
<1>5. Cardinality(Owners(e)) \in Nat
  BY <1>4, FS_CardinalityType
<1> QED BY <1>4, <1>5

(* Nobody ranks above an owner. *)
LEMMA NoneAboveOwner ==
    ASSUME NEW actor \in Role, NEW target, CanManage(actor, target)
    PROVE  target # "OWNER"
BY DEF CanManage, Rank, Role

(* Of a member, the owner aside, only a person who is not the owner. *)
LEMMA NotTheOwner ==
    ASSUME MembersTypeOK, OwnerIsFirst, NEW m \in Member, Present(m), role[m] # "OWNER"
    PROVE  m[2] # UserOf[m[1]]
<1>1. /\ m[1] \in Employer /\ m[2] \in Person /\ m = <<m[1], m[2]>>
      /\ standing[<<m[1], m[2]>>] # "NONE"
  BY DEF Member, Present
<1>2. role[<<m[1], UserOf[m[1]]>>] = "OWNER"
  BY <1>1, FirstIsIn
<1> QED BY <1>1, <1>2

----------------------------------------------------------------------------
(* The invariant is kept: a step that leaves the rows of the members as    *)
(* they are keeps OwnerIsFirst, and one that adds no invite and no call    *)
(* keeps the rest.                                                         *)
RowsStay == role' = role /\ standing' = standing

(* Members only come. *)
MembersStay == \A m \in Member : standing[m] # "NONE" => standing'[m] # "NONE"

LEMMA SoundStays ==
    ASSUME MembersStay, NEW i \in Invite, SoundInvite(i)
    PROVE  SoundInvite(i)'
<1>1. <<InviteTo[i].emp, UserOf[InviteTo[i].emp]>> \in Member
  BY InviteToAssumption, UserOfAssumption DEF Member
<1> QED BY <1>1 DEF SoundInvite, MembersStay

(* Invites that were there, and that a handler is about, stay sound. *)
LEMMA InvitesStay ==
    ASSUME MembersTypeOK, InvitesSound, MembersStay,
           \A i \in Invite : invite'[i] # "NONE" =>
               \/ invite[i] # "NONE"
               \/ \E c \in calls : c.op \in InviteOps /\ c.inv = i,
           \A c \in calls' : c.op \in InviteOps =>
               \/ \E d \in calls : d.op = c.op /\ d.inv = c.inv
               \/ c.inv \in Invite /\ SoundInvite(c.inv)
    PROVE  InvitesSound'
<1>1. \A i \in Invite : invite'[i] # "NONE" => SoundInvite(i)'
  BY SoundStays DEF InvitesSound
<1>2. ASSUME NEW c \in calls', c.op \in InviteOps
      PROVE  SoundInvite(c.inv)'
  <2>1. c.inv \in Invite /\ SoundInvite(c.inv)
    BY <1>2, InviteOfCall DEF InvitesSound, MembersTypeOK, InviteOps
  <2> QED BY <2>1, SoundStays
<1> QED BY <1>1, <1>2 DEF InvitesSound

(* Handlers about a member stay sound while members only come. *)
LEMMA MemberCallsStay ==
    ASSUME MembersTypeOK, MemberCallsSound, MembersStay, calls' \subseteq calls
    PROVE  MemberCallsSound'
BY RowOfCall DEF MembersTypeOK, MemberCallsSound, MembersStay

(* No invitation, from its first statement to its acceptance, makes a      *)
(* second owner or touches the first one.                                  *)
LEMMA InviteStepsKeep ==
    ASSUME IInv, InviteSteps
    PROVE  OwnerIsFirst' /\ InvitesSound' /\ MemberCallsSound'
<1> USE DEF IInv
<1>1. ASSUME NEW r \in Request, NEW i \in Invite,
             \/ AcceptRead(r, i) \/ ExpireRead(r, i)
             \/ \E p \in Person : ResendRead(r, i, p) \/ RevokeInviteRead(r, i, p)
      PROVE  OwnerIsFirst' /\ InvitesSound' /\ MemberCallsSound'
  <2>1. RowsStay /\ invite' = invite
    BY <1>1 DEF AcceptRead, ExpireRead, ResendRead, RevokeInviteRead, RowsStay,
                membersVars, memberVars, inviteVars
  <2>2. SoundInvite(i)
    BY <1>1 DEF AcceptRead, ExpireRead, ResendRead, RevokeInviteRead, InvitesSound
  <2>3. \A c \in calls' : c \in calls \/ (c.op \in InviteOps /\ c.inv = i)
    BY <1>1 DEF AcceptRead, ExpireRead, ResendRead, RevokeInviteRead, Begin, InviteOps
  <2>4. InvitesSound'
    BY <2>1, <2>2, <2>3, InvitesStay DEF RowsStay, MembersStay
  <2> QED BY <2>1, <2>3, <2>4 DEF OwnerIsFirst, MemberCallsSound, RowsStay, InviteOps
<1>2. ASSUME NEW r \in Request, NEW i \in Invite, NEW p \in Person, InviteRead(r, i, p)
      PROVE  OwnerIsFirst' /\ InvitesSound' /\ MemberCallsSound'
  <2> DEFINE to == InviteTo[i]
  <2>1. RowsStay /\ invite' = invite
    BY <1>2 DEF InviteRead, RowsStay, membersVars, memberVars, inviteVars
  <2>2. to \in [emp : Employer, who : Person, as : Role]
    BY InviteToAssumption
  <2>3. /\ standing[<<to.emp, p>>] = "ACTIVE" /\ role[<<to.emp, p>>] \in Role
        /\ CanManage(role[<<to.emp, p>>], to.as)
        /\ standing[<<to.emp, to.who>>] \in {"NONE", "REMOVED"}
    BY <1>2 DEF InviteRead, Authorised, ActsFor, MayInvite, Role
  <2>4. standing[<<to.emp, UserOf[to.emp]>>] = "ACTIVE"
    BY <2>2, <2>3, FirstIsIn
  <2>5. SoundInvite(i)
    BY <2>3, <2>4, NoneAboveOwner DEF SoundInvite
  <2>6. \A c \in calls' : c \in calls \/ (c.op = "invite" /\ c.inv = i)
    BY <1>2 DEF InviteRead, Begin
  <2>7. InvitesSound'
    BY <2>1, <2>5, <2>6, InvitesStay DEF RowsStay, MembersStay, InviteOps
  <2> QED BY <2>1, <2>6, <2>7 DEF OwnerIsFirst, MemberCallsSound, RowsStay
<1>3. ASSUME NEW c \in calls, InviteRevoke(c) \/ AcceptLookUp(c)
      PROVE  OwnerIsFirst' /\ InvitesSound' /\ MemberCallsSound'
  <2>1. RowsStay /\ \A i \in Invite : invite'[i] # "NONE" => invite[i] # "NONE"
    BY <1>3 DEF InviteRevoke, AcceptLookUp, RowsStay, membersVars, memberVars, inviteVars,
                MembersTypeOK
  <2>2. c \in InviteCall \cup AcceptCall
    BY <1>3 DEF InviteRevoke, AcceptLookUp, At, MembersTypeOK, MembersCall, OneWriteCall,
                RoleCall, OutCall
  <2>3. \A d \in calls' : d \in calls \/ (d.op = c.op /\ d.inv = c.inv)
    BY <1>3, <2>2 DEF InviteRevoke, AcceptLookUp, GoOn, InviteCall, AcceptCall
  <2>4. InvitesSound'
    BY <2>1, <2>3, InvitesStay DEF RowsStay, MembersStay
  <2>5. c.op \in {"invite", "accept"}
    BY <2>2 DEF InviteCall, AcceptCall
  <2> QED BY <2>1, <2>3, <2>4, <2>5 DEF OwnerIsFirst, MemberCallsSound, RowsStay
<1>4. ASSUME NEW c \in calls, InviteInsert(c)
      PROVE  OwnerIsFirst' /\ InvitesSound' /\ MemberCallsSound'
  <2>1. RowsStay /\ \A i \in Invite : invite'[i] # "NONE" => invite[i] # "NONE" \/ i = c.inv
    BY <1>4 DEF InviteInsert, RowsStay, memberVars, MembersTypeOK
  <2>2. c.op = "invite" /\ calls' \subseteq calls
    BY <1>4 DEF InviteInsert, At, End
  <2>3. InvitesSound'
    BY <2>1, <2>2, InvitesStay DEF RowsStay, MembersStay, InviteOps
  <2> QED BY <2>1, <2>2, <2>3 DEF OwnerIsFirst, MemberCallsSound, RowsStay
<1>5. ASSUME NEW c \in calls, AcceptWrite(c)
      PROVE  OwnerIsFirst' /\ InvitesSound' /\ MemberCallsSound'
  <2> DEFINE to == InviteTo[c.inv]
             m == <<to.emp, to.who>>
  <2>1. c.op = "accept" /\ c.inv \in Invite /\ calls' \subseteq calls
    BY <1>5, InviteOfCall DEF AcceptWrite, At, End, MembersTypeOK
  <2>2. SoundInvite(c.inv) /\ invite[c.inv] \in InviteStatus
    BY <2>1 DEF InvitesSound, MembersTypeOK, InviteOps
  <2>3. to \in [emp : Employer, who : Person, as : Role] /\ m \in Member
    BY <2>1, InviteToAssumption DEF Member
  <2>4. /\ role' = [role EXCEPT ![m] = to.as]
        /\ standing' = [standing EXCEPT ![m] = "ACTIVE"]
        /\ invite' = [invite EXCEPT ![c.inv] = "ACCEPTED"]
    BY <1>5 DEF AcceptWrite
  <2>5. to.as # "OWNER" /\ to.who # UserOf[to.emp]
    BY <2>2 DEF SoundInvite
  <2>6. OwnerIsFirst'
    <3>1. \A n \in Member : role'[n] = "OWNER" => n[2] = UserOf[n[1]]
      BY <2>4, <2>5 DEF OwnerIsFirst, MembersTypeOK
    <3>2. ASSUME NEW e \in Employer
          PROVE  \/ role'[<<e, UserOf[e]>>] = "OWNER" /\ standing'[<<e, UserOf[e]>>] = "ACTIVE"
                 \/ \A p \in Person : standing'[<<e, p>>] = "NONE"
      <4>1. <<e, UserOf[e]>> \in Member /\ <<e, UserOf[e]>> # m
        BY <2>5, UserOfAssumption DEF Member
      <4>2. CASE role[<<e, UserOf[e]>>] = "OWNER" /\ standing[<<e, UserOf[e]>>] = "ACTIVE"
        BY <2>4, <4>1, <4>2 DEF MembersTypeOK
      <4>3. CASE \A p \in Person : standing[<<e, p>>] = "NONE"
        <5>1. to.emp # e
          BY <2>2, <4>3, UserOfAssumption DEF SoundInvite
        <5>2. \A p \in Person : <<e, p>> \in Member /\ <<e, p>> # m
          BY <5>1 DEF Member
        <5> QED BY <2>4, <4>3, <5>2 DEF MembersTypeOK
      <4> QED BY <4>2, <4>3 DEF OwnerIsFirst
    <3> QED BY <3>1, <3>2 DEF OwnerIsFirst
  <2>7. MembersStay
    BY <2>4 DEF MembersStay, MembersTypeOK
  <2>8. \A i \in Invite : invite'[i] # "NONE" => SoundInvite(i)
    BY <2>2, <2>4 DEF InvitesSound, MembersTypeOK
  <2>9. InvitesSound'
    <3>1. \A i \in Invite : invite'[i] # "NONE" => SoundInvite(i)'
      BY <2>7, <2>8, SoundStays
    <3>2. \A d \in calls' : d.op \in InviteOps => SoundInvite(d.inv)'
      BY <2>1, <2>7, SoundStays, InviteOfCall DEF InvitesSound, MembersTypeOK, InviteOps
    <3> QED BY <3>1, <3>2 DEF InvitesSound
  <2>10. MemberCallsSound'
    BY <2>1, <2>7, MemberCallsStay
  <2> QED BY <2>6, <2>9, <2>10
<1>6. ASSUME NEW c \in calls, ExpireWrite(c) \/ ResendWrite(c) \/ RevokeInviteWrite(c)
      PROVE  OwnerIsFirst' /\ InvitesSound' /\ MemberCallsSound'
  <2>1. RowsStay /\ calls' \subseteq calls
    BY <1>6 DEF ExpireWrite, ResendWrite, RevokeInviteWrite, RowsStay, memberVars, End
  <2>2. c.op \in InviteOps
    BY <1>6 DEF ExpireWrite, ResendWrite, RevokeInviteWrite, At, InviteOps
  <2>3. \A i \in Invite : invite'[i] # "NONE" => invite[i] # "NONE" \/ i = c.inv
    BY <1>6 DEF ExpireWrite, ResendWrite, RevokeInviteWrite, MembersTypeOK
  <2>4. InvitesSound'
    BY <2>1, <2>2, <2>3, InvitesStay DEF RowsStay, MembersStay
  <2>5. MemberCallsSound'
    BY <2>1, MemberCallsStay DEF RowsStay, MembersStay
  <2>6. OwnerIsFirst'
    BY <2>1 DEF OwnerIsFirst, RowsStay
  <2> QED BY <2>4, <2>5, <2>6
<1> QED BY <1>1, <1>2, <1>3, <1>4, <1>5, <1>6 DEF InviteSteps

(* No change of a role, suspension or removal reaches the owner. *)
LEMMA MemberStepsKeep ==
    ASSUME IInv, MemberSteps
    PROVE  OwnerIsFirst' /\ InvitesSound' /\ MemberCallsSound'
<1> USE DEF IInv
<1>1. ASSUME NEW r \in Request, NEW m \in Member, NEW p \in Person, NEW new \in NewRole,
             UpdateRoleRead(r, m, new, p)
      PROVE  OwnerIsFirst' /\ InvitesSound' /\ MemberCallsSound'
  <2>1. RowsStay /\ invite' = invite
    BY <1>1 DEF UpdateRoleRead, RowsStay, membersVars, memberVars, inviteVars
  <2>2. new # "OWNER"
    <3>1. role[<<m[1], p>>] \in Role /\ CanManage(role[<<m[1], p>>], new)
      BY <1>1 DEF UpdateRoleRead, Authorised, MayManage, Role
    <3> QED BY <3>1, NoneAboveOwner
  <2>3. role[m] # "OWNER"
    BY <1>1, <2>2, OneOwner DEF UpdateRoleRead, Member
  <2>4. m[2] # UserOf[m[1]]
    BY <1>1, <2>3, NotTheOwner DEF UpdateRoleRead
  <2>5. \A c \in calls' :
            c \in calls \/ (c.op = "updateRole" /\ c.row = m /\ c.new = new)
    BY <1>1 DEF UpdateRoleRead, Begin
  <2>6. InvitesSound'
    BY <2>1, <2>5, InvitesStay DEF RowsStay, MembersStay, InviteOps
  <2>7. standing[m] # "NONE"
    BY <1>1 DEF UpdateRoleRead, Present
  <2>8. MemberCallsSound'
    BY <2>1, <2>2, <2>4, <2>5, <2>7 DEF MemberCallsSound, RowsStay
  <2> QED BY <2>1, <2>6, <2>8 DEF OwnerIsFirst, RowsStay
<1>2. ASSUME NEW r \in Request, NEW m \in Member, NEW p \in Person,
             SuspendRead(r, m, p) \/ RemoveRead(r, m, p)
      PROVE  OwnerIsFirst' /\ InvitesSound' /\ MemberCallsSound'
  <2>1. RowsStay /\ invite' = invite
    BY <1>2 DEF SuspendRead, RemoveRead, RowsStay, membersVars, memberVars, inviteVars
  <2>2. m[2] # UserOf[m[1]]
    <3>1. role[<<m[1], p>>] = "OWNER" /\ m[2] # p /\ <<m[1], p>> \in Member
      BY <1>2 DEF SuspendRead, RemoveRead, Authorised, MayManage, Member
    <3> QED BY <3>1 DEF OwnerIsFirst
  <2>3. \A c \in calls' : c \in calls \/ (c.op \in {"suspend", "remove"} /\ c.row = m)
    BY <1>2 DEF SuspendRead, RemoveRead, Begin
  <2>4. InvitesSound'
    BY <2>1, <2>3, InvitesStay DEF RowsStay, MembersStay, InviteOps
  <2>5. standing[m] # "NONE"
    BY <1>2 DEF SuspendRead, RemoveRead, Present
  <2>6. MemberCallsSound'
    BY <2>1, <2>2, <2>3, <2>5 DEF MemberCallsSound, RowsStay
  <2> QED BY <2>1, <2>4, <2>6 DEF OwnerIsFirst, RowsStay
<1>3. ASSUME NEW c \in calls, UpdateRoleWrite(c) \/ SuspendWrite(c) \/ RemoveWrite(c)
      PROVE  OwnerIsFirst' /\ InvitesSound' /\ MemberCallsSound'
  <2>1. /\ c.op \in {"updateRole", "suspend", "remove"} /\ calls' \subseteq calls
        /\ invite' = invite
    BY <1>3 DEF UpdateRoleWrite, SuspendWrite, RemoveWrite, At, End, inviteVars
  <2>2. c.row \in Member /\ c.row[2] # UserOf[c.row[1]]
    BY <2>1, RowOfCall DEF MemberCallsSound, MembersTypeOK
  <2>3. \/ /\ c.new # "OWNER" /\ role' = [role EXCEPT ![c.row] = c.new] /\ standing' = standing
        \/ /\ role' = role
           /\ \E s \in {"SUSPENDED", "REMOVED"} : standing' = [standing EXCEPT ![c.row] = s]
    <3>1. CASE UpdateRoleWrite(c)
      BY <3>1 DEF UpdateRoleWrite, At, MemberCallsSound
    <3>2. CASE SuspendWrite(c) \/ RemoveWrite(c)
      BY <3>2 DEF SuspendWrite, RemoveWrite
    <3> QED BY <1>3, <3>1, <3>2
  <2>4. MembersStay
    BY <2>3 DEF MembersStay, MembersTypeOK
  <2>5. InvitesSound'
    BY <2>1, <2>4, InvitesStay
  <2>6. OwnerIsFirst'
    <3>1. \A n \in Member : role'[n] = "OWNER" => n[2] = UserOf[n[1]]
      BY <2>3 DEF OwnerIsFirst, MembersTypeOK
    <3>2. ASSUME NEW e \in Employer
          PROVE  \/ role'[<<e, UserOf[e]>>] = "OWNER" /\ standing'[<<e, UserOf[e]>>] = "ACTIVE"
                 \/ \A p \in Person : standing'[<<e, p>>] = "NONE"
      <4>1. <<e, UserOf[e]>> \in Member /\ <<e, UserOf[e]>> # c.row
        BY <2>2, UserOfAssumption DEF Member
      <4>2. CASE role[<<e, UserOf[e]>>] = "OWNER" /\ standing[<<e, UserOf[e]>>] = "ACTIVE"
        BY <2>3, <4>1, <4>2 DEF MembersTypeOK
      <4>3. CASE \A p \in Person : standing[<<e, p>>] = "NONE"
        <5>1. standing[c.row] # "NONE"
          BY <2>1 DEF MemberCallsSound
        <5>2. \A p \in Person : <<e, p>> \in Member /\ <<e, p>> # c.row
          BY <4>3, <5>1 DEF Member
        <5> QED BY <2>3, <4>3, <5>2 DEF MembersTypeOK
      <4> QED BY <4>2, <4>3 DEF OwnerIsFirst
    <3> QED BY <3>1, <3>2 DEF OwnerIsFirst
  <2>7. MemberCallsSound'
    BY <2>1, <2>4, MemberCallsStay
  <2> QED BY <2>5, <2>6, <2>7
<1> QED BY <1>1, <1>2, <1>3 DEF MemberSteps

----------------------------------------------------------------------------
(* IInv holds at first and after every step. *)
LEMMA InitIInv == MembersInit => IInv
<1> SUFFICES ASSUME MembersInit PROVE IInv
  OBVIOUS
<1>1. MembersTypeOK
  BY DEF MembersInit, MembersTypeOK, Standing, EmployerStatus, InviteStatus
<1>2. OwnerIsFirst
  BY DEF MembersInit, OwnerIsFirst, Member
<1>3. InvitesSound /\ MemberCallsSound
  BY DEF MembersInit, InvitesSound, MemberCallsSound
<1> QED BY <1>1, <1>2, <1>3 DEF IInv

LEMMA NextIInv ==
    ASSUME IInv, [MembersNext]_<<membersVars, calls>>
    PROVE  IInv'
<1> USE DEF IInv
<1>1. MembersTypeOK'
  BY NextTyped
<1>2. ASSUME NEW e \in Employer, SeedMember(e)
      PROVE  OwnerIsFirst' /\ InvitesSound' /\ MemberCallsSound'
  <2> DEFINE m == <<e, UserOf[e]>>
  <2>1. m \in Member /\ standing[m] = "NONE" /\ calls' = calls /\ invite' = invite
    BY <1>2, UserOfAssumption DEF SeedMember, Member, inviteVars
  <2>2. role' = [role EXCEPT ![m] = "OWNER"] /\ standing' = [standing EXCEPT ![m] = "ACTIVE"]
    BY <1>2 DEF SeedMember
  <2>3. MembersStay
    BY <2>2 DEF MembersStay, MembersTypeOK
  <2>4. InvitesSound' /\ MemberCallsSound'
    BY <2>1, <2>3, InvitesStay, MemberCallsStay
  <2>5. \A n \in Member : role'[n] = "OWNER" => n[2] = UserOf[n[1]]
    BY <2>1, <2>2 DEF OwnerIsFirst, MembersTypeOK
  <2>6. ASSUME NEW f \in Employer
        PROVE  \/ role'[<<f, UserOf[f]>>] = "OWNER" /\ standing'[<<f, UserOf[f]>>] = "ACTIVE"
               \/ \A p \in Person : standing'[<<f, p>>] = "NONE"
    <3>1. CASE f = e
      BY <2>1, <2>2, <3>1 DEF MembersTypeOK
    <3>2. CASE f # e
      <4>1. \A p \in Person : <<f, p>> \in Member /\ <<f, p>> # m
        BY <3>2 DEF Member
      <4> QED BY <2>2, <4>1, UserOfAssumption DEF OwnerIsFirst, MembersTypeOK
    <3> QED BY <3>1, <3>2
  <2> QED BY <2>4, <2>5, <2>6 DEF OwnerIsFirst
<1>3. ASSUME \/ \E e \in Employer : OpenEmployer(e) \/ SwitchEmployer(e)
             \/ \E i \in Invite : InviteLapses(i)
             \/ \E c \in calls : MembersAbort(c)
             \/ UNCHANGED <<membersVars, calls>>
      PROVE  OwnerIsFirst' /\ InvitesSound' /\ MemberCallsSound'
  <2>1. RowsStay /\ invite' = invite /\ calls' \subseteq calls
    BY <1>3 DEF OpenEmployer, SwitchEmployer, InviteLapses, MembersAbort, End, RowsStay,
                membersVars, memberVars, inviteVars
  <2>2. MembersStay
    BY <2>1 DEF RowsStay, MembersStay
  <2>3. InvitesSound' /\ MemberCallsSound'
    BY <2>1, <2>2, InvitesStay, MemberCallsStay
  <2> QED BY <2>1, <2>3 DEF OwnerIsFirst, RowsStay
<1> QED BY <1>1, <1>2, <1>3, InviteStepsKeep, MemberStepsKeep DEF MembersNext

(* The owner the invariant speaks of is an active one. *)
LEMMA FirstOwns == IInv => HasOwner
BY UserOfAssumption, FirstIsIn DEF IInv, HasOwner, Owners

----------------------------------------------------------------------------
(* The resends of an invite that were done and those about to be. *)
Resending(i) == {c \in calls : c.op = "resend" /\ c.inv = i}

ResendsCounted ==
    \A i \in Invite :
        resends[i] + Cardinality(Resending(i)) < MaxResends + Cardinality(Request)

MembersInv == IInv /\ OneEach(calls) /\ ResendsCounted

(* Every handler of the team serves a request of its own. *)
LEMMA MembersApart ==
    ASSUME MembersTypeOK, OneEach(calls), [MembersNext]_<<membersVars, calls>>
    PROVE  OneEach(calls')
<1>1. ASSUME NEW r \in Request, NEW i \in Invite,
             \/ AcceptRead(r, i) \/ ExpireRead(r, i)
             \/ \E p \in Person :
                   InviteRead(r, i, p) \/ ResendRead(r, i, p) \/ RevokeInviteRead(r, i, p)
      PROVE  OneEach(calls')
  BY <1>1, BeginOneEach DEF AcceptRead, ExpireRead, InviteRead, ResendRead, RevokeInviteRead
<1>2. ASSUME NEW r \in Request, NEW m \in Member, NEW p \in Person,
             \/ \E new \in NewRole : UpdateRoleRead(r, m, new, p)
             \/ SuspendRead(r, m, p) \/ RemoveRead(r, m, p)
      PROVE  OneEach(calls')
  BY <1>2, BeginOneEach DEF UpdateRoleRead, SuspendRead, RemoveRead
<1>3. ASSUME NEW c \in calls, InviteRevoke(c) \/ AcceptLookUp(c)
      PROVE  OneEach(calls')
  <2>1. c \in InviteCall \cup AcceptCall
    BY <1>3 DEF InviteRevoke, AcceptLookUp, At, MembersTypeOK, MembersCall, OneWriteCall,
                RoleCall, OutCall
  <2>2. PICK next : GoOn(c, next) /\ next.req = c.req
    BY <1>3, <2>1 DEF InviteRevoke, AcceptLookUp, InviteCall, AcceptCall
  <2> QED BY <2>2, GoOnOneEach
<1>4. ASSUME NEW c \in calls,
             \/ InviteInsert(c) \/ AcceptWrite(c) \/ ExpireWrite(c) \/ ResendWrite(c)
             \/ RevokeInviteWrite(c) \/ UpdateRoleWrite(c) \/ SuspendWrite(c) \/ RemoveWrite(c)
             \/ MembersAbort(c)
      PROVE  OneEach(calls')
  <2>1. calls' \subseteq calls
    BY <1>4 DEF InviteInsert, AcceptWrite, ExpireWrite, ResendWrite, RevokeInviteWrite,
                UpdateRoleWrite, SuspendWrite, RemoveWrite, MembersAbort, End
  <2> QED BY <2>1, FewerOneEach
<1>5. ASSUME \/ \E e \in Employer : SeedMember(e) \/ OpenEmployer(e) \/ SwitchEmployer(e)
             \/ \E i \in Invite : InviteLapses(i)
             \/ UNCHANGED calls
      PROVE  OneEach(calls')
  BY <1>5 DEF SeedMember, OpenEmployer, SwitchEmployer, InviteLapses
<1> QED BY <1>1, <1>2, <1>3, <1>4, <1>5 DEF MembersNext, InviteSteps, MemberSteps

(* Steps that start no resend leave the count as it was. *)
LEMMA ResendsStay ==
    ASSUME MembersTypeOK, OneEach(calls), ResendsCounted, resends' = resends,
           \A d \in calls' : d.op = "resend" => d \in calls
    PROVE  ResendsCounted'
<1> SUFFICES ASSUME NEW i \in Invite
             PROVE  resends[i] + Cardinality(Resending(i)') < MaxResends + Cardinality(Request)
  BY DEF ResendsCounted
<1>1. Resending(i)' \subseteq Resending(i) /\ Resending(i) \subseteq calls
  BY DEF Resending
<1>2. IsFiniteSet(Resending(i)) /\ Cardinality(Resending(i)) \in Nat
  BY <1>1, HandlersCount
<1>3. Cardinality(Resending(i)') \in Nat /\ Cardinality(Resending(i)') <= Cardinality(Resending(i))
  BY <1>1, <1>2, FS_Subset, FS_CardinalityType
<1>4. resends[i] \in Nat /\ MaxResends \in Nat
      /\ resends[i] + Cardinality(Resending(i)) < MaxResends + Cardinality(Request)
  BY MaxResendsAssumption DEF ResendsCounted, MembersTypeOK
<1> QED BY <1>2, <1>3, <1>4, RequestsNumber

LEMMA ResendsKeep ==
    ASSUME MembersTypeOK, OneEach(calls), ResendsCounted, [MembersNext]_<<membersVars, calls>>
    PROVE  ResendsCounted'
<1> USE DEF membersVars, memberVars, inviteVars
<1>1. ASSUME NEW r \in Request, NEW i \in Invite, NEW p \in Person, ResendRead(r, i, p)
      PROVE  ResendsCounted'
  <2> DEFINE new == [req |-> r, op |-> "resend", inv |-> i, at |-> "write"]
  <2>1. resends[i] < MaxResends /\ resends' = resends /\ calls' = calls \cup {new}
    BY <1>1 DEF ResendRead, Begin
  <2>2. OneEach(calls')
    BY MembersApart
  <2>3. \A j \in Invite : j # i => Resending(j)' = Resending(j)
    BY <2>1 DEF Resending
  <2>4. Resending(i)' \subseteq calls'
    BY DEF Resending
  <2>5. Cardinality(Resending(i)') \in Nat
        /\ Cardinality(Resending(i)') <= Cardinality(Request)
    BY <2>2, <2>4, HandlersCount
  <2>6. resends[i] \in Nat /\ MaxResends \in Nat
    BY MaxResendsAssumption DEF MembersTypeOK
  <2>7. resends[i] + Cardinality(Resending(i)') < MaxResends + Cardinality(Request)
    BY <2>1, <2>5, <2>6, RequestsNumber
  <2> QED BY <2>1, <2>3, <2>7 DEF ResendsCounted
<1>2. ASSUME NEW c \in calls, ResendWrite(c)
      PROVE  ResendsCounted'
  <2>1. c.inv \in Invite /\ c.op = "resend"
    BY <1>2, InviteOfCall DEF ResendWrite, At, MembersTypeOK
  <2>2. resends' = [resends EXCEPT ![c.inv] = @ + 1] /\ calls' = calls \ {c}
    BY <1>2 DEF ResendWrite, End
  <2>3. ASSUME NEW i \in Invite
        PROVE  resends'[i] + Cardinality(Resending(i)') < MaxResends + Cardinality(Request)
    <3>1. Resending(i) \subseteq calls
      BY DEF Resending
    <3>2. IsFiniteSet(Resending(i)) /\ Cardinality(Resending(i)) \in Nat
      BY <3>1, HandlersCount
    <3>3. /\ resends[i] \in Nat /\ MaxResends \in Nat
          /\ resends[i] + Cardinality(Resending(i)) < MaxResends + Cardinality(Request)
      BY MaxResendsAssumption DEF ResendsCounted, MembersTypeOK
    <3>4. CASE i = c.inv
      <4>1. c \in Resending(i) /\ Resending(i)' = Resending(i) \ {c}
        BY <2>1, <2>2, <3>4 DEF Resending
      <4>2. Cardinality(Resending(i)') = Cardinality(Resending(i)) - 1
        BY <3>2, <4>1, OneLess
      <4>3. resends'[i] = resends[i] + 1
        BY <2>1, <2>2, <3>4 DEF MembersTypeOK
      <4> QED BY <3>2, <3>3, <4>2, <4>3, RequestsNumber
    <3>5. CASE i # c.inv
      <4>1. Resending(i)' = Resending(i) /\ resends'[i] = resends[i]
        BY <2>1, <2>2, <3>5 DEF Resending, MembersTypeOK
      <4> QED BY <3>3, <4>1
    <3> QED BY <3>4, <3>5
  <2> QED BY <2>3 DEF ResendsCounted
<1>3. ASSUME resends' = resends, \A d \in calls' : d.op = "resend" => d \in calls
      PROVE  ResendsCounted'
  BY <1>3, ResendsStay
<1>4. ASSUME NEW r \in Request, NEW i \in Invite,
             \/ AcceptRead(r, i) \/ ExpireRead(r, i)
             \/ \E p \in Person : InviteRead(r, i, p) \/ RevokeInviteRead(r, i, p)
      PROVE  ResendsCounted'
  <2>1. resends' = resends
    BY <1>4 DEF AcceptRead, ExpireRead, InviteRead, RevokeInviteRead
  <2>2. PICK new : new.op # "resend" /\ calls' = calls \cup {new}
    <3>1. CASE AcceptRead(r, i) \/ ExpireRead(r, i)
      BY <3>1 DEF AcceptRead, ExpireRead, Begin
    <3>2. CASE \E p \in Person : InviteRead(r, i, p) \/ RevokeInviteRead(r, i, p)
      BY <3>2 DEF InviteRead, RevokeInviteRead, Begin
    <3> QED BY <1>4, <3>1, <3>2
  <2> QED BY <1>3, <2>1, <2>2
<1>5. ASSUME NEW r \in Request, NEW m \in Member, NEW p \in Person,
             \/ \E new \in NewRole : UpdateRoleRead(r, m, new, p)
             \/ SuspendRead(r, m, p) \/ RemoveRead(r, m, p)
      PROVE  ResendsCounted'
  <2>1. resends' = resends
    BY <1>5 DEF UpdateRoleRead, SuspendRead, RemoveRead
  <2>2. \A d \in calls' : d.op = "resend" => d \in calls
    BY <1>5 DEF UpdateRoleRead, SuspendRead, RemoveRead, Begin
  <2> QED BY <1>3, <2>1, <2>2
<1>6. ASSUME NEW c \in calls, InviteRevoke(c) \/ AcceptLookUp(c)
      PROVE  ResendsCounted'
  <2>1. c \in InviteCall \cup AcceptCall
    BY <1>6 DEF InviteRevoke, AcceptLookUp, At, MembersTypeOK, MembersCall, OneWriteCall,
                RoleCall, OutCall
  <2>2. PICK next : GoOn(c, next) /\ next.op # "resend"
    BY <1>6, <2>1 DEF InviteRevoke, AcceptLookUp, InviteCall, AcceptCall
  <2>3. resends' = resends
    BY <1>6 DEF InviteRevoke, AcceptLookUp
  <2> QED BY <1>3, <2>2, <2>3 DEF GoOn
<1>7. ASSUME NEW c \in calls,
             \/ InviteInsert(c) \/ AcceptWrite(c) \/ ExpireWrite(c)
             \/ RevokeInviteWrite(c) \/ UpdateRoleWrite(c) \/ SuspendWrite(c) \/ RemoveWrite(c)
             \/ MembersAbort(c)
      PROVE  ResendsCounted'
  <2>1. calls' \subseteq calls /\ resends' = resends
    BY <1>7 DEF InviteInsert, AcceptWrite, ExpireWrite, RevokeInviteWrite,
                UpdateRoleWrite, SuspendWrite, RemoveWrite, MembersAbort, End
  <2> QED BY <1>3, <2>1
<1>8. ASSUME \/ \E e \in Employer : SeedMember(e) \/ OpenEmployer(e) \/ SwitchEmployer(e)
             \/ \E i \in Invite : InviteLapses(i)
             \/ UNCHANGED <<membersVars, calls>>
      PROVE  ResendsCounted'
  BY <1>3, <1>8 DEF SeedMember, OpenEmployer, SwitchEmployer, InviteLapses
<1> QED BY <1>1, <1>2, <1>4, <1>5, <1>6, <1>7, <1>8 DEF MembersNext, InviteSteps, MemberSteps

----------------------------------------------------------------------------
LEMMA InitMembersInv == MembersInit => MembersInv
<1> SUFFICES ASSUME MembersInit PROVE MembersInv
  OBVIOUS
<1>1. OneEach(calls) /\ \A i \in Invite : Resending(i) = {} /\ resends[i] = 0
  BY DEF MembersInit, OneEach, Resending
<1>2. Cardinality({}) = 0 /\ 0 + 0 < MaxResends + Cardinality(Request)
  BY FS_EmptySet, RequestsNumber, MaxResendsAssumption
<1>3. ResendsCounted
  BY <1>1, <1>2 DEF ResendsCounted
<1> QED BY <1>1, <1>3, InitIInv DEF MembersInv

LEMMA NextMembersInv ==
    MembersInv /\ [MembersNext]_<<membersVars, calls>> => MembersInv'
BY NextIInv, MembersApart, ResendsKeep DEF MembersInv, IInv

LEMMA ResendsFew == MembersInv => ResendsBounded
<1> SUFFICES ASSUME MembersInv, NEW i \in Invite
             PROVE  resends[i] < MaxResends + Cardinality(Request)
  BY DEF ResendsBounded
<1>1. Resending(i) \subseteq calls /\ OneEach(calls)
  BY DEF Resending, MembersInv
<1>2. Cardinality(Resending(i)) \in Nat
  BY <1>1, HandlersCount
<1>3. /\ resends[i] \in Nat /\ MaxResends \in Nat
      /\ resends[i] + Cardinality(Resending(i)) < MaxResends + Cardinality(Request)
  BY MaxResendsAssumption DEF MembersInv, IInv, ResendsCounted, MembersTypeOK
<1> QED BY <1>2, <1>3, RequestsNumber

(* Nothing but the handlers that read an invite pending changes one that   *)
(* has an outcome.                                                         *)
Outcomes == {"ACCEPTED", "EXPIRED", "REVOKED"}

LEMMA SettledStays ==
    ASSUME MembersTypeOK, [MembersNext]_<<membersVars, calls>>, NEW i \in Invite,
           invite[i] \in Outcomes,
           \A c \in calls : c.op \notin {"accept", "expire", "revokeInvite"} \/ c.inv # i
    PROVE  invite'[i] = invite[i]
<1> USE DEF membersVars, memberVars, inviteVars, Outcomes
<1>1. ASSUME NEW r \in Request, NEW j \in Invite,
             \/ AcceptRead(r, j) \/ ExpireRead(r, j)
             \/ \E p \in Person :
                   InviteRead(r, j, p) \/ ResendRead(r, j, p) \/ RevokeInviteRead(r, j, p)
      PROVE  invite'[i] = invite[i]
  BY <1>1 DEF AcceptRead, ExpireRead, InviteRead, ResendRead, RevokeInviteRead
<1>2. ASSUME NEW r \in Request, NEW m \in Member, NEW p \in Person,
             \/ \E new \in NewRole : UpdateRoleRead(r, m, new, p)
             \/ SuspendRead(r, m, p) \/ RemoveRead(r, m, p)
      PROVE  invite'[i] = invite[i]
  BY <1>2 DEF UpdateRoleRead, SuspendRead, RemoveRead
<1>3. ASSUME NEW c \in calls, InviteRevoke(c) \/ InviteInsert(c)
      PROVE  invite'[i] = invite[i]
  BY <1>3 DEF InviteRevoke, InviteInsert, MembersTypeOK
<1>4. ASSUME NEW c \in calls, AcceptWrite(c) \/ ExpireWrite(c) \/ RevokeInviteWrite(c)
      PROVE  invite'[i] = invite[i]
  <2>1. c.op \in {"accept", "expire", "revokeInvite"}
    BY <1>4 DEF AcceptWrite, ExpireWrite, RevokeInviteWrite, At
  <2>2. \E s : invite' = [invite EXCEPT ![c.inv] = s]
    BY <1>4 DEF AcceptWrite, ExpireWrite, RevokeInviteWrite
  <2> QED BY <2>1, <2>2 DEF MembersTypeOK
<1>5. ASSUME NEW c \in calls,
             \/ AcceptLookUp(c) \/ ResendWrite(c) \/ UpdateRoleWrite(c) \/ SuspendWrite(c)
             \/ RemoveWrite(c) \/ MembersAbort(c)
      PROVE  invite'[i] = invite[i]
  BY <1>5 DEF AcceptLookUp, ResendWrite, UpdateRoleWrite, SuspendWrite, RemoveWrite, MembersAbort
<1>6. ASSUME \/ \E e \in Employer : SeedMember(e) \/ OpenEmployer(e) \/ SwitchEmployer(e)
             \/ \E j \in Invite : InviteLapses(j)
             \/ UNCHANGED <<membersVars, calls>>
      PROVE  invite'[i] = invite[i]
  BY <1>6 DEF SeedMember, OpenEmployer, SwitchEmployer, InviteLapses
<1> QED BY <1>1, <1>2, <1>3, <1>4, <1>5, <1>6 DEF MembersNext, InviteSteps, MemberSteps

(* The rows, invites and handlers of a team fit together at all times.     *)
THEOREM Invariance == MembersSpec => []IInv
BY InitIInv, NextIInv, PTL DEF MembersSpec

(* An employer with members keeps an active owner, whatever invitations,   *)
(* changes of role, suspensions and removals race: the guards and the      *)
(* ranking of EmployerMembersService suffice, although suspendMember       *)
(* counts no owners and every count is read before its write.              *)
THEOREM OwnerRemains == MembersSpec => []HasOwner
BY FirstOwns, Invariance, PTL
=============================================================================
