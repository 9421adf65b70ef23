---------------------------- MODULE MCAccessOffice -----------------------------
(* Small offices for TLC.  Ids of different kinds share their names. *)
EXTENDS AccessOffice, TLC

CONSTANTS e1, e2, p1, p2, u1, a

(* Two employers with a login each; the invites go to the second employer's  *)
(* login, as an administrator of the first.                                  *)
MCUserOf == [e \in Employer |-> IF e = e1 THEN p1 ELSE p2]
MCInviteTo == [i \in Invite |-> [emp |-> e1, who |-> p2, as |-> "ADMIN"]]

(* One user with all sessions and links; one sender of all enquiries. *)
MCSessionOf == [s \in Session |-> u1]
MCLinkOf == [k \in Link |-> u1]
MCSentFrom == [q \in Enquiry |-> a]

Symmetry ==
    Permutations(Request) \cup Permutations(Session) \cup Permutations(Invite)
        \cup Permutations(Code)
=============================================================================
