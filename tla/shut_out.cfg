SPECIFICATION Spec

CONSTANTS
    e1 = e1  e2 = e2  p1 = p1  p2 = p2  u1 = u1  a = a
    Desks = {"members"}
    Request = {h1, h2}
    Employer = {e1}  Person = {p1, p2}  Invite = {i1, i2}
    UserOf <- MCUserOf  InviteTo <- MCInviteTo  NewRole = {"OWNER", "ADMIN"}  MaxResends = 1
    User = {u1}  Session = {x1, x2, x3}  Link = {k1}
    SessionOf <- MCSessionOf  LinkOf <- MCLinkOf  MaxTokens = 2
    Device = {i1, i2}  AppUser = {p1, p2}
    Email = {a, d1, d2}  Enquiry = {i1, i2}  Company = {x1, x2, x3}  SentFrom <- MCSentFrom
    Employee = {i1, i2}  Code = {d1, d2}  Address = {a, d1, d2}  Others = {a}

SYMMETRY Symmetry

INVARIANTS
    InvitedSignIn

CHECK_DEADLOCK FALSE
