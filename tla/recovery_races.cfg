SPECIFICATION Spec
CONSTANTS
    m1 = m1
    Employer = {m1}
    Repayment = {p1, p2}
    EmployerOf <- OneEmployer
    Months = 2
    Request = {r1, r2}
SYMMETRY Symmetry
INVARIANTS
    TypeOK
    BilledOnce
    PaidIsRepaid
CHECK_DEADLOCK FALSE
