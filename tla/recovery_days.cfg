SPECIFICATION FairSpec
CONSTANTS
    m1 = m1
    Employer = {m1}
    Repayment = {p1, p2}
    EmployerOf <- OneEmployer
    Months = 2
    Request = {r1}
INVARIANTS
    SettlementCloses
PROPERTIES
    StaysPaid
    LateIsBlocked
    RiskClears
CHECK_DEADLOCK FALSE
