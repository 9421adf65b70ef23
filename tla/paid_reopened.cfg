SPECIFICATION Spec
CONSTANTS
    m1 = m1
    Employer = {m1}
    Repayment = {p1}
    EmployerOf <- OneEmployer
    Months = 2
    Request = {r1}
PROPERTIES
    CompletedIsFinal
CHECK_DEADLOCK FALSE
