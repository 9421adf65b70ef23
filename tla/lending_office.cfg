SPECIFICATION Spec

CONSTANTS
    Desks = {"setup", "terms", "numbers", "repayment"}
    Request = {h1, h2}
    RequiredKyc = {i1, i2}  OtherKyc = {k1}  Details = {d1, d2}  Seeded = TRUE
    Version = {x1, x2, x3}  Rules <- MCRules  MaxVersion = 3
    Amount = {1, 3}  Override = {0, 3}  Applicant = {i1, i2}
    Submission = {x1, x2, x3}  Imported = {0, 1, 5}  MaxTries = 5  MaxNumber = 8
    FirstDay <- MCFirstDay  Payroll <- MCPayroll  Terms <- MCTerms  Parts = 10
    Principal = {100000, 500600}  MaxDelay = 2

SYMMETRY Symmetry

INVARIANTS
    TypeOK
    VerifiedWasReviewed
    PaidToReviewed
    LatestIsActive
    OverrideCapped
    CollisionsAreRaces
    QuoteKept
    CyclesAgree
    NeverDueBefore

CHECK_DEADLOCK FALSE
