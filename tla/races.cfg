SPECIFICATION Spec
CONSTANTS
    e1 = e1
    a1 = a1
    a2 = a2
    o1 = o1
    o2 = o2
    Employee = {e1}
    App = {a1, a2}
    Order = {o1, o2}
    Request = {r1, r2}
    EmployeeOf <- OneEmployee
    AppOf <- AnOrderEach
SYMMETRY Symmetry
INVARIANTS
    TypeOK
    OneActiveAdvance
    FeeGate
    CaptureClearsFee
PROPERTIES
    KeepsPayoutContract
CHECK_DEADLOCK FALSE
