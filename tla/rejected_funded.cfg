SPECIFICATION Spec
CONSTANTS
    e1 = e1
    a1 = a1
    a2 = a2
    o1 = o1
    o2 = o2
    Employee = {e1}
    App = {a1}
    Order = {o1}
    Request = {r1}
    EmployeeOf <- OneEmployee
    AppOf <- OneOrder
PROPERTIES
    OnlyReadyIsFunded
CHECK_DEADLOCK FALSE
