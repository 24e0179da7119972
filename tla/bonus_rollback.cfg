SPECIFICATION Spec
CHECK_DEADLOCK FALSE
CONSTANTS
    u1 = u1
    Request = {r1, r2}
    Share = {s1}
    User = {u1}
    Consumer = {c1}
    Author <- OneAuthor
    InitialBonus = 300
    MaxChecks = 1
    MaxDeliveries = 1
INVARIANTS RollbackMeansFailed
