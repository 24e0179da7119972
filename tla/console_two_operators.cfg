SPECIFICATION Spec
CHECK_DEADLOCK FALSE
CONSTANTS
    Session = {s1, s2}
    Thread = {t1, t2}
    App = {a1, a2}
    Body = {b1, c1}
    ClusterBody = {c1}
    NoApp = NoApp
    MaxRestarts = 1
SYMMETRY Symmetry
INVARIANTS TypeOK WellFormed EditStaysInApp EditChangesOneRule
