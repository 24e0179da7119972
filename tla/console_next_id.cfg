SPECIFICATION Spec
CHECK_DEADLOCK FALSE
CONSTANTS
    Session = {s1}
    Thread = {t1}
    App = {a1}
    Body = {b1, b2}
    ClusterBody = {}
    NoApp = NoApp
    MaxRestarts = 1
SYMMETRY Symmetry
PROPERTIES NextIdUnused
