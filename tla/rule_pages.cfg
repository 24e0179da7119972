CONSTANTS
    m1 = m1
    m2 = m2
    r1 = r1
    r2 = r2
    g1 = g1
    g2 = g2
    n1 = n1
    x1 = x1
    Machine = {m1, m2}
    NoMachine = NoMachine
    FirstId <- FirstIds
    MaxId = 12
    Resource = {r1, r2}
    Blank = Blank
    Null = Null
    Unread = {unread}
    Page = {"degrade", "system", "authority", "flow_v1", "param", "api", "gateway"}
    Typed <- TheForms
    InitialRules <- TheRules
    ApiNames <- TheNames
    ParamObject = {n1, x1}
    Number = {n1}
    Byte = {}
    Typeable <- Items
    Pattern = {r1, r2}
    ApiName = {g1, g2}
    MaxInFlight = 2
    MaxClicks <- TheClicks
SPECIFICATION Spec
INVARIANTS TypeOK IdleIsCurrent ParamItemsUnique
PROPERTIES EditsStayInDialog 
CHECK_DEADLOCK FALSE
