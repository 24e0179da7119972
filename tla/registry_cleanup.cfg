CONSTANTS
    App = {a}
    Machine = {m1, m2}
    HostApp <- TheApp
    Fetcher = {f}
    Ref = {r1, r2, r3, r4}
    NoRef = NoRef
    NoEntry = NoEntry
    Unhealthy = 1
    AutoRemove = 1
    RemoveAfter = 2
    MaxAge = 2
SPECIFICATION Spec
INVARIANTS EntryIsLatest
PROPERTIES SteadyStays
