CONSTANTS
    App = {a}
    Machine = {m1}
    HostApp <- TheApp
    Fetcher = {f, g}
    Ref = {r1, r2, r3, r4}
    NoRef = NoRef
    NoEntry = NoEntry
    Unhealthy = 1
    AutoRemove = 1
    RemoveAfter = 0
    MaxAge = 2
SPECIFICATION FairSpec
INVARIANTS TypeOK
PROPERTIES StoppedIsForgotten
