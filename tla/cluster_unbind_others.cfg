CONSTANTS
    m1 = m1
    m2 = m2
    m3 = m3
    h1 = h1
    h2 = h2
    h3 = h3
    Machine = {m1, m2, m3}
    Host = {h1, h2, h3}
    HostOf <- TheHosts
    Port = {8, 9}
    DEFAULT_CLUSTER_SERVER_PORT = 9
    Capable = {m1, m2, m3}
    NoAddress = NoAddress
    NoMachine = NoMachine
    InitialClusters <- Cases
    Slot = {s1, s2}
    Late = {l1}
    Page = {"servers"}
    MaxClicks <- Clicks
SPECIFICATION Spec
PROPERTY UnbindSparesOthers
CHECK_DEADLOCK FALSE
