SPECIFICATION FairSpec
CONSTANTS
    Clients = {c1, c2, c3}
    Ips = {i1}
    NoIp = NoIp
    Events = {e1, e2}
    Filters <- MCFilters
    c1 = c1
    c2 = c2
    c3 = c3
    e1 = e1
    e2 = e2
    ConnectLimit = 2
    MaxPerIp = 1
INVARIANTS TypeOK CountsAreTrue LimitedByWave BroadcastReaches
PROPERTIES StreamSettles
CHECK_DEADLOCK FALSE
