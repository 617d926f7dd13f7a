CONSTANTS
    p1 = p1
    p2 = p2
    file = file
    live = live
    n1 = n1
    n2 = n2
    keys = keys
    endpoints = endpoints
    k1 = k1
    e1 = e1
    None = None
    Plans = {p1, p2}
    Files = {file}
    Live = live
    NodesOf <- MCNodesOf
    Tabs = {keys, endpoints}
    FirstTab = keys
    EndpointsTab = endpoints
    EntriesOf <- MCEntriesOf
    MaxUser = 4
    MaxHistory = 5
    MaxPending = 3
SPECIFICATION Spec
INVARIANTS
    BusyHasRequest
    UrlShowsPlan
    PageSound
PROPERTY
    PopKeepsHistory
CHECK_DEADLOCK FALSE
