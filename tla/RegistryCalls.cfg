SPECIFICATION Spec
CONSTANTS
    Adapters = {a1, a2}
    Receivers = {r1}
    Expired = expired
    Values = {0, 1}
    Default = 0
    MaxAdapters = 2
    MaxReceivers = 2
    MaxDepth = 3
SYMMETRY Symmetry
INVARIANTS TypeOK PeersCurrent ReceiversCurrent NoOverrun
CHECK_DEADLOCK FALSE
