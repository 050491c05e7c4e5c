SPECIFICATION Spec
CONSTANTS
    SeqMod = 65536
    Jump = 50
    Start = 32764
    AdapterId = 0
    MaxSends = 6
    MaxLag = 1
    MaxLoss = 0
    Resets = FALSE
PROPERTIES DelayedIgnored
