SPECIFICATION Spec
CONSTANTS
    SeqMod = 65536
    Jump = 50
    Start = 32707
    AdapterId = 0
    MaxSends = 60
    MaxLag = 50
    MaxLoss = 30
    Resets = TRUE
PROPERTIES NeverBackwards FreshAccepted
