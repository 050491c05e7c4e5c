SPECIFICATION Spec
CONSTANTS
    SeqMod = 64
    Jump = 5
    Start = 40
    AdapterId = 7
    MaxSends = 150
    MaxLag = 6
    MaxLoss = 20
    Resets = TRUE
INVARIANTS TypeOK StaysRecent
