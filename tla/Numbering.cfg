SPECIFICATION FairSpec
CONSTANTS
    MaxKinds = 4
    MaxCount = 3
    Tables <- MCTables
INVARIANTS TypeOK Inside RightAnswer
PROPERTIES Returns
CHECK_DEADLOCK FALSE
