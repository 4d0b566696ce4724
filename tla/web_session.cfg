SPECIFICATION FairSpec
CONSTANTS
    Tabs = {t1, t2}
    Users = {ann}
    MaxPairs = 2
    MaxVersion = 1
    WebLocks = TRUE
    Nobody = Nobody
INVARIANTS NoFalseTheft
PROPERTIES RefusedGetsItsTurn
CHECK_DEADLOCK FALSE
