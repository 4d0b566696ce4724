SPECIFICATION FairSpec
CONSTANTS
    Students = {s1, s2}
    Marks = {present, absent}
    Present = present
    NoMark = NoMark
    MaxTaps = 2
    MaxOthers = 2
INVARIANTS LastTapStands NothingStuck
PROPERTIES TapsSettle
CHECK_DEADLOCK FALSE
