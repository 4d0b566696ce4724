SPECIFICATION RenewalsSpec
CONSTANTS
    beginners = beginners
    improvers = improvers
    Students = {s1}
    Courses = {beginners, improvers}
    Copies = 1
    Requests = {r1, r2}
    Unscoped = {}
    Endpoints = {"create_enrollment", "update_enrollment", "bulk_enroll", "delete_enrollment"}
    BirthStates = {"active", "enrolled"}
    Forced = {FALSE}
    Clashing = {}
    Limits = {}
    Plans = {}
    FirstLimit = 1
    FirstPlan = 2
    Nobody = Nobody
    Asks = {a1, a2}
    Level <- MCLevel
SYMMETRY Symmetry
INVARIANTS RenewalsTypeOK OnePending ApprovedIsSeated
PROPERTIES OneDoor
CHECK_DEADLOCK FALSE
