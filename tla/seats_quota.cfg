SPECIFICATION Spec
CONSTANTS
    Students = {s1, s2}
    Courses = {c1, c2}
    Copies = 1
    Requests = {r1, r2}
    Unscoped = {}
    Endpoints = {"create_enrollment", "update_enrollment", "bulk_enroll", "delete_enrollment"}
    BirthStates = {"active"}
    Forced = {FALSE}
    Clashing = {{c1, c2}}
    Limits = {}
    Plans = {}
    FirstLimit = 1
    FirstPlan = 1
    Nobody = Nobody
SYMMETRY Symmetry
INVARIANTS QuotaKept NoDoubleBooking
CHECK_DEADLOCK FALSE
