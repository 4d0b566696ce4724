SPECIFICATION Spec
CONSTANTS
    Students = {s1, s2}
    Courses = {c1}
    Copies = 1
    Requests = {r1, r2}
    Unscoped = {}
    Endpoints = {"create_enrollment", "update_enrollment", "bulk_enroll", "delete_enrollment"}
    BirthStates = {"enrolled", "active"}
    Forced = {FALSE}
    Clashing = {}
    Limits = {}
    Plans = {}
    FirstLimit = 1
    FirstPlan = 2
    Nobody = Nobody
INVARIANT CapacityKept
CHECK_DEADLOCK FALSE
