SPECIFICATION FairSpec
CONSTANTS
    Students = {s1, s2}
    Courses = {c1}
    Copies = 1
    Requests = {r1, r2}
    Unscoped = {}
    Endpoints = {"create_enrollment", "update_enrollment", "bulk_enroll", "delete_enrollment", "change_course_status", "delete_course"}
    BirthStates = {"active"}
    Forced = {FALSE}
    Clashing = {}
    Limits = {}
    Plans = {}
    FirstLimit = 1
    FirstPlan = 2
    Nobody = Nobody
INVARIANTS
PROPERTIES BornWhereOpen RequestsFinish
CHECK_DEADLOCK FALSE
