SPECIFICATION Spec
CONSTANTS
    Students = {s1, s2}
    Courses = {c1}
    Copies = 2
    Requests = {r1}
    Unscoped = {}
    Endpoints = {"create_enrollment", "update_enrollment", "bulk_enroll", "delete_enrollment", "create_grade", "update_course", "change_course_status", "delete_course", "activate_plan", "update_tenant"}
    BirthStates = {"enrolled", "active"}
    Forced = {FALSE}
    Clashing = {}
    Limits = {1, 2}
    Plans = {1, 2}
    FirstLimit = 1
    FirstPlan = 1
    Nobody = Nobody
SYMMETRY Symmetry
INVARIANTS TypeOK CapacityKept RecordsKept
PROPERTIES ShelvedEmpty
CHECK_DEADLOCK FALSE
