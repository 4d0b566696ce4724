SPECIFICATION Spec
CONSTANTS
    mA = mA
    x1 = x1
    x2 = x2
    p1 = p1
    p2 = p2
    Matriculas = {mA}
    Home <- HomeA
    Sessions = {x1, x2}
    Timetabled = {x1}
    CourseAt <- CourseA
    Date <- Today
    LastDay = 0
    MaxStudents <- CapacityA
    Passes = {p1, p2}
    Validity = 0
    BatchSize = 2
    Patched = {"scheduled", "cancelled"}
    Requests = {r1, r2}
    Endpoints = {"reschedule", "close_register", "reopen_register", "create_attendance", "bulk_attendance", "update_attendance", "delete_attendance"}
    Nobody = Nobody
SYMMETRY Alike
INVARIANTS TypeOK OneCreditPerAbsence HappenedIsRegistered
CHECK_DEADLOCK FALSE
