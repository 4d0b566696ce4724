SPECIFICATION Spec
CONSTANTS
    mA = mA
    x1 = x1
    x2 = x2
    p1 = p1
    p2 = p2
    Matriculas = {mA}
    Home <- HomeA
    Sessions = {x1, x2}
    Timetabled = {x1}
    CourseAt <- CourseB
    Date <- TwoDays
    LastDay = 1
    MaxStudents <- CapacityB
    Passes = {p1, p2}
    Validity = 1
    BatchSize = 0
    Patched = {"scheduled", "cancelled"}
    Requests = {r1, r2}
    Endpoints = {"cancel", "update_session", "ensure_session", "create_makeup_credit", "book_candidate_session", "cancel_makeup_booking", "mark_makeup_visitor", "list_makeups"}
    Nobody = Nobody
SYMMETRY Alike
INVARIANTS NotOverbooked
PROPERTIES ExpiredAfterClass KeepsPassPromise
CHECK_DEADLOCK FALSE
