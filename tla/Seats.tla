------------------------------- MODULE Seats --------------------------------
(***************************************************************************)
(* Who holds a seat: the enrollment and course endpoints of one academy,   *)
(* run concurrently against Postgres at READ COMMITTED.                    *)
(*                                                                         *)
(* A request is one HTTP request with a database session of its own.  It   *)
(* reads committed rows, may wait for the two row locks the code takes     *)
(* (SELECT ... FOR UPDATE on the academy and on the course), and writes    *)
(* when it commits.  Between any two statements other requests may run, so *)
(* every handler is cut at the statements that matter: what it reads       *)
(* without a lock, each lock it waits for, and its commit.                 *)
(*                                                                         *)
(* A matricula is the tuple <<student, course, n>>: the n-th one that      *)
(* student ever had in that course.                                        *)
(***************************************************************************)
EXTENDS Integers, FiniteSets, Lifecycles

CONSTANTS
    Students,     \* the academy's students
    Courses,      \* its courses
    Copies,       \* matriculas one student may ever have in one course: 1..Copies
    Requests,     \* requests that may be in flight at once
    Unscoped,     \* the requests made by a superadmin, who has no academy
    Endpoints,    \* the endpoints in play
    BirthStates,  \* the opening states the forms in play ask for
    Forced,       \* the values of the `force` parameter in play
    Clashing,     \* the sets {c, d} of courses whose timetables overlap
    Limits,       \* the values an admin may write to max_students
    Plans,        \* the quotas of the plans on sale
    FirstLimit,   \* max_students of every course when the model starts
    FirstPlan,    \* max_active_students of the academy when the model starts
    Nobody        \* the holder of a free lock

AllEndpoints ==
    {"create_enrollment", "update_enrollment", "bulk_enroll", "delete_enrollment",
     "create_grade", "update_course", "change_course_status", "delete_course",
     "activate_plan", "update_tenant"}

\* The endpoints that write the status of matriculas.
SeatEndpoints == {"create_enrollment", "update_enrollment", "bulk_enroll"}

ASSUME SeatsAssumption ==
    /\ IsFiniteSet(Students)
    /\ IsFiniteSet(Courses)
    /\ Copies \in Nat
    /\ Unscoped \subseteq Requests
    /\ Endpoints \subseteq AllEndpoints
    /\ BirthStates \subseteq OpeningStates
    /\ Forced \subseteq BOOLEAN
    /\ Limits \subseteq Nat
    /\ Plans \subseteq Nat
    /\ FirstLimit \in Nat
    /\ FirstPlan \in Nat
    /\ Nobody \notin Requests

VARIABLES
    status,       \* status[e]: the committed status of matricula e
    recorded,     \* the matriculas a grade was ever written on
    courseStatus, \* courseStatus[c]: the committed status of course c
    maxStudents,  \* maxStudents[c]: its committed capacity
    plan,         \* the committed max_active_students of the academy
    tenantLock,   \* the request that holds the academy's row
    courseLock,   \* courseLock[c]: the request that holds the course's row
    tx            \* tx[r]: what request r has read and is about to write

tables == <<status, recorded, courseStatus, maxStudents, plan>>
locks == <<tenantLock, courseLock>>
vars == <<tables, locks, tx>>

-----------------------------------------------------------------------------
(* Rows and the questions asked of them.                                   *)

Rows == Students \X Courses \X (1..Copies)
StudentOf(e) == e[1]
CourseOf(e) == e[2]

\* "unborn" has not been inserted yet, "deleted" was.
RowStatus == EnrollmentStatus \cup {"unborn", "deleted"}
Present(e) == status[e] \in EnrollmentStatus

\* The seats of course c that are held.
SeatsTaken(c) == {e \in Rows : CourseOf(e) = c /\ status[e] \in OccupiesSeat}

\* The students who hold a seat of the plan; `own` is what the asking
\* transaction has inserted and not committed.
Holders(own) ==
    {s \in Students : \E e \in Rows : StudentOf(e) = s /\ (status[e] \in OccupiesSeat \/ e \in own)}

\* Mutant: the last place of the plan is sold twice.
QuotaOneTooMany(s, own) == s \in Holders(own) \/ Cardinality(Holders(own)) <= plan

QuotaAllows(s, own) == s \in Holders(own) \/ Cardinality(Holders(own)) + 1 <= plan

\* The student already has a matricula in the course that was not withdrawn.
AlreadyEnrolled(s, c) ==
    \E e \in Rows : StudentOf(e) = s /\ CourseOf(e) = c /\ Present(e) /\ status[e] # "withdrawn"

\* Mutant: only the seats not yet confirmed are looked at.
ClashWithEnrolled(s, c, own) ==
    \E e \in Rows : StudentOf(e) = s /\ status[e] = "enrolled" /\ {c, CourseOf(e)} \in Clashing

\* student_schedule_conflicts: a seat in a course that overlaps with c.
TimetableClash(s, c, own) ==
    \E e \in Rows : /\ StudentOf(e) = s
                    /\ CourseOf(e) # c
                    /\ status[e] \in OccupiesSeat \/ e \in own
                    /\ {c, CourseOf(e)} \in Clashing

\* A grade or an attendance mark is written on it.
HasRecord(e) == e \in recorded

\* Mutant: only the matriculas that hold a seat are counted.
SeatsHeld(c) == SeatsTaken(c) # {}

\* The course has a matricula, in whatever status.
HasEnrollments(c) == \E e \in Rows : CourseOf(e) = c /\ Present(e)

\* Mutant: a student who has not confirmed is overlooked.
NobodyActive(c) == \A e \in SeatsTaken(c) : status[e] # "active"

\* draft and archived are for courses with no seat held.
MayShelve(c) == SeatsTaken(c) = {}

\* Mutant: a PATCH never asks for a seat.
NeverTakesSeat(current, target) == FALSE

\* The PATCH brings the matricula back to the room.
TakesSeat(current, target) == target \in OccupiesSeat /\ current \notin OccupiesSeat

\* The row the next INSERT for (s, c) creates.
NextRow(s, c) ==
    {e \in Rows : /\ StudentOf(e) = s /\ CourseOf(e) = c /\ status[e] = "unborn"
                  /\ \A f \in Rows : StudentOf(f) = s /\ CourseOf(f) = c /\ status[f] = "unborn"
                                        => e[3] <= f[3]}

\* The partial unique index on (student, course) of the rows not withdrawn.
UniqueIndexHolds(st) ==
    \A e, f \in Rows : /\ e # f
                       /\ StudentOf(e) = StudentOf(f) /\ CourseOf(e) = CourseOf(f)
                       /\ st[e] \in EnrollmentStatus \ {"withdrawn"}
                       => st[f] \notin EnrollmentStatus \ {"withdrawn"}

-----------------------------------------------------------------------------
(* Transactions.  `at` is where a request stands:                          *)
(*   idle    no request                                                    *)
(*   quota   about to lock the academy's row and count its students        *)
(*   seat    about to lock the course's row and check the seat             *)
(*   batch   bulk_enroll, with its course locked, between two students     *)
(*   commit  about to write `writes` with the value `to`                   *)

Points == {"idle", "quota", "seat", "batch", "commit"}

Transactions ==
    [op : AllEndpoints \cup {"none"}, at : Points, course : Courses \cup {Nobody},
     students : SUBSET Students, writes : SUBSET Rows,
     to : EnrollmentStatus \cup CourseStatus \cup {"none"}, taken : Nat, limit : Nat]

NoTx == [op |-> "none", at |-> "idle", course |-> Nobody, students |-> {}, writes |-> {},
         to |-> "none", taken |-> 0, limit |-> 0]

\* A request arrives: `t` is what it knows after its unlocked reads.
Begin(r, t) ==
    /\ t.op \in Endpoints
    /\ tx[r] = NoTx
    /\ tx' = [tx EXCEPT ![r] = t]
    /\ UNCHANGED <<tables, locks>>

\* Mutant: the connection goes back to the pool with its transaction open.
EndKeepingCourse(r) ==
    /\ tx' = [tx EXCEPT ![r] = NoTx]
    /\ tenantLock' = IF tenantLock = r THEN Nobody ELSE tenantLock
    /\ UNCHANGED courseLock

\* COMMIT and ROLLBACK both end the request and free its row locks.
End(r) ==
    /\ tx' = [tx EXCEPT ![r] = NoTx]
    /\ tenantLock' = IF tenantLock = r THEN Nobody ELSE tenantLock
    /\ courseLock' = [c \in Courses |-> IF courseLock[c] = r THEN Nobody ELSE courseLock[c]]

Rollback(r) == End(r) /\ UNCHANGED tables

\* Mutant: SELECT without FOR UPDATE.
NoForUpdate(lock, r) == TRUE

Free(lock, r) == lock \in {Nobody, r}

\* Where a request that takes a seat goes first: a superadmin has no quota.
FirstLock(r) == IF r \in Unscoped THEN "seat" ELSE "quota"

-----------------------------------------------------------------------------
(* Enrolment endpoints.                                                    *)

create_enrollment(r) ==
    \E s \in Students, c \in Courses, st \in BirthStates :
        Begin(r, [NoTx EXCEPT !.op = "create_enrollment",
                              !.at = FirstLock(r), !.course = c, !.students = {s}, !.to = st])

\* The row is read without a lock, and the transition judged on what was read.
\* A PATCH that asks for the status it read writes nothing.
update_enrollment(r) ==
    \E e \in Rows, target \in EnrollmentStatus :
        /\ Present(e)
        /\ EnrollmentTransitionAllowed(status[e], target)
        /\ Begin(r, [NoTx EXCEPT !.op = "update_enrollment",
                                 !.at = IF TakesSeat(status[e], target) THEN FirstLock(r)
                                        ELSE "commit",
                                 !.course = CourseOf(e), !.students = {StudentOf(e)},
                                 !.writes = IF target = status[e] THEN {} ELSE {e},
                                 !.to = target])

\* check_tenant_student_quota, for the endpoints that take one seat.
check_tenant_student_quota(r) ==
    /\ tx[r].at = "quota"
    /\ Free(tenantLock, r)
    /\ \E s \in tx[r].students :
        \/ /\ QuotaAllows(s, {})
           /\ tenantLock' = r
           /\ tx' = [tx EXCEPT ![r].at = "seat"]
           /\ UNCHANGED <<tables, courseLock>>
        \/ ~QuotaAllows(s, {}) /\ Rollback(r)

\* The rest of open_enrollment, from the course lock on: `seen` and `max` are
\* the status and the capacity of the course row the session holds.
open_enrollment(r, seen, max, forced) ==
    LET c == tx[r].course IN
    /\ tx[r].at = "seat"
    /\ Free(courseLock[c], r)
    /\ \E s \in tx[r].students, force \in forced :
        LET admitted == /\ seen \in AcceptsEnrolment
                        /\ ~AlreadyEnrolled(s, c)
                        /\ Cardinality(SeatsTaken(c)) < max
                        /\ force \/ ~TimetableClash(s, c, {})
        IN \/ /\ admitted
              /\ \E e \in NextRow(s, c) : tx' = [tx EXCEPT ![r].at = "commit", ![r].writes = {e}]
              /\ courseLock' = [courseLock EXCEPT ![c] = r]
              /\ UNCHANGED <<tables, tenantLock>>
           \/ ~(admitted /\ NextRow(s, c) # {}) /\ Rollback(r)

OpenEnrollment(r) ==
    /\ tx[r].op = "create_enrollment"
    /\ open_enrollment(r, courseStatus[tx[r].course], maxStudents[tx[r].course], Forced)

\* Taking a seat back: capacity without the row itself, and the timetable.
ReactivateEnrollment(r) ==
    LET c == tx[r].course IN
    /\ tx[r].op = "update_enrollment"
    /\ tx[r].at = "seat"
    /\ Free(courseLock[c], r)
    /\ \E s \in tx[r].students, force \in Forced :
        LET admitted == /\ courseStatus[c] \in CourseStatus
                        /\ Cardinality(SeatsTaken(c) \ tx[r].writes) < maxStudents[c]
                        /\ force \/ ~TimetableClash(s, c, {})
        IN \/ /\ admitted
              /\ tx' = [tx EXCEPT ![r].at = "commit"]
              /\ courseLock' = [courseLock EXCEPT ![c] = r]
              /\ UNCHANGED <<tables, tenantLock>>
           \/ ~admitted /\ Rollback(r)

\* The course comes first here, and each student then needs the academy's row.
bulk_enroll(r) ==
    \E S \in SUBSET Students, c \in Courses :
        Begin(r, [NoTx EXCEPT !.op = "bulk_enroll",
                              !.at = "seat", !.course = c, !.students = S, !.to = "active"])

BulkLockCourse(r) ==
    LET c == tx[r].course IN
    /\ tx[r].op = "bulk_enroll"
    /\ tx[r].at = "seat"
    /\ Free(courseLock[c], r)
    /\ \/ /\ courseStatus[c] \in AcceptsEnrolment
          /\ courseLock' = [courseLock EXCEPT ![c] = r]
          /\ tx' = [tx EXCEPT ![r].at = "batch", ![r].taken = Cardinality(SeatsTaken(c))]
          /\ UNCHANGED <<tables, tenantLock>>
       \/ courseStatus[c] \notin AcceptsEnrolment /\ Rollback(r)

\* One student of the batch: seated in the transaction, or skipped.
BulkSeat(r) ==
    LET c == tx[r].course
        own == tx[r].writes
    IN
    /\ tx[r].at = "batch"
    /\ r \in Unscoped \/ Free(tenantLock, r)
    /\ tenantLock' = IF r \in Unscoped THEN tenantLock ELSE r
    /\ \E s \in tx[r].students, force \in Forced :
        LET admitted == /\ r \in Unscoped \/ QuotaAllows(s, own)
                        /\ ~AlreadyEnrolled(s, c)
                        /\ tx[r].taken < maxStudents[c]
                        /\ force \/ ~TimetableClash(s, c, own)
        IN \/ /\ admitted
              /\ \E e \in NextRow(s, c) :
                    tx' = [tx EXCEPT ![r].students = @ \ {s}, ![r].writes = @ \cup {e},
                                     ![r].taken = @ + 1]
           \/ /\ ~(admitted /\ NextRow(s, c) # {})
              /\ tx' = [tx EXCEPT ![r].students = @ \ {s}]
    /\ UNCHANGED <<tables, courseLock>>

BulkDone(r) ==
    /\ tx[r].at = "batch"
    /\ tx[r].students = {}
    /\ tx' = [tx EXCEPT ![r].at = "commit"]
    /\ UNCHANGED <<tables, locks>>

\* The flush and commit of the endpoints above.  An UPDATE of a row that is
\* gone, or one the unique index refuses, rolls the request back.
CommitEnrollments(r) ==
    LET written == [e \in Rows |-> IF e \in tx[r].writes THEN tx[r].to ELSE status[e]]
        survives == /\ \A e \in tx[r].writes : status[e] # "deleted"
                    /\ UniqueIndexHolds(written)
    IN
    /\ tx[r].op \in SeatEndpoints
    /\ tx[r].at = "commit"
    /\ \/ /\ survives
          /\ status' = written
          /\ End(r)
          /\ UNCHANGED <<recorded, courseStatus, maxStudents, plan>>
       \/ ~survives /\ Rollback(r)

\* Refused, on a count read without a lock, once there are grades behind it.
delete_enrollment(r) ==
    \E e \in Rows :
        /\ Present(e)
        /\ ~HasRecord(e)
        /\ Begin(r, [NoTx EXCEPT !.op = "delete_enrollment", !.at = "commit", !.writes = {e}])

CommitDeleteEnrollment(r) ==
    /\ tx[r].op = "delete_enrollment"
    /\ status' = [e \in Rows |-> IF e \in tx[r].writes THEN "deleted" ELSE status[e]]
    /\ End(r)
    /\ UNCHANGED <<recorded, courseStatus, maxStudents, plan>>

\* A teacher's grade on a live matricula (routers/grades.py), in one step.
create_grade(r) ==
    \E e \in Rows :
        /\ "create_grade" \in Endpoints
        /\ tx[r] = NoTx
        /\ status[e] \in OccupiesSeat
        /\ recorded' = recorded \cup {e}
        /\ UNCHANGED <<status, courseStatus, maxStudents, plan, locks, tx>>

-----------------------------------------------------------------------------
(* Catalogue and plan endpoints.  None of them locks a row to read it; the  *)
(* UPDATE at the end waits for whoever holds the row.                      *)

update_course(r) ==
    \E c \in Courses, limit \in Limits :
        /\ courseStatus[c] # "deleted"
        /\ limit # maxStudents[c]
        /\ limit >= Cardinality(SeatsTaken(c))
        /\ Begin(r, [NoTx EXCEPT !.op = "update_course",
                                 !.at = "commit", !.course = c, !.limit = limit])

\* The dates that come with the capacity may push its timetable into a clash.
CommitUpdateCourse(r) ==
    LET c == tx[r].course IN
    /\ tx[r].op = "update_course"
    /\ Free(courseLock[c], r)
    /\ \/ /\ courseStatus[c] # "deleted"
          /\ maxStudents' = [maxStudents EXCEPT ![c] = tx[r].limit]
          /\ End(r)
          /\ UNCHANGED <<status, recorded, courseStatus, plan>>
       \/ Rollback(r)

\* A course of the model has dates, a teacher and a timetable: nothing is
\* missing for it to open.
change_course_status(r) ==
    \E c \in Courses, target \in CourseStatus :
        /\ courseStatus[c] \in CourseStatus \ {target}
        /\ CourseTransitionAllowed(courseStatus[c], target)
        /\ target \in {"draft", "archived"} => MayShelve(c)
        /\ Begin(r, [NoTx EXCEPT !.op = "change_course_status",
                                 !.at = "commit", !.course = c, !.to = target])

\* An active course needs its sessions, and one of them may clash.
CommitCourseStatus(r) ==
    LET c == tx[r].course IN
    /\ tx[r].op = "change_course_status"
    /\ Free(courseLock[c], r)
    /\ \/ /\ courseStatus[c] # "deleted"
          /\ courseStatus' = [courseStatus EXCEPT ![c] = tx[r].to]
          /\ End(r)
          /\ UNCHANGED <<status, recorded, maxStudents, plan>>
       \/ /\ courseStatus[c] = "deleted" \/ tx[r].to \in CourseIsActive
          /\ Rollback(r)

\* Refused while the course has any matricula, in whatever status.
delete_course(r) ==
    \E c \in Courses :
        /\ courseStatus[c] # "deleted"
        /\ ~HasEnrollments(c)
        /\ Begin(r, [NoTx EXCEPT !.op = "delete_course", !.at = "commit", !.course = c])

\* The DELETE cascades to every matricula the course has by then.
CommitDeleteCourse(r) ==
    LET c == tx[r].course IN
    /\ tx[r].op = "delete_course"
    /\ Free(courseLock[c], r)
    /\ courseStatus' = [courseStatus EXCEPT ![c] = "deleted"]
    /\ status' = [e \in Rows |-> IF CourseOf(e) = c /\ Present(e) THEN "deleted" ELSE status[e]]
    /\ End(r)
    /\ UNCHANGED <<recorded, maxStudents, plan>>

\* services.tenant_plans: refused when the academy has more students than fit.
activate_plan(r) ==
    \E p \in Plans \ {plan} :
        /\ Cardinality(Holders({})) <= p
        /\ Begin(r, [NoTx EXCEPT !.op = "activate_plan", !.at = "commit", !.limit = p])

\* The superadmin writes the quota by hand: nothing is counted.
update_tenant(r) ==
    \E p \in Plans \ {plan} : Begin(r, [NoTx EXCEPT !.op = "update_tenant",
                                           !.at = "commit", !.limit = p])

\* Mutant: what is left of the plan is stored, not the plan.
QuotaLeft(r) == tx[r].limit - Cardinality(Holders({}))

NewQuota(r) == tx[r].limit

CommitTenant(r) ==
    /\ tx[r].op \in {"activate_plan", "update_tenant"}
    /\ Free(tenantLock, r)
    /\ plan' = NewQuota(r)
    /\ End(r)
    /\ UNCHANGED <<status, recorded, courseStatus, maxStudents>>

-----------------------------------------------------------------------------
(* A request may end before its commit: its process dies, its connection   *)
(* is lost, or Postgres aborts it, as it does with one of two requests     *)
(* that wait for each other.                                               *)

Fail(r) == tx[r] # NoTx /\ Rollback(r)

WaitsFor(r, q) ==
    /\ r # q
    /\ \/ tx[r].at = "quota" /\ tenantLock = q
       \/ tx[r].at = "batch" /\ r \notin Unscoped /\ tenantLock = q /\ tx[r].students # {}
       \/ tx[r].at = "seat" /\ courseLock[tx[r].course] = q

Deadlocked(r) == \E q \in Requests : WaitsFor(r, q) /\ WaitsFor(q, r)

AbortDeadlock(r) == Deadlocked(r) /\ Rollback(r)

-----------------------------------------------------------------------------

Init ==
    /\ status = [e \in Rows |-> "unborn"]
    /\ recorded = {}
    /\ courseStatus = [c \in Courses |-> "open"]
    /\ maxStudents = [c \in Courses |-> FirstLimit]
    /\ plan = FirstPlan
    /\ tenantLock = Nobody
    /\ courseLock = [c \in Courses |-> Nobody]
    /\ tx = [r \in Requests |-> NoTx]

Arrive(r) ==
    \/ create_enrollment(r) \/ update_enrollment(r) \/ bulk_enroll(r) \/ delete_enrollment(r)
    \/ create_grade(r) \/ update_course(r) \/ change_course_status(r) \/ delete_course(r)
    \/ activate_plan(r) \/ update_tenant(r)

TakeLock(r) ==
    \/ check_tenant_student_quota(r) \/ OpenEnrollment(r) \/ ReactivateEnrollment(r)
    \/ BulkLockCourse(r) \/ BulkSeat(r)

Finish(r) ==
    \/ BulkDone(r) \/ CommitEnrollments(r) \/ CommitDeleteEnrollment(r)
    \/ CommitUpdateCourse(r) \/ CommitCourseStatus(r) \/ CommitDeleteCourse(r)
    \/ CommitTenant(r)

Step(r) == TakeLock(r) \/ Finish(r) \/ Fail(r)

Next == \E r \in Requests : Arrive(r) \/ Step(r)

Spec == Init /\ [][Next]_vars

\* A request that can go on does (WF); Postgres queues the waiters of a row
\* lock, so one that keeps becoming free is granted in the end (SF).
FairSpec ==
    /\ Spec
    /\ \A r \in Requests : SF_vars(TakeLock(r)) /\ SF_vars(Finish(r)) /\ WF_vars(AbortDeadlock(r))

-----------------------------------------------------------------------------
(* Properties.                                                             *)

\* The tables hold rows of their own types, a lock is free or has one holder,
\* and a transaction knows only rows, students and courses that exist.
TypeOK ==
    /\ status \in [Rows -> RowStatus]
    /\ recorded \subseteq Rows
    /\ courseStatus \in [Courses -> CourseStatus \cup {"deleted"}]
    /\ maxStudents \in [Courses -> Nat]
    /\ plan \in Nat
    /\ tenantLock \in Requests \cup {Nobody}
    /\ courseLock \in [Courses -> Requests \cup {Nobody}]
    /\ tx \in [Requests -> Transactions]
    /\ \A r \in Requests : tx[r].op \in SeatEndpoints => tx[r].to \in EnrollmentStatus
    /\ \A r \in Requests : tx[r].op = "change_course_status" => tx[r].to \in CourseStatus

\* "Lock the course row so concurrent enrollments cannot exceed max_students"
\* (routers/enrollments.py:150): the seats held never exceed the capacity.
CapacityKept == \A c \in Courses : Cardinality(SeatsTaken(c)) <= maxStudents[c]

\* "The tenant row is locked so two simultaneous enrollments cannot both take
\* the last place" (services/enrollments.py:61): the distinct students who hold
\* a seat fit the plan of the academy.
QuotaKept == Cardinality(Holders({})) <= plan

\* A student never holds two seats whose timetables overlap
\* (routers/enrollments.py:193), in whatever order the two seats were asked for.
NoDoubleBooking ==
    \A e, f \in Rows : /\ StudentOf(e) = StudentOf(f)
                       /\ status[e] \in OccupiesSeat /\ status[f] \in OccupiesSeat
                       => {CourseOf(e), CourseOf(f)} \notin Clashing

\* A new matricula is born only in a course that accepts it at the moment the
\* row is committed, not only when it was checked (routers/enrollments.py:157).
BornWhereOpen ==
    [][\A e \in Rows : status[e] = "unborn" /\ status'[e] # "unborn"
                         => courseStatus[CourseOf(e)] \in AcceptsEnrolment]_vars

\* A course goes back to draft, or to the archive, only with no seat held
\* (services/courses.py:92-117).
ShelvedEmpty ==
    [][\A c \in Courses : /\ courseStatus'[c] \in {"draft", "archived"}
                           /\ courseStatus'[c] # courseStatus[c]
                           => SeatsTaken(c) = {}]_vars

\* "Taking a seat back re-runs the checks that guarded the original enrollment"
\* (routers/enrollments.py:336), so nobody ever comes to sit in a course that was
\* sent back to draft or archived.
NoSeatOnTheShelf ==
    \A e \in Rows : status[e] \in OccupiesSeat
                     => courseStatus[CourseOf(e)] \notin {"draft", "archived"}

\* "Una matricula con expediente detras no se borra" (routers/enrollments.py:403):
\* a matricula with a grade behind it is never deleted, by itself or with its course.
RecordsKept == \A e \in recorded : status[e] # "deleted"

\* No request is left waiting for a row for ever: each one ends, by a commit,
\* a refusal or an abort.
RequestsFinish == \A r \in Requests : tx[r] # NoTx ~> tx[r] = NoTx

-----------------------------------------------------------------------------
(* Why BornWhereOpen and CapacityKept hold: what the row of the course      *)
(* protects, and the two writes that are judged without it.                 *)

\* r has found a free seat for a new matricula and has not committed it.
Seating(r) ==
    \/ tx[r].at = "batch"
    \/ tx[r].at = "commit" /\ tx[r].op \in {"create_enrollment", "bulk_enroll"}

\* From the check to the commit, the course row is locked and stays open.
SeatLocked ==
    \A r \in Requests : Seating(r) =>
        /\ tx[r].course \in Courses
        /\ courseLock[tx[r].course] = r
        /\ courseStatus[tx[r].course] \in AcceptsEnrolment
        /\ \A e \in tx[r].writes : CourseOf(e) = tx[r].course

\* A PATCH and a DELETE write a row that was once inserted.
WritesExisting ==
    \A r \in Requests : tx[r].op \in {"update_enrollment", "delete_enrollment"} =>
        /\ tx[r].at # "batch"
        /\ \A e \in tx[r].writes : status[e] # "unborn"

\* Until its course is locked, a new enrollment knows the course and no row.
NoRowYet ==
    \A r \in Requests : /\ tx[r].op \in {"create_enrollment", "bulk_enroll"}
                        /\ tx[r].at \in {"quota", "seat"}
                        => tx[r].course \in Courses /\ tx[r].writes = {}

BirthInv == SeatLocked /\ WritesExisting /\ NoRowYet

\* r is about to write, by a PATCH, a status that holds a seat.
Patching(r) ==
    tx[r].op = "update_enrollment" /\ tx[r].at = "commit" /\ tx[r].to \in OccupiesSeat

\* The seats held, with those r is about to commit, fit the course.
Fits(r) ==
    Cardinality(SeatsTaken(tx[r].course) \cup tx[r].writes) <= maxStudents[tx[r].course]

HoldsCourse(r) == courseLock[tx[r].course] = r

\* A PATCH writes at most one row, of the course it names.
PatchTied ==
    \A r \in Requests : tx[r].op = "update_enrollment" =>
        /\ tx[r].course \in Courses
        /\ \A e \in tx[r].writes : CourseOf(e) = tx[r].course
        /\ \A e, f \in tx[r].writes : e = f

\* What r inserts was counted under the lock of the course; what it patches was
\* counted there too, or holds its seat already.
SeatReserved ==
    \A r \in Requests :
        /\ tx[r].at = "batch" =>
              /\ Cardinality(SeatsTaken(tx[r].course) \cup tx[r].writes) <= tx[r].taken
              /\ tx[r].taken <= maxStudents[tx[r].course]
        /\ Seating(r) /\ tx[r].at = "commit" => Fits(r)
        /\ Patching(r) => \/ HoldsCourse(r) /\ Fits(r)
                          \/ tx[r].writes \subseteq SeatsTaken(tx[r].course)

\* A capacity about to be written holds the seats there are.
EditFits ==
    \A r \in Requests : tx[r].op = "update_course" =>
        /\ tx[r].at = "commit" /\ tx[r].course \in Courses
        /\ Cardinality(SeatsTaken(tx[r].course)) <= tx[r].limit

CapacityInv == SeatLocked /\ PatchTied /\ SeatReserved /\ EditFits /\ CapacityKept

\* Nobody takes the seat from under a PATCH that was let through because its
\* matricula held one, and nobody comes to sit between the count of a new
\* capacity and its commit.
CapacityApart ==
    /\ \A r \in Requests, e \in Rows :
        Patching(r) /\ ~HoldsCourse(r) /\ e \in tx[r].writes /\ status[e] \in OccupiesSeat
            => status'[e] \in OccupiesSeat
    /\ \A r \in Requests, e \in Rows :
        tx[r].op = "update_course" /\ CourseOf(e) = tx[r].course /\ status'[e] \in OccupiesSeat
            => status[e] \in OccupiesSeat

-----------------------------------------------------------------------------
(* Why RecordsKept holds, and when: a deletion is judged on a count of      *)
(* grades read without a lock, so its word is good only until someone       *)
(* writes a grade.                                                          *)

\* r has found nothing behind what it is about to delete.
Deleting(r) == tx[r].op \in {"delete_enrollment", "delete_course"}

\* Between the check of a deletion and its commit, no grade is written on what
\* is about to be deleted.
GradesApart ==
    \A r \in Requests, e \in recorded' \ recorded :
        /\ tx[r].op = "delete_enrollment" => e \notin tx[r].writes
        /\ tx[r].op = "delete_course" => CourseOf(e) # tx[r].course

\* A deletion in progress takes no matricula with a grade behind it.
DeletesNoRecord ==
    \A r \in Requests : Deleting(r) =>
        /\ tx[r].at = "commit"
        /\ tx[r].op = "delete_enrollment" => tx[r].writes \cap recorded = {}
        /\ tx[r].op = "delete_course" => \A e \in recorded : CourseOf(e) # tx[r].course

\* What was graded was seated, and from there a matricula only changes status.
RecordsPresent == \A e \in recorded : Present(e)

RecordsInv == RecordsPresent /\ DeletesNoRecord

-----------------------------------------------------------------------------
(* Why ShelvedEmpty holds, and when: the seats are counted without a lock   *)
(* here too.                                                                *)

\* r has found no seat held in the course it is about to send to the shelf.
Shelving(r) == tx[r].op = "change_course_status" /\ tx[r].to \in {"draft", "archived"}

\* Between that count and the commit, nobody comes to sit in the course.
SeatsApart ==
    \A r \in Requests, e \in Rows :
        Shelving(r) /\ CourseOf(e) = tx[r].course /\ status'[e] \in OccupiesSeat
            => status[e] \in OccupiesSeat

ShelvesEmpty ==
    \A r \in Requests : tx[r].op = "change_course_status" =>
        /\ tx[r].at = "commit"
        /\ Shelving(r) => SeatsTaken(tx[r].course) = {}

=============================================================================
