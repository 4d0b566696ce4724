---------------------------- MODULE SeatsProofs -----------------------------
(***************************************************************************)
(* Proofs about the enrollment endpoints, for every set of students,       *)
(* courses and concurrent requests.                                        *)
(***************************************************************************)
EXTENDS Seats, FiniteSetTheorems, TLAPS

-----------------------------------------------------------------------------
(* Rows: finite, and each belongs to one student and one course.           *)

\* There are finitely many matriculas, so a count of seats is a number.
LEMMA RowsFinite == IsFiniteSet(Rows)
<1> DEFINE f == [e \in Rows |-> <<<<e[1], e[2]>>, e[3]>>]
           T == (Students \X Courses) \X (1..Copies)
<1>1. IsFiniteSet(T)
  <2>1. IsFiniteSet(1..Copies)
    BY FS_Interval, SeatsAssumption
  <2>2. IsFiniteSet(Students \X Courses)
    BY FS_Product, SeatsAssumption
  <2>3. QED
    BY <2>1, <2>2, FS_Product
<1>2. f \in Injection(Rows, T)
  <2>1. f \in [Rows -> T]
    BY DEF Rows
  <2>2. ASSUME NEW a \in Rows, NEW b \in Rows, f[a] = f[b]
        PROVE  a = b
    BY <2>2 DEF Rows
  <2>3. QED
    BY <2>1, <2>2 DEF Injection, IsInjective
<1>3. QED
  BY <1>1, <1>2, FS_Injection

\* The student and the course of a matricula are the academy's.
LEMMA RowParts ==
  ASSUME NEW e \in Rows
  PROVE  StudentOf(e) \in Students /\ CourseOf(e) \in Courses
BY DEF Rows, StudentOf, CourseOf

\* Every set of matriculas has a natural number of them.
LEMMA RowCount ==
  ASSUME NEW S \in SUBSET Rows
  PROVE  IsFiniteSet(S) /\ Cardinality(S) \in Nat
BY RowsFinite, FS_Subset, FS_CardinalityType

-----------------------------------------------------------------------------
(* Type correctness.                                                       *)

\* A request that arrives with a well-formed transaction keeps the types.
LEMMA BeginType ==
  ASSUME TypeOK, NEW r \in Requests, NEW t \in Transactions, Begin(r, t),
         t.op \in SeatEndpoints => t.to \in EnrollmentStatus,
         t.op = "change_course_status" => t.to \in CourseStatus
  PROVE  TypeOK'
BY DEF TypeOK, Begin, tables, locks

\* Ending a request keeps the types of the locks and of the transactions.
LEMMA EndType ==
  ASSUME TypeOK, NEW r \in Requests, End(r)
  PROVE  /\ tenantLock' \in Requests \cup {Nobody}
         /\ courseLock' \in [Courses -> Requests \cup {Nobody}]
         /\ tx' \in [Requests -> Transactions]
         /\ \A q \in Requests : tx'[q].op \in SeatEndpoints => tx'[q].to \in EnrollmentStatus
         /\ \A q \in Requests : tx'[q].op = "change_course_status" => tx'[q].to \in CourseStatus
<1>1. /\ NoTx \in Transactions
      /\ NoTx.op = "none"
  BY DEF NoTx, Transactions, Points
<1>2. QED
  BY <1>1 DEF TypeOK, End, SeatEndpoints

LEMMA RollbackType ==
  ASSUME TypeOK, NEW r \in Requests, Rollback(r)
  PROVE  TypeOK'
BY EndType DEF TypeOK, Rollback, tables

\* Arrivals only add a well-formed transaction.
LEMMA ArriveType ==
  ASSUME TypeOK, NEW r \in Requests, Arrive(r)
  PROVE  TypeOK'
<1> USE DEF NoTx, Transactions, Points, AllEndpoints, SeatEndpoints
<1>1. CASE create_enrollment(r)
  <2>1. PICK s \in Students, c \in Courses, st \in BirthStates :
            Begin(r, [NoTx EXCEPT !.op = "create_enrollment", !.at = FirstLock(r),
                                  !.course = c, !.students = {s}, !.to = st])
    BY <1>1 DEF create_enrollment
  <2>2. st \in EnrollmentStatus
    BY SeatsAssumption DEF OpeningStates, EnrollmentStatus
  <2>3. QED
    BY <2>1, <2>2, BeginType DEF FirstLock
<1>2. CASE update_enrollment(r)
  BY <1>2, BeginType, RowParts DEF update_enrollment, FirstLock
<1>3. CASE bulk_enroll(r)
  BY <1>3, BeginType DEF bulk_enroll, EnrollmentStatus
<1>4. CASE delete_enrollment(r)
  BY <1>4, BeginType DEF delete_enrollment
<1>5. CASE create_grade(r)
  BY <1>5 DEF create_grade, TypeOK, locks
<1>6. CASE update_course(r)
  BY <1>6, BeginType, SeatsAssumption DEF update_course
<1>7. CASE change_course_status(r)
  BY <1>7, BeginType DEF change_course_status
<1>8. CASE delete_course(r)
  BY <1>8, BeginType DEF delete_course
<1>9. CASE activate_plan(r)
  BY <1>9, BeginType, SeatsAssumption DEF activate_plan
<1>10. CASE update_tenant(r)
  BY <1>10, BeginType, SeatsAssumption DEF update_tenant
<1>11. QED
  BY <1>1, <1>2, <1>3, <1>4, <1>5, <1>6, <1>7, <1>8, <1>9, <1>10 DEF Arrive

\* Taking a lock, being seated in a batch or being refused keeps the types.
LEMMA TakeLockType ==
  ASSUME TypeOK, NEW r \in Requests, TakeLock(r)
  PROVE  TypeOK'
<1>1. CASE check_tenant_student_quota(r)
  BY <1>1, RollbackType DEF check_tenant_student_quota, TypeOK, tables, Transactions, Points
<1>2. CASE OpenEnrollment(r)
  BY <1>2, RollbackType
     DEF OpenEnrollment, open_enrollment, NextRow, TypeOK, tables, Transactions, Points
<1>3. CASE ReactivateEnrollment(r)
  BY <1>3, RollbackType DEF ReactivateEnrollment, TypeOK, tables, Transactions, Points
<1>4. CASE BulkLockCourse(r)
  <2>1. Cardinality(SeatsTaken(tx[r].course)) \in Nat
    BY RowCount DEF SeatsTaken
  <2>2. QED
    BY <1>4, <2>1, RollbackType DEF BulkLockCourse, TypeOK, tables, Transactions, Points
<1>5. CASE BulkSeat(r)
  <2>1. PICK t \in Transactions : /\ tx' = [tx EXCEPT ![r] = t]
                                 /\ t.op = tx[r].op /\ t.to = tx[r].to
    <3>1. ASSUME NEW s, NEW e \in Rows,
                 tx' = [tx EXCEPT ![r].students = @ \ {s}, ![r].writes = @ \cup {e}, ![r].taken = @ + 1]
          PROVE  \E t \in Transactions : /\ tx' = [tx EXCEPT ![r] = t]
                                         /\ t.op = tx[r].op /\ t.to = tx[r].to
      <4> DEFINE t == [tx[r] EXCEPT !.students = @ \ {s}, !.writes = @ \cup {e}, !.taken = @ + 1]
      <4>1. tx[r] \in Transactions
        BY DEF TypeOK
      <4>2. t \in Transactions /\ t.op = tx[r].op /\ t.to = tx[r].to
        <5>1. /\ tx[r].students \ {s} \in SUBSET Students
              /\ tx[r].writes \cup {e} \in SUBSET Rows
              /\ tx[r].taken + 1 \in Nat
          BY <4>1, <3>1 DEF Transactions
        <5>2. QED
          BY <4>1, <5>1 DEF Transactions
      <4>3. tx' = [tx EXCEPT ![r] = t]
        BY <3>1
      <4> QED
        BY <4>2, <4>3
    <3>2. ASSUME NEW s, tx' = [tx EXCEPT ![r].students = @ \ {s}]
          PROVE  \E t \in Transactions : /\ tx' = [tx EXCEPT ![r] = t]
                                         /\ t.op = tx[r].op /\ t.to = tx[r].to
      <4> DEFINE t == [tx[r] EXCEPT !.students = @ \ {s}]
      <4>1. tx[r] \in Transactions
        BY DEF TypeOK
      <4>2. t \in Transactions /\ t.op = tx[r].op /\ t.to = tx[r].to
        BY <4>1 DEF Transactions
      <4>3. tx' = [tx EXCEPT ![r] = t]
        BY <3>2
      <4> QED
        BY <4>2, <4>3
    <3>3. QED
      BY <1>5, <3>1, <3>2 DEF BulkSeat, NextRow
  <2>2. QED
    BY <1>5, <2>1 DEF BulkSeat, TypeOK, tables
<1>6. QED
  BY <1>1, <1>2, <1>3, <1>4, <1>5 DEF TakeLock

\* Commits write statuses, capacities and quotas of the right types.
LEMMA FinishType ==
  ASSUME TypeOK, NEW r \in Requests, Finish(r)
  PROVE  TypeOK'
<1>1. CASE BulkDone(r)
  BY <1>1 DEF BulkDone, TypeOK, tables, locks, Transactions, Points
<1>2. CASE CommitEnrollments(r)
  BY <1>2, EndType, RollbackType DEF CommitEnrollments, TypeOK, RowStatus
<1>3. CASE CommitDeleteEnrollment(r)
  BY <1>3, EndType DEF CommitDeleteEnrollment, TypeOK, RowStatus
<1>4. CASE CommitUpdateCourse(r)
  BY <1>4, EndType, RollbackType DEF CommitUpdateCourse, TypeOK, Transactions
<1>5. CASE CommitCourseStatus(r)
  BY <1>5, EndType, RollbackType DEF CommitCourseStatus, TypeOK
<1>6. CASE CommitDeleteCourse(r)
  BY <1>6, EndType DEF CommitDeleteCourse, TypeOK, RowStatus
<1>7. CASE CommitTenant(r)
  BY <1>7, EndType DEF CommitTenant, NewQuota, TypeOK, Transactions
<1>8. QED
  BY <1>1, <1>2, <1>3, <1>4, <1>5, <1>6, <1>7 DEF Finish

\* Whatever the requests do, the tables and the transactions keep their types.
THEOREM TypeCorrect == Spec => []TypeOK
<1>1. Init => TypeOK
  BY SeatsAssumption
     DEF Init, TypeOK, RowStatus, CourseStatus, NoTx, Transactions, Points, SeatEndpoints
<1>2. TypeOK /\ [Next]_vars => TypeOK'
  <2>1. ASSUME TypeOK, NEW r \in Requests, Fail(r)
        PROVE  TypeOK'
    BY <2>1, RollbackType DEF Fail
  <2>2. ASSUME TypeOK, UNCHANGED vars
        PROVE  TypeOK'
    BY <2>2 DEF TypeOK, vars, tables, locks
  <2>3. QED
    BY <2>1, <2>2, ArriveType, TakeLockType, FinishType DEF Next, Step
<1>3. QED
  BY <1>1, <1>2, PTL DEF Spec

-----------------------------------------------------------------------------
(* What one request's step leaves alone.                                   *)

\* A step of r is a step of no other request.
LEMMA OthersKept ==
  ASSUME TypeOK, NEW r \in Requests, Arrive(r) \/ Step(r), NEW q \in Requests, q # r
  PROVE  tx'[q] = tx[q]
<1>1. End(r) => tx'[q] = tx[q]
  BY DEF End, TypeOK
<1>2. ASSUME Arrive(r) PROVE tx'[q] = tx[q]
  BY <1>2 DEF Arrive, create_enrollment, update_enrollment, bulk_enroll, delete_enrollment,
     create_grade, update_course, change_course_status, delete_course, activate_plan,
     update_tenant, Begin, TypeOK
<1>3. ASSUME TakeLock(r) PROVE tx'[q] = tx[q]
  BY <1>1, <1>3 DEF TakeLock, check_tenant_student_quota, OpenEnrollment, open_enrollment,
     ReactivateEnrollment, BulkLockCourse, BulkSeat, Rollback, TypeOK
<1>4. ASSUME Finish(r) \/ Fail(r) PROVE tx'[q] = tx[q]
  BY <1>1, <1>4 DEF Finish, Fail, BulkDone, CommitEnrollments, CommitDeleteEnrollment,
     CommitUpdateCourse, CommitCourseStatus, CommitDeleteCourse, CommitTenant, Rollback, TypeOK
<1>5. QED
  BY <1>2, <1>3, <1>4 DEF Step

\* While q holds a course row, nobody else takes it or writes it.
LEMMA LocksKept ==
  ASSUME TypeOK, NEW r \in Requests, Arrive(r) \/ Step(r), NEW q \in Requests, q # r,
         NEW c \in Courses, courseLock[c] = q
  PROVE  /\ courseLock'[c] = q
         /\ courseStatus'[c] = courseStatus[c]
         /\ maxStudents'[c] = maxStudents[c]
<1> USE SeatsAssumption
<1>1. Rollback(r) => /\ courseLock'[c] = q
                     /\ courseStatus'[c] = courseStatus[c]
                     /\ maxStudents'[c] = maxStudents[c]
  BY DEF Rollback, End, tables
<1>2. ASSUME Arrive(r) PROVE UNCHANGED <<courseLock, courseStatus, maxStudents>>
  BY <1>2 DEF Arrive, create_enrollment, update_enrollment, bulk_enroll, delete_enrollment,
     create_grade, update_course, change_course_status, delete_course, activate_plan,
     update_tenant, Begin, tables, locks
<1>3. ASSUME TakeLock(r)
      PROVE  /\ courseLock'[c] = q
             /\ courseStatus'[c] = courseStatus[c]
             /\ maxStudents'[c] = maxStudents[c]
  BY <1>1, <1>3 DEF TakeLock, check_tenant_student_quota, OpenEnrollment, open_enrollment,
     ReactivateEnrollment, BulkLockCourse, BulkSeat, Free, TypeOK, tables
<1>4. ASSUME Finish(r) \/ Fail(r)
      PROVE  /\ courseLock'[c] = q
             /\ courseStatus'[c] = courseStatus[c]
             /\ maxStudents'[c] = maxStudents[c]
  BY <1>1, <1>4 DEF Finish, Fail, BulkDone, CommitEnrollments, CommitDeleteEnrollment,
     CommitUpdateCourse, CommitCourseStatus, CommitDeleteCourse, CommitTenant, Free, End,
     TypeOK, tables, locks
<1>5. QED
  BY <1>2, <1>3, <1>4 DEF Step

\* A matricula that was inserted stays inserted: ids are never used twice.
LEMMA StaysBorn ==
  ASSUME TypeOK, NEW r \in Requests, Arrive(r) \/ Step(r), NEW e \in Rows, status[e] # "unborn"
  PROVE  status'[e] # "unborn"
<1>1. Rollback(r) => status'[e] = status[e]
  BY DEF Rollback, tables
<1>2. ASSUME Arrive(r) PROVE status'[e] = status[e]
  BY <1>2 DEF Arrive, create_enrollment, update_enrollment, bulk_enroll, delete_enrollment,
     create_grade, update_course, change_course_status, delete_course, activate_plan,
     update_tenant, Begin, tables
<1>3. ASSUME TakeLock(r) PROVE status'[e] = status[e]
  BY <1>1, <1>3 DEF TakeLock, check_tenant_student_quota, OpenEnrollment, open_enrollment,
     ReactivateEnrollment, BulkLockCourse, BulkSeat, tables
<1>4. ASSUME CommitEnrollments(r) PROVE status'[e] # "unborn"
  BY <1>1, <1>4 DEF CommitEnrollments, TypeOK, EnrollmentStatus
<1>5. ASSUME Finish(r) \/ Fail(r) PROVE status'[e] # "unborn"
  BY <1>1, <1>4, <1>5 DEF Finish, Fail, BulkDone, CommitDeleteEnrollment,
     CommitUpdateCourse, CommitCourseStatus, CommitDeleteCourse, CommitTenant, tables
<1>6. QED
  BY <1>2, <1>3, <1>5 DEF Step

-----------------------------------------------------------------------------
(* A matricula is born only in a course that accepts it.                   *)

\* SeatLocked and WritesExisting, of one request.
SeatLockedBy(q) ==
    Seating(q) => /\ tx[q].course \in Courses
                  /\ courseLock[tx[q].course] = q
                  /\ courseStatus[tx[q].course] \in AcceptsEnrolment
                  /\ \A e \in tx[q].writes : CourseOf(e) = tx[q].course

WritesExistingBy(q) ==
    tx[q].op \in {"update_enrollment", "delete_enrollment"} =>
        /\ tx[q].at # "batch"
        /\ \A e \in tx[q].writes : status[e] # "unborn"

NoRowYetBy(q) ==
    tx[q].op \in {"create_enrollment", "bulk_enroll"} /\ tx[q].at \in {"quota", "seat"}
        => tx[q].course \in Courses /\ tx[q].writes = {}

BirthBy(q) == SeatLockedBy(q) /\ WritesExistingBy(q) /\ NoRowYetBy(q)

LEMMA BirthInvByRequest ==
  BirthInv <=> \A q \in Requests : BirthBy(q)
BY DEF BirthInv, SeatLocked, WritesExisting, NoRowYet, BirthBy, SeatLockedBy, WritesExistingBy,
   NoRowYetBy

LEMMA BirthInvByRequestNext ==
  BirthInv' <=> \A q \in Requests : BirthBy(q)'
BY DEF BirthInv, SeatLocked, WritesExisting, NoRowYet, BirthBy, SeatLockedBy, WritesExistingBy,
   NoRowYetBy, Seating

\* The steps of r take nothing from what q # r has locked or is to write.
LEMMA OthersBirth ==
  ASSUME TypeOK, NEW r \in Requests, Arrive(r) \/ Step(r), NEW q \in Requests, q # r,
         BirthBy(q)
  PROVE  BirthBy(q)'
<1>1. tx'[q] = tx[q]
  BY OthersKept
<1>2. SeatLockedBy(q)'
  BY <1>1, LocksKept DEF BirthBy, SeatLockedBy, Seating
<1>3. tx[q].writes \subseteq Rows
  BY DEF TypeOK, Transactions
<1>4. WritesExistingBy(q)'
  BY <1>1, <1>3, StaysBorn DEF BirthBy, WritesExistingBy
<1>5. QED
  BY <1>1, <1>2, <1>4 DEF BirthBy, NoRowYetBy

\* A request that has ended has found no seat and writes nothing.
LEMMA EndBirth ==
  ASSUME TypeOK, NEW r \in Requests, End(r)
  PROVE  BirthBy(r)'
<1>1. tx'[r] = NoTx
  BY DEF End, TypeOK
<1>2. QED
  BY <1>1 DEF NoTx, BirthBy, SeatLockedBy, WritesExistingBy, NoRowYetBy, Seating

\* A request that has just arrived has found no seat yet, and writes, at most,
\* a matricula that it has just read.
LEMMA ArriveBirth ==
  ASSUME TypeOK, NEW r \in Requests, Arrive(r), BirthBy(r)
  PROVE  BirthBy(r)'
<1>1. ASSUME NEW t \in Transactions, Begin(r, t),
             t.at = "batch" => FALSE,
             t.op \in {"create_enrollment", "bulk_enroll"} =>
                 t.at # "commit" /\ t.course \in Courses /\ t.writes = {},
             t.op \in {"update_enrollment", "delete_enrollment"} => \A e \in t.writes : status[e] # "unborn"
      PROVE  BirthBy(r)'
  <2>1. tx'[r] = t /\ status' = status
    BY <1>1 DEF Begin, TypeOK, tables
  <2>2. QED
    BY <1>1, <2>1 DEF BirthBy, SeatLockedBy, WritesExistingBy, NoRowYetBy, Seating
<1> USE DEF NoTx, Transactions, Points, AllEndpoints
<1>2. CASE create_enrollment(r)
  <2>1. PICK s \in Students, c \in Courses, st \in BirthStates :
            Begin(r, [NoTx EXCEPT !.op = "create_enrollment", !.at = FirstLock(r),
                                  !.course = c, !.students = {s}, !.to = st])
    BY <1>2 DEF create_enrollment
  <2>2. st \in EnrollmentStatus
    BY SeatsAssumption DEF OpeningStates, EnrollmentStatus
  <2>3. QED
    BY <1>1, <2>1, <2>2 DEF FirstLock
<1>3. CASE update_enrollment(r)
  <2>1. PICK e \in Rows, target \in EnrollmentStatus, at \in {"quota", "seat", "commit"} :
            /\ Present(e)
            /\ Begin(r, [NoTx EXCEPT !.op = "update_enrollment", !.at = at,
                                     !.course = CourseOf(e), !.students = {StudentOf(e)},
                                     !.writes = IF target = status[e] THEN {} ELSE {e},
                                     !.to = target])
    BY <1>3 DEF update_enrollment, FirstLock
  <2>2. StudentOf(e) \in Students /\ CourseOf(e) \in Courses /\ status[e] # "unborn"
    BY <2>1, RowParts DEF Present, EnrollmentStatus
  <2>3. QED
    BY <1>1, <2>1, <2>2
<1>4. CASE bulk_enroll(r)
  BY <1>1, <1>4 DEF bulk_enroll, EnrollmentStatus
<1>5. CASE delete_enrollment(r)
  BY <1>1, <1>5 DEF delete_enrollment, Present, EnrollmentStatus
<1>6. CASE create_grade(r)
  BY <1>6 DEF create_grade, locks, BirthBy, SeatLockedBy, WritesExistingBy, NoRowYetBy, Seating
<1>7. CASE update_course(r)
  BY <1>1, <1>7, SeatsAssumption DEF update_course
<1>8. CASE change_course_status(r)
  BY <1>1, <1>8 DEF change_course_status
<1>9. CASE delete_course(r)
  BY <1>1, <1>9 DEF delete_course
<1>10. CASE activate_plan(r) \/ update_tenant(r)
  BY <1>1, <1>10, SeatsAssumption DEF activate_plan, update_tenant
<1>11. QED
  BY <1>2, <1>3, <1>4, <1>5, <1>6, <1>7, <1>8, <1>9, <1>10 DEF Arrive

\* A seat is found only with the course locked and open.
LEMMA StepBirth ==
  ASSUME TypeOK, NEW r \in Requests, Step(r), BirthBy(r)
  PROVE  BirthBy(r)'
<1>1. Rollback(r) => BirthBy(r)'
  BY EndBirth DEF Rollback
<1>2. CASE check_tenant_student_quota(r)
  BY <1>1, <1>2 DEF check_tenant_student_quota, BirthBy, SeatLockedBy, WritesExistingBy, NoRowYetBy, Seating, TypeOK,
     Transactions, tables
<1>3. CASE OpenEnrollment(r)
  <2>1. /\ tx[r].op = "create_enrollment" /\ tx[r].at = "seat" /\ tx[r] \in Transactions
    BY <1>3 DEF OpenEnrollment, open_enrollment, TypeOK
  <2>2. CASE Rollback(r)
    BY <1>1, <2>2
  <2>3. CASE ~Rollback(r)
    <3>1. PICK e \in Rows : /\ CourseOf(e) = tx[r].course
                            /\ courseStatus[tx[r].course] \in AcceptsEnrolment
                            /\ tx' = [tx EXCEPT ![r].at = "commit", ![r].writes = {e}]
                            /\ courseLock' = [courseLock EXCEPT ![tx[r].course] = r]
                            /\ UNCHANGED tables
      BY <1>3, <2>3 DEF OpenEnrollment, open_enrollment, NextRow
    <3>2. /\ tx[r].course \in Courses
          /\ courseLock'[tx[r].course] = r
      BY <3>1, RowParts DEF TypeOK
    <3>3. /\ tx'[r].op = "create_enrollment" /\ tx'[r].course = tx[r].course
          /\ tx'[r].writes = {e} /\ tx'[r].at = "commit"
      BY <2>1, <3>1 DEF TypeOK, Transactions
    <3>4. QED
      BY <3>1, <3>2, <3>3 DEF BirthBy, SeatLockedBy, WritesExistingBy, NoRowYetBy, tables
  <2>4. QED
    BY <2>2, <2>3
<1>4. CASE ReactivateEnrollment(r)
  BY <1>1, <1>4 DEF ReactivateEnrollment, BirthBy, SeatLockedBy, WritesExistingBy, NoRowYetBy, Seating, TypeOK,
     Transactions, tables
<1>5. CASE BulkLockCourse(r)
  BY <1>1, <1>5 DEF BulkLockCourse, BirthBy, SeatLockedBy, WritesExistingBy, NoRowYetBy, Seating, TypeOK,
     Transactions, tables
<1>6. CASE BulkSeat(r)
  <2>1. /\ tx[r].at = "batch" /\ tx[r] \in Transactions
        /\ UNCHANGED <<tables, courseLock>>
    BY <1>6 DEF BulkSeat, TypeOK
  <2>2. /\ tx'[r].op = tx[r].op /\ tx'[r].at = "batch" /\ tx'[r].course = tx[r].course
        /\ \A e \in tx'[r].writes : e \in tx[r].writes \/ CourseOf(e) = tx[r].course
    <3>1. ASSUME NEW s, NEW e \in NextRow(s, tx[r].course),
                 tx' = [tx EXCEPT ![r].students = @ \ {s}, ![r].writes = @ \cup {e}, ![r].taken = @ + 1]
          PROVE  /\ tx'[r].op = tx[r].op /\ tx'[r].at = tx[r].at /\ tx'[r].course = tx[r].course
                 /\ tx'[r].writes = tx[r].writes \cup {e}
                 /\ CourseOf(e) = tx[r].course
      BY <2>1, <3>1 DEF NextRow, TypeOK, Transactions
    <3>2. ASSUME NEW s, tx' = [tx EXCEPT ![r].students = @ \ {s}]
          PROVE  /\ tx'[r].op = tx[r].op /\ tx'[r].at = tx[r].at /\ tx'[r].course = tx[r].course
                 /\ tx'[r].writes = tx[r].writes
      BY <2>1, <3>2 DEF TypeOK, Transactions
    <3>3. PICK s \in tx[r].students :
             \/ \E e \in NextRow(s, tx[r].course) :
                   tx' = [tx EXCEPT ![r].students = @ \ {s}, ![r].writes = @ \cup {e}, ![r].taken = @ + 1]
             \/ tx' = [tx EXCEPT ![r].students = @ \ {s}]
      BY <1>6 DEF BulkSeat
    <3>4. CASE \E e \in NextRow(s, tx[r].course) :
                   tx' = [tx EXCEPT ![r].students = @ \ {s}, ![r].writes = @ \cup {e}, ![r].taken = @ + 1]
      BY <2>1, <3>1, <3>4
    <3>5. CASE tx' = [tx EXCEPT ![r].students = @ \ {s}]
      BY <2>1, <3>2, <3>5
    <3>6. QED
      BY <3>3, <3>4, <3>5
  <2>3. QED
    BY <2>1, <2>2 DEF BirthBy, SeatLockedBy, WritesExistingBy, NoRowYetBy, Seating, tables
<1>7. CASE BulkDone(r)
  BY <1>7 DEF BulkDone, BirthBy, SeatLockedBy, WritesExistingBy, NoRowYetBy, Seating, TypeOK, Transactions, tables,
     locks
<1>8. CASE CommitEnrollments(r) \/ CommitDeleteEnrollment(r) \/ CommitUpdateCourse(r)
           \/ CommitCourseStatus(r) \/ CommitDeleteCourse(r) \/ CommitTenant(r) \/ Fail(r)
  BY <1>1, <1>8, EndBirth DEF CommitEnrollments, CommitDeleteEnrollment, CommitUpdateCourse,
     CommitCourseStatus, CommitDeleteCourse, CommitTenant, Fail
<1>9. QED
  BY <1>2, <1>3, <1>4, <1>5, <1>6, <1>7, <1>8 DEF Step, TakeLock, Finish

\* The course locks protect every seat that has been found, at every moment.
LEMMA BirthInvariant == Spec => [](TypeOK /\ BirthInv)
<1>1. Init => BirthInv
  BY DEF Init, BirthInv, SeatLocked, WritesExisting, NoRowYet, Seating, NoTx
<1>2. ASSUME TypeOK, BirthInv, NEW r \in Requests, Arrive(r) \/ Step(r)
      PROVE  BirthInv'
  <2>1. ASSUME NEW q \in Requests PROVE BirthBy(q)
    BY <1>2, BirthInvByRequest
  <2>2. ASSUME NEW q \in Requests PROVE BirthBy(q)'
    BY <1>2, <2>1, OthersBirth, ArriveBirth, StepBirth
  <2>3. QED
    BY <2>2, BirthInvByRequestNext
<1>3. TypeOK /\ BirthInv /\ [Next]_vars => BirthInv'
  <2>1. UNCHANGED vars /\ BirthInv => BirthInv'
    BY DEF vars, tables, locks, BirthInv, SeatLocked, WritesExisting, NoRowYet, Seating
  <2>2. QED
    BY <1>2, <2>1 DEF Next
<1>4. QED
  BY <1>1, <1>3, TypeCorrect, PTL DEF Spec

\* A matricula is inserted by the commit of a request that found it a seat,
\* and by no other step.
LEMMA BornByCommit ==
  ASSUME TypeOK, BirthInv, NEW r \in Requests, Arrive(r) \/ Step(r),
         NEW e \in Rows, status[e] = "unborn", status'[e] # "unborn"
  PROVE  courseStatus[CourseOf(e)] \in AcceptsEnrolment
<1>1. ~Rollback(r)
  BY DEF Rollback, tables
<1>2. ~Arrive(r)
  BY DEF Arrive, create_enrollment, update_enrollment, bulk_enroll, delete_enrollment,
     create_grade, update_course, change_course_status, delete_course, activate_plan,
     update_tenant, Begin, tables
<1>3. ~TakeLock(r)
  BY <1>1 DEF TakeLock, check_tenant_student_quota, OpenEnrollment, open_enrollment,
     ReactivateEnrollment, BulkLockCourse, BulkSeat, tables
<1>4. ~CommitDeleteEnrollment(r)
  BY DEF CommitDeleteEnrollment, BirthInv, WritesExisting
<1>5. ~CommitDeleteCourse(r)
  BY DEF CommitDeleteCourse, Present, EnrollmentStatus
<1>6. CommitEnrollments(r)
  BY <1>1, <1>2, <1>3, <1>4, <1>5 DEF Step, Finish, Fail, BulkDone, CommitUpdateCourse,
     CommitCourseStatus, CommitTenant, tables
<1>7. e \in tx[r].writes /\ tx[r].op \in SeatEndpoints /\ tx[r].at = "commit"
  BY <1>1, <1>6 DEF CommitEnrollments
<1>8. Seating(r)
  BY <1>7 DEF BirthInv, WritesExisting, Seating, SeatEndpoints
<1>9. QED
  BY <1>7, <1>8 DEF BirthInv, SeatLocked

\* Whatever requests interleave, a matricula is born only in a course that
\* accepts it at the moment its row is committed.
THEOREM BornInOpenCourses == Spec => BornWhereOpen
<1> DEFINE Born == \A e \in Rows : status[e] = "unborn" /\ status'[e] # "unborn"
                                   => courseStatus[CourseOf(e)] \in AcceptsEnrolment
<1>1. TypeOK /\ BirthInv /\ [Next]_vars => [Born]_vars
  BY BornByCommit DEF Next
<1>2. QED
  BY <1>1, BirthInvariant, PTL DEF Spec, BornWhereOpen

-----------------------------------------------------------------------------
(* A matricula with a grade behind it is not deleted, unless the grade was  *)
(* written while the deletion was under way.                               *)

\* DeletesNoRecord, of one request.
DeletesNoRecordBy(q) ==
    Deleting(q) => /\ tx[q].at = "commit"
                   /\ tx[q].op = "delete_enrollment" => tx[q].writes \cap recorded = {}
                   /\ tx[q].op = "delete_course" => \A e \in recorded : CourseOf(e) # tx[q].course

\* Nothing but create_grade changes who has a grade.
LEMMA RecordedKept ==
  ASSUME NEW r \in Requests, Arrive(r) \/ Step(r), ~create_grade(r)
  PROVE  recorded' = recorded
<1>1. CASE Arrive(r)
  BY <1>1 DEF Arrive, create_enrollment, update_enrollment, bulk_enroll, delete_enrollment,
     update_course, change_course_status, delete_course, activate_plan, update_tenant, Begin, tables
<1>2. CASE TakeLock(r)
  BY <1>2 DEF TakeLock, check_tenant_student_quota, OpenEnrollment, open_enrollment,
     ReactivateEnrollment, BulkLockCourse, BulkSeat, Rollback, tables
<1>3. CASE Finish(r) \/ Fail(r)
  BY <1>3 DEF Finish, Fail, BulkDone, CommitEnrollments, CommitDeleteEnrollment,
     CommitUpdateCourse, CommitCourseStatus, CommitDeleteCourse, CommitTenant, Rollback, tables
<1>4. QED
  BY <1>1, <1>2, <1>3 DEF Step

\* What has a grade behind it stays a row of the table.
LEMMA PresentStays ==
  ASSUME TypeOK, RecordsInv, NEW r \in Requests, Arrive(r) \/ Step(r), NEW e \in recorded
  PROVE  status'[e] \in EnrollmentStatus
<1>1. e \in Rows /\ status[e] \in EnrollmentStatus
  BY DEF TypeOK, RecordsInv, RecordsPresent, Present
<1>2. status' = status => status'[e] \in EnrollmentStatus
  BY <1>1
<1>3. CASE Arrive(r)
  BY <1>2, <1>3 DEF Arrive, create_enrollment, update_enrollment, bulk_enroll, delete_enrollment,
     create_grade, update_course, change_course_status, delete_course, activate_plan,
     update_tenant, Begin, tables
<1>4. CASE TakeLock(r)
  BY <1>2, <1>4 DEF TakeLock, check_tenant_student_quota, OpenEnrollment, open_enrollment,
     ReactivateEnrollment, BulkLockCourse, BulkSeat, Rollback, tables
<1>5. CASE CommitEnrollments(r)
  BY <1>1, <1>2, <1>5 DEF CommitEnrollments, TypeOK, Rollback, tables
<1>6. CASE CommitDeleteEnrollment(r)
  <2>1. e \notin tx[r].writes
    BY <1>6 DEF CommitDeleteEnrollment, RecordsInv, DeletesNoRecord, Deleting
  <2>2. QED
    BY <1>1, <1>6, <2>1 DEF CommitDeleteEnrollment
<1>7. CASE CommitDeleteCourse(r)
  <2>1. CourseOf(e) # tx[r].course
    BY <1>7 DEF CommitDeleteCourse, RecordsInv, DeletesNoRecord, Deleting
  <2>2. QED
    BY <1>1, <1>7, <2>1 DEF CommitDeleteCourse
<1>8. CASE \/ BulkDone(r) \/ CommitUpdateCourse(r) \/ CommitCourseStatus(r) \/ CommitTenant(r)
           \/ Fail(r)
  BY <1>2, <1>8 DEF BulkDone, CommitUpdateCourse, CommitCourseStatus, CommitTenant, Fail,
     Rollback, tables
<1>9. QED
  BY <1>3, <1>4, <1>5, <1>6, <1>7, <1>8 DEF Step, Finish

\* A deletion starts only with nothing behind what it is to delete.
LEMMA ArriveDeletes ==
  ASSUME TypeOK, RecordsInv, NEW r \in Requests, Arrive(r), ~create_grade(r)
  PROVE  DeletesNoRecordBy(r)'
<1>1. ASSUME NEW t, Begin(r, t), t.op \notin {"delete_enrollment", "delete_course"}
      PROVE  DeletesNoRecordBy(r)'
  <2>1. tx'[r] = t
    BY <1>1 DEF Begin, TypeOK
  <2>2. QED
    BY <1>1, <2>1 DEF DeletesNoRecordBy, Deleting
<1>2. CASE delete_enrollment(r)
  <2>1. PICK e \in Rows : /\ ~HasRecord(e)
                          /\ Begin(r, [NoTx EXCEPT !.op = "delete_enrollment",
                                                   !.at = "commit", !.writes = {e}])
    BY <1>2 DEF delete_enrollment
  <2>2. /\ tx'[r].op = "delete_enrollment" /\ tx'[r].at = "commit" /\ tx'[r].writes = {e}
        /\ recorded' = recorded
    BY <2>1 DEF Begin, NoTx, TypeOK, tables
  <2>3. QED
    BY <2>1, <2>2 DEF HasRecord, DeletesNoRecordBy, Deleting
<1>3. CASE delete_course(r)
  <2>1. PICK c \in Courses : /\ ~HasEnrollments(c)
                             /\ Begin(r, [NoTx EXCEPT !.op = "delete_course",
                                                      !.at = "commit", !.course = c])
    BY <1>3 DEF delete_course
  <2>2. /\ tx'[r].op = "delete_course" /\ tx'[r].at = "commit" /\ tx'[r].course = c
        /\ recorded' = recorded
    BY <2>1 DEF Begin, NoTx, TypeOK, tables
  <2>3. \A e \in recorded : CourseOf(e) # c
    BY <2>1 DEF HasEnrollments, RecordsInv, RecordsPresent, TypeOK
  <2>4. QED
    BY <2>2, <2>3 DEF DeletesNoRecordBy, Deleting
<1>4. CASE create_enrollment(r)
  BY <1>1, <1>4 DEF create_enrollment, NoTx
<1>5. CASE update_enrollment(r)
  BY <1>1, <1>5 DEF update_enrollment, NoTx
<1>6. CASE bulk_enroll(r)
  BY <1>1, <1>6 DEF bulk_enroll, NoTx
<1>7. CASE update_course(r) \/ change_course_status(r)
  BY <1>1, <1>7 DEF update_course, change_course_status, NoTx
<1>8. CASE activate_plan(r) \/ update_tenant(r)
  BY <1>1, <1>8 DEF activate_plan, update_tenant, NoTx
<1>9. QED
  BY <1>2, <1>3, <1>4, <1>5, <1>6, <1>7, <1>8 DEF Arrive

\* A request does not change its endpoint.
LEMMA EndpointStays ==
  ASSUME TypeOK, NEW r \in Requests, Step(r)
  PROVE  End(r) \/ tx'[r].op = tx[r].op
<1>1. CASE BulkSeat(r)
  <2>1. tx[r] \in Transactions
    BY DEF TypeOK
  <2>2. ASSUME NEW s, NEW e,
               tx' = [tx EXCEPT ![r].students = @ \ {s}, ![r].writes = @ \cup {e}, ![r].taken = @ + 1]
        PROVE  tx'[r].op = tx[r].op
    BY <2>1, <2>2 DEF TypeOK, Transactions
  <2>3. ASSUME NEW s, tx' = [tx EXCEPT ![r].students = @ \ {s}]
        PROVE  tx'[r].op = tx[r].op
    BY <2>1, <2>3 DEF TypeOK, Transactions
  <2>4. QED
    BY <1>1, <2>2, <2>3 DEF BulkSeat
<1>2. ASSUME TakeLock(r) \/ BulkDone(r), ~BulkSeat(r)
      PROVE  End(r) \/ tx'[r].op = tx[r].op
  BY <1>2 DEF TakeLock, check_tenant_student_quota, OpenEnrollment, open_enrollment,
     ReactivateEnrollment, BulkLockCourse, BulkDone, Rollback, TypeOK, Transactions
<1>3. CASE ~(TakeLock(r) \/ BulkDone(r))
  BY <1>3 DEF Step, Finish, Fail, CommitEnrollments, CommitDeleteEnrollment,
     CommitUpdateCourse, CommitCourseStatus, CommitDeleteCourse, CommitTenant, Rollback
<1>4. QED
  BY <1>1, <1>2, <1>3

\* One that stands at its commit, commits or fails.
LEMMA CommitEnds ==
  ASSUME NEW r \in Requests, Step(r), tx[r].at = "commit"
  PROVE  End(r)
<1>1. ~TakeLock(r) /\ ~BulkDone(r)
  BY DEF TakeLock, check_tenant_student_quota, OpenEnrollment, open_enrollment,
     ReactivateEnrollment, BulkLockCourse, BulkSeat, BulkDone
<1>2. QED
  BY <1>1 DEF Step, Finish, Fail, CommitEnrollments, CommitDeleteEnrollment,
     CommitUpdateCourse, CommitCourseStatus, CommitDeleteCourse, CommitTenant, Rollback

\* So a deletion only commits or fails.
LEMMA StepDeletes ==
  ASSUME TypeOK, RecordsInv, NEW r \in Requests, Step(r)
  PROVE  DeletesNoRecordBy(r)'
<1>1. End(r) => ~Deleting(r)'
  BY DEF End, TypeOK, Deleting, NoTx
<1>2. Deleting(r) => End(r)
  BY CommitEnds DEF RecordsInv, DeletesNoRecord
<1>3. ~Deleting(r) => ~Deleting(r)'
  BY <1>1, EndpointStays DEF Deleting
<1>4. QED
  BY <1>1, <1>2, <1>3 DEF DeletesNoRecordBy, Deleting

\* One step of one request keeps what is recorded, as long as a grade is not
\* written under a deletion.
LEMMA RecordsStep ==
  ASSUME TypeOK, RecordsInv, GradesApart, NEW r \in Requests, Arrive(r) \/ Step(r)
  PROVE  RecordsInv'
<1>1. CASE create_grade(r)
  <2>1. PICK e \in Rows : /\ status[e] \in OccupiesSeat
                          /\ recorded' = recorded \cup {e}
                          /\ status' = status /\ tx' = tx
    BY <1>1 DEF create_grade
  <2>2. RecordsPresent'
    BY <2>1 DEF RecordsInv, RecordsPresent, Present, OccupiesSeat, EnrollmentStatus
  <2>3. ASSUME NEW q \in Requests, NEW f \in recorded'
        PROVE  /\ tx[q].op = "delete_enrollment" => f \notin tx[q].writes
               /\ tx[q].op = "delete_course" => CourseOf(f) # tx[q].course
    BY <2>1, <2>3 DEF GradesApart, RecordsInv, DeletesNoRecord, Deleting
  <2>4. DeletesNoRecord'
    BY <2>1, <2>3 DEF RecordsInv, DeletesNoRecord, Deleting
  <2>5. QED
    BY <2>2, <2>4 DEF RecordsInv
<1>2. CASE ~create_grade(r)
  <2>1. recorded' = recorded
    BY <1>2, RecordedKept
  <2>2. RecordsPresent'
    BY <2>1, PresentStays DEF RecordsPresent, Present
  <2>3. ASSUME NEW q \in Requests PROVE DeletesNoRecordBy(q)'
    <3>1. CASE q = r
      BY <1>2, <3>1, ArriveDeletes, StepDeletes
    <3>2. CASE q # r
      BY <2>1, <3>2, OthersKept DEF RecordsInv, DeletesNoRecord, DeletesNoRecordBy, Deleting
    <3>3. QED
      BY <3>1, <3>2
  <2>4. QED
    BY <2>2, <2>3 DEF RecordsInv, DeletesNoRecord, DeletesNoRecordBy, Deleting
<1>3. QED
  BY <1>1, <1>2

\* A matricula with a grade behind it is never deleted, by itself or with its
\* course, by any number of requests at once, provided that no grade is written
\* between the count a deletion reads without a lock and its commit.
THEOREM RecordsKeptApart == Spec /\ [][GradesApart]_vars => []RecordsKept
<1>1. Init => RecordsInv
  BY DEF Init, RecordsInv, RecordsPresent, DeletesNoRecord, Deleting, NoTx
<1>2. TypeOK /\ RecordsInv /\ [Next]_vars /\ [GradesApart]_vars => RecordsInv'
  <2>1. UNCHANGED vars /\ RecordsInv => RecordsInv'
    BY DEF vars, tables, locks, RecordsInv, RecordsPresent, Present, DeletesNoRecord, Deleting
  <2>2. QED
    BY <2>1, RecordsStep DEF Next
<1>3. RecordsInv => RecordsKept
  BY DEF RecordsInv, RecordsPresent, Present, EnrollmentStatus, RecordsKept
<1>4. QED
  BY <1>1, <1>2, <1>3, TypeCorrect, PTL DEF Spec

\* So where the academy's requests come one at a time, nothing is ever deleted
\* from under its grades.
THEOREM RecordsKeptAlone ==
  ASSUME \A q, r \in Requests : q = r
  PROVE  Spec => []RecordsKept
<1>1. [Next]_vars => [GradesApart]_vars
  <2>1. ASSUME NEW r \in Requests, Arrive(r) \/ Step(r) PROVE GradesApart
    <3>1. CASE create_grade(r)
      <4>1. tx[r].op = "none"
        BY <3>1 DEF create_grade, NoTx
      <4>2. QED
        BY <4>1 DEF GradesApart
    <3>2. CASE ~create_grade(r)
      BY <2>1, <3>2, RecordedKept DEF GradesApart
    <3>3. QED
      BY <3>1, <3>2
  <2>2. QED
    BY <2>1 DEF Next
<1>2. QED
  BY <1>1, RecordsKeptApart, PTL DEF Spec

-----------------------------------------------------------------------------
(* A course goes to the shelf with no seat held.                           *)

\* ShelvesEmpty, of one request.
ShelvesEmptyBy(q) ==
    tx[q].op = "change_course_status" =>
        tx[q].at = "commit" /\ (Shelving(q) => SeatsTaken(tx[q].course) = {})

\* A request to shelve a course arrives on a count of no seats.
LEMMA ArriveShelves ==
  ASSUME TypeOK, NEW r \in Requests, Arrive(r)
  PROVE  ShelvesEmptyBy(r)'
<1>1. ASSUME NEW t, Begin(r, t), t.op # "change_course_status"
      PROVE  ShelvesEmptyBy(r)'
  <2>1. tx'[r] = t
    BY <1>1 DEF Begin, TypeOK
  <2>2. QED
    BY <1>1, <2>1 DEF ShelvesEmptyBy
<1>2. CASE change_course_status(r)
  <2>1. PICK c \in Courses, target \in CourseStatus :
          /\ target \in {"draft", "archived"} => SeatsTaken(c) = {}
          /\ Begin(r, [NoTx EXCEPT !.op = "change_course_status",
                                   !.at = "commit", !.course = c, !.to = target])
    BY <1>2 DEF change_course_status, MayShelve
  <2>2. tx'[r].at = "commit" /\ tx'[r].course = c /\ tx'[r].to = target /\ status' = status
    BY <2>1 DEF Begin, NoTx, TypeOK, tables
  <2>3. QED
    BY <2>1, <2>2 DEF ShelvesEmptyBy, Shelving, SeatsTaken
<1>3. CASE create_grade(r)
  BY <1>3 DEF create_grade, ShelvesEmptyBy, NoTx
<1>4. CASE create_enrollment(r)
  BY <1>1, <1>4 DEF create_enrollment, NoTx
<1>5. CASE update_enrollment(r)
  BY <1>1, <1>5 DEF update_enrollment, NoTx
<1>6. CASE bulk_enroll(r) \/ delete_enrollment(r)
  BY <1>1, <1>6 DEF bulk_enroll, delete_enrollment, NoTx
<1>7. CASE update_course(r) \/ delete_course(r)
  BY <1>1, <1>7 DEF update_course, delete_course, NoTx
<1>8. CASE activate_plan(r) \/ update_tenant(r)
  BY <1>1, <1>8 DEF activate_plan, update_tenant, NoTx
<1>9. QED
  BY <1>2, <1>3, <1>4, <1>5, <1>6, <1>7, <1>8 DEF Arrive

\* And from then on it only commits or fails.
LEMMA StepShelves ==
  ASSUME TypeOK, ShelvesEmpty, NEW r \in Requests, Step(r)
  PROVE  tx'[r].op # "change_course_status"
<1>1. End(r) => tx'[r].op # "change_course_status"
  BY DEF End, TypeOK, NoTx
<1>2. QED
  BY <1>1, CommitEnds, EndpointStays DEF ShelvesEmpty

\* One step keeps the course of a request that is about to shelve it empty.
LEMMA ShelvesStep ==
  ASSUME TypeOK, ShelvesEmpty, SeatsApart, NEW r \in Requests, Arrive(r) \/ Step(r)
  PROVE  ShelvesEmpty'
<1>1. ASSUME NEW q \in Requests, q # r
      PROVE  ShelvesEmptyBy(q)'
  <2>1. tx'[q] = tx[q]
    BY <1>1, OthersKept
  <2>2. Shelving(q) => SeatsTaken(tx[q].course)' = {}
    BY <2>1 DEF SeatsApart, SeatsTaken, ShelvesEmpty, Shelving
  <2>3. QED
    BY <2>1, <2>2 DEF ShelvesEmpty, ShelvesEmptyBy, Shelving, SeatsTaken
<1>2. ShelvesEmptyBy(r)'
  BY ArriveShelves, StepShelves DEF ShelvesEmptyBy
<1>3. QED
  BY <1>1, <1>2 DEF ShelvesEmpty, ShelvesEmptyBy

\* Only the commit of a change of status takes a course to the shelf.
LEMMA ShelvedByCommit ==
  ASSUME TypeOK, NEW r \in Requests, Arrive(r) \/ Step(r), NEW c \in Courses,
         courseStatus'[c] \in {"draft", "archived"}, courseStatus'[c] # courseStatus[c]
  PROVE  Shelving(r) /\ tx[r].course = c
<1>1. ~Arrive(r) /\ ~TakeLock(r)
  BY DEF Arrive, create_enrollment, update_enrollment, bulk_enroll, delete_enrollment,
     create_grade, update_course, change_course_status, delete_course, activate_plan,
     update_tenant, Begin, TakeLock, check_tenant_student_quota, OpenEnrollment, open_enrollment,
     ReactivateEnrollment, BulkLockCourse, BulkSeat, Rollback, tables
<1>2. ~CommitDeleteCourse(r)
  BY DEF CommitDeleteCourse, TypeOK
<1>3. CommitCourseStatus(r)
  BY <1>1, <1>2 DEF Step, Finish, Fail, BulkDone, CommitEnrollments, CommitDeleteEnrollment,
     CommitUpdateCourse, CommitTenant, Rollback, tables
<1>4. QED
  BY <1>3 DEF CommitCourseStatus, Shelving, Rollback, tables, TypeOK

\* A course goes to draft or to the archive with no seat held, among any number
\* of requests at once, provided that nobody comes to sit in it between the
\* count, which is made without a lock, and the commit.
THEOREM ShelvedEmptyApart == Spec /\ [][SeatsApart]_vars => ShelvedEmpty
<1>1. Init => ShelvesEmpty
  BY DEF Init, ShelvesEmpty, NoTx
<1>2. TypeOK /\ ShelvesEmpty /\ [Next]_vars /\ [SeatsApart]_vars => ShelvesEmpty'
  <2>1. UNCHANGED vars /\ ShelvesEmpty => ShelvesEmpty'
    BY DEF vars, tables, locks, ShelvesEmpty, Shelving, SeatsTaken
  <2>2. QED
    BY <2>1, ShelvesStep DEF Next
<1>3. TypeOK /\ ShelvesEmpty /\ [Next]_vars
        => [\A c \in Courses : /\ courseStatus'[c] \in {"draft", "archived"}
                                /\ courseStatus'[c] # courseStatus[c]
                                => SeatsTaken(c) = {}]_vars
  BY ShelvedByCommit DEF ShelvesEmpty, Shelving, Next
<1>4. QED
  BY <1>1, <1>2, <1>3, TypeCorrect, PTL DEF Spec, ShelvedEmpty

\* So where the academy's requests come one at a time, a course is shelved empty.
THEOREM ShelvedEmptyAlone ==
  ASSUME \A q, r \in Requests : q = r
  PROVE  Spec => ShelvedEmpty
<1>1. TypeOK /\ [Next]_vars => [SeatsApart]_vars
  <2>1. ASSUME TypeOK, NEW r \in Requests, Arrive(r) \/ Step(r) PROVE SeatsApart
    <3>1. SUFFICES ASSUME Shelving(r), NEW e \in Rows, status'[e] \in OccupiesSeat,
                          status[e] \notin OccupiesSeat
                   PROVE  FALSE
      BY DEF SeatsApart
    <3>2. tx[r].op = "change_course_status"
      BY <3>1 DEF Shelving
    <3>3. status'[e] # status[e]
      BY <3>1
    <3>4. ~Arrive(r) /\ ~TakeLock(r)
      BY <3>3 DEF Arrive, create_enrollment, update_enrollment, bulk_enroll, delete_enrollment,
         create_grade, update_course, change_course_status, delete_course, activate_plan,
         update_tenant, Begin, TakeLock, check_tenant_student_quota, OpenEnrollment,
         open_enrollment, ReactivateEnrollment, BulkLockCourse, BulkSeat, Rollback, tables
    <3>5. ~CommitEnrollments(r)
      BY <3>2 DEF CommitEnrollments, SeatEndpoints
    <3>6. QED
      BY <2>1, <3>2, <3>3, <3>4, <3>5 DEF Step, Finish, Fail, BulkDone, CommitDeleteEnrollment,
         CommitUpdateCourse, CommitCourseStatus, CommitDeleteCourse, CommitTenant, Rollback, tables
  <2>2. QED
    BY <2>1 DEF Next
<1>2. QED
  BY <1>1, TypeCorrect, ShelvedEmptyApart, PTL DEF Spec

=============================================================================
