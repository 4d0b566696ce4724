----------------------------- MODULE LockProofs -----------------------------
(***************************************************************************)
(* What the two locks of the enrolment endpoints protect, from the check   *)
(* to the commit.                                                          *)
(*                                                                         *)
(* The row of the course: no course is ever overfull, for every set of     *)
(* students, courses and concurrent requests, but for two races that the   *)
(* code has: a PATCH judged on a status it read without the lock, and a    *)
(* new capacity judged on a count made without it (CapacityApart).  They   *)
(* cannot happen when every matricula is born "active" and nobody edits a  *)
(* capacity, nor when requests come one at a time.                         *)
(*                                                                         *)
(* The row of the academy: the students who hold a seat always fit its     *)
(* plan, as long as every matricula is born "active", no request comes     *)
(* from a superadmin and nobody changes the plan.  Each of the three is    *)
(* needed: a PATCH from "enrolled" to "active" asks for no place, though   *)
(* the matricula it read may be withdrawn by the time it commits; a        *)
(* superadmin's requests do not count; and a plan is changed on a count    *)
(* made without the lock.  Then, as long as no form insists on a clash,    *)
(* the timetable: a student is never in two rooms at once.                 *)
(***************************************************************************)
EXTENDS SeatsProofs

-----------------------------------------------------------------------------
(* The parts of CapacityInv that speak of one request.                     *)

PatchTiedBy(q) ==
    tx[q].op = "update_enrollment" =>
        /\ tx[q].course \in Courses
        /\ \A e \in tx[q].writes : CourseOf(e) = tx[q].course
        /\ \A e, f \in tx[q].writes : e = f

SeatReservedBy(q) ==
    /\ tx[q].at = "batch" =>
          /\ Cardinality(SeatsTaken(tx[q].course) \cup tx[q].writes) <= tx[q].taken
          /\ tx[q].taken <= maxStudents[tx[q].course]
    /\ Seating(q) /\ tx[q].at = "commit" => Fits(q)
    /\ Patching(q) => \/ HoldsCourse(q) /\ Fits(q)
                      \/ tx[q].writes \subseteq SeatsTaken(tx[q].course)

EditFitsBy(q) ==
    tx[q].op = "update_course" =>
        /\ tx[q].at = "commit" /\ tx[q].course \in Courses
        /\ Cardinality(SeatsTaken(tx[q].course)) <= tx[q].limit

ReservedBy(q) == PatchTiedBy(q) /\ SeatReservedBy(q) /\ EditFitsBy(q)

LEMMA CapacityInvByRequest ==
  TypeOK /\ BirthInv =>
    (CapacityInv <=> CapacityKept /\ \A q \in Requests : ReservedBy(q))
BY DEF CapacityInv, BirthInv, PatchTied, SeatReserved, EditFits, ReservedBy, PatchTiedBy,
   SeatReservedBy, EditFitsBy

-----------------------------------------------------------------------------
(* Counting.                                                               *)

\* The seats of a course are finitely many.
LEMMA SeatsCount ==
  ASSUME NEW c, NEW W \in SUBSET Rows
  PROVE  /\ SeatsTaken(c) \subseteq Rows
         /\ Cardinality(SeatsTaken(c)) \in Nat
         /\ Cardinality(SeatsTaken(c) \cup W) \in Nat
         /\ Cardinality(SeatsTaken(c) \ W) \in Nat
<1>1. SeatsTaken(c) \subseteq Rows
  BY DEF SeatsTaken
<1>2. QED
  BY <1>1, RowCount

\* A smaller set of matriculas has no more members.
LEMMA FewerRows ==
  ASSUME NEW T \in SUBSET Rows, NEW S \in SUBSET T
  PROVE  Cardinality(S) <= Cardinality(T)
BY RowCount, FS_Subset

\* One more matricula is at most one more.
LEMMA OneMoreRow ==
  ASSUME NEW S \in SUBSET Rows, NEW e
  PROVE  Cardinality(S \cup {e}) <= Cardinality(S) + 1
<1>1. IsFiniteSet(S) /\ Cardinality(S) \in Nat
  BY RowCount
<1>2. Cardinality(S \cup {e}) = IF e \in S THEN Cardinality(S) ELSE Cardinality(S) + 1
  BY <1>1, FS_AddElement
<1>3. QED
  BY <1>1, <1>2

-----------------------------------------------------------------------------
(* What a step may do to the seats and to the capacities.                  *)

\* Only the commit of a PATCH of the course changes its capacity.
LEMMA CapacityWrites ==
  ASSUME TypeOK, NEW r \in Requests, Arrive(r) \/ Step(r), NEW c \in Courses,
         maxStudents'[c] # maxStudents[c]
  PROVE  /\ tx[r].op = "update_course" /\ c = tx[r].course
         /\ maxStudents'[c] = tx[r].limit /\ status' = status
<1>1. ~Rollback(r)
  BY DEF Rollback, tables
<1>2. ~Arrive(r)
  BY DEF Arrive, create_enrollment, update_enrollment, bulk_enroll, delete_enrollment,
     create_grade, update_course, change_course_status, delete_course, activate_plan,
     update_tenant, Begin, tables
<1>3. ~TakeLock(r)
  BY <1>1 DEF TakeLock, check_tenant_student_quota, OpenEnrollment, open_enrollment,
     ReactivateEnrollment, BulkLockCourse, BulkSeat, tables
<1>4. CommitUpdateCourse(r)
  BY <1>1, <1>2, <1>3 DEF Step, Finish, Fail, BulkDone, CommitEnrollments,
     CommitDeleteEnrollment, CommitCourseStatus, CommitDeleteCourse, CommitTenant, tables
<1>5. QED
  BY <1>1, <1>4 DEF CommitUpdateCourse, TypeOK

\* The course of a request that is about to commit a new seat is locked by it,
\* and what it writes belongs to that course and was counted.
LEMMA NewSeats ==
  ASSUME TypeOK, BirthInv, NEW r \in Requests, Arrive(r) \/ Step(r), ReservedBy(r),
         NEW e \in Rows, status'[e] \in OccupiesSeat, status[e] \notin OccupiesSeat
  PROVE  /\ e \in tx[r].writes
         /\ tx[r].course \in Courses /\ CourseOf(e) = tx[r].course
         /\ HoldsCourse(r) /\ Fits(r)
         /\ CommitEnrollments(r)
<1>1. ~Rollback(r)
  BY DEF Rollback, tables
<1>2. ~Arrive(r)
  BY DEF Arrive, create_enrollment, update_enrollment, bulk_enroll, delete_enrollment,
     create_grade, update_course, change_course_status, delete_course, activate_plan,
     update_tenant, Begin, tables
<1>3. ~TakeLock(r)
  BY <1>1 DEF TakeLock, check_tenant_student_quota, OpenEnrollment, open_enrollment,
     ReactivateEnrollment, BulkLockCourse, BulkSeat, tables
<1>4. ~CommitDeleteEnrollment(r) /\ ~CommitDeleteCourse(r)
  BY DEF CommitDeleteEnrollment, CommitDeleteCourse, OccupiesSeat
<1>5. CommitEnrollments(r)
  BY <1>1, <1>2, <1>3, <1>4 DEF Step, Finish, Fail, BulkDone, CommitUpdateCourse,
     CommitCourseStatus, CommitTenant, tables
<1>6. /\ e \in tx[r].writes /\ tx[r].op \in SeatEndpoints /\ tx[r].at = "commit"
      /\ tx[r].to \in OccupiesSeat
  BY <1>1, <1>5 DEF CommitEnrollments
<1>7. CASE tx[r].op = "update_enrollment"
  <2>1. Patching(r) /\ e \notin SeatsTaken(tx[r].course)
    BY <1>6, <1>7 DEF Patching, SeatsTaken
  <2>2. QED
    BY <1>5, <1>6, <1>7, <2>1 DEF ReservedBy, SeatReservedBy, PatchTiedBy
<1>8. CASE tx[r].op # "update_enrollment"
  <2>1. Seating(r)
    BY <1>6, <1>8 DEF SeatEndpoints, Seating
  <2>2. QED
    BY <1>5, <1>6, <2>1 DEF ReservedBy, SeatReservedBy, BirthInv, SeatLocked, HoldsCourse
<1>9. QED
  BY <1>7, <1>8

\* A step of r adds seats only to a course it has locked, only the rows it was
\* about to write, and only as many as were counted.
LEMMA SeatsAfter ==
  ASSUME TypeOK, BirthInv, NEW r \in Requests, Arrive(r) \/ Step(r), ReservedBy(r), NEW c \in Courses
  PROVE  \/ SeatsTaken(c)' \subseteq SeatsTaken(c)
         \/ /\ courseLock[c] = r /\ c = tx[r].course /\ CommitEnrollments(r)
            /\ SeatsTaken(c)' \subseteq SeatsTaken(c) \cup tx[r].writes
            /\ Cardinality(SeatsTaken(c) \cup tx[r].writes) <= maxStudents[c]
<1>1. CASE \A e \in Rows : CourseOf(e) = c /\ status'[e] \in OccupiesSeat => status[e] \in OccupiesSeat
  BY <1>1 DEF SeatsTaken
<1>2. CASE \E e \in Rows : CourseOf(e) = c /\ status'[e] \in OccupiesSeat /\ status[e] \notin OccupiesSeat
  <2>1. courseLock[c] = r /\ c = tx[r].course /\ CommitEnrollments(r) /\ Fits(r)
    BY <1>2, NewSeats DEF HoldsCourse
  <2>2. SeatsTaken(c)' \subseteq SeatsTaken(c) \cup tx[r].writes
    BY NewSeats DEF SeatsTaken
  <2>3. QED
    BY <2>1, <2>2 DEF Fits
<1>3. QED
  BY <1>1, <1>2

-----------------------------------------------------------------------------
(* Each step keeps CapacityInv.                                            *)

\* While q holds the course, the seats it was counted with do not grow.
LEMMA CountStands ==
  ASSUME TypeOK, BirthInv, NEW r \in Requests, Arrive(r) \/ Step(r), ReservedBy(r),
         NEW q \in Requests, q # r, NEW c \in Courses, courseLock[c] = q, NEW W \in SUBSET Rows
  PROVE  /\ courseLock'[c] = q /\ maxStudents'[c] = maxStudents[c]
         /\ Cardinality(SeatsTaken(c)' \cup W) <= Cardinality(SeatsTaken(c) \cup W)
         /\ Cardinality(SeatsTaken(c)' \cup W) \in Nat
         /\ Cardinality(SeatsTaken(c) \cup W) \in Nat
<1>1. SeatsTaken(c)' \subseteq SeatsTaken(c)
  BY SeatsAfter
<1>2. SeatsTaken(c) \cup W \in SUBSET Rows
  BY SeatsCount
<1>3. SeatsTaken(c)' \cup W \in SUBSET (SeatsTaken(c) \cup W)
  BY <1>1
<1>4. QED
  BY <1>2, <1>3, FewerRows, RowCount, LocksKept

\* What q has reserved, no other request takes.
LEMMA OthersReserved ==
  ASSUME TypeOK, BirthInv, CapacityKept, CapacityApart,
         NEW r \in Requests, Arrive(r) \/ Step(r), ReservedBy(r),
         NEW q \in Requests, q # r, ReservedBy(q)
  PROVE  ReservedBy(q)'
<1>1. tx'[q] = tx[q]
  BY OthersKept
<1>2. PICK c \in Courses \cup {Nobody}, W \in SUBSET Rows : c = tx[q].course /\ W = tx[q].writes
  BY DEF TypeOK, Transactions
<1>3. SeatsTaken(tx[q].course)' = SeatsTaken(c)'
  BY <1>1, <1>2 DEF SeatsTaken
<1>4. PatchTiedBy(q)'
  BY <1>1 DEF ReservedBy, PatchTiedBy
<1>5. ASSUME c \in Courses, courseLock[c] = q, Cardinality(SeatsTaken(c) \cup W) <= maxStudents[c]
      PROVE  HoldsCourse(q)' /\ Fits(q)'
  <2>1. maxStudents[c] \in Nat
    BY <1>5 DEF TypeOK
  <2>2. /\ courseLock'[c] = q /\ maxStudents'[c] = maxStudents[c]
        /\ Cardinality(SeatsTaken(c)' \cup W) <= Cardinality(SeatsTaken(c) \cup W)
        /\ Cardinality(SeatsTaken(c)' \cup W) \in Nat
        /\ Cardinality(SeatsTaken(c) \cup W) \in Nat
    BY ONLY TypeOK, BirthInv, Arrive(r) \/ Step(r), ReservedBy(r), r \in Requests, q \in Requests,
            q # r, W \in SUBSET Rows, <1>5, CountStands
  <2>3. Cardinality(SeatsTaken(c)' \cup W) <= maxStudents'[c]
    BY ONLY <1>5, <2>1, <2>2
  <2>4. QED
    BY <1>1, <1>2, <1>3, <2>2, <2>3 DEF HoldsCourse, Fits
<1>6. CASE Seating(q)
  <2>1. c \in Courses /\ courseLock[c] = q
    BY <1>2, <1>6 DEF BirthInv, SeatLocked
  <2>2. Seating(q)' /\ ~Patching(q)'
    BY <1>1, <1>6 DEF Seating, Patching, BirthInv, WritesExisting
  <2>3. ASSUME tx[q].at = "batch" PROVE SeatReservedBy(q)'
    <3>1. /\ Cardinality(SeatsTaken(c) \cup W) <= tx[q].taken /\ tx[q].taken <= maxStudents[c]
          /\ tx[q].taken \in Nat /\ maxStudents[c] \in Nat
      BY <1>2, <2>1, <2>3 DEF ReservedBy, SeatReservedBy, TypeOK, Transactions
    <3>2. /\ Cardinality(SeatsTaken(c)' \cup W) <= tx[q].taken
          /\ tx[q].taken <= maxStudents'[c]
      BY <2>1, <3>1, CountStands
    <3>3. QED
      BY <1>1, <1>2, <1>3, <2>2, <2>3, <3>2 DEF SeatReservedBy
  <2>4. ASSUME tx[q].at # "batch" PROVE SeatReservedBy(q)'
    <3>1. Fits(q)' /\ tx'[q].at # "batch"
      BY <1>1, <1>2, <1>5, <1>6, <2>1, <2>4 DEF ReservedBy, SeatReservedBy, Seating, Fits
    <3>2. QED
      BY <2>2, <3>1 DEF SeatReservedBy
  <2>5. SeatReservedBy(q)'
    BY <2>3, <2>4
  <2>6. EditFitsBy(q)'
    BY <1>1, <1>6 DEF ReservedBy, EditFitsBy, Seating
  <2>7. QED
    BY <1>4, <2>5, <2>6 DEF ReservedBy
<1>7. CASE Patching(q)
  <2>1. c \in Courses
    BY <1>2, <1>7 DEF Patching, ReservedBy, PatchTiedBy
  <2>2. \/ courseLock[c] = q /\ Cardinality(SeatsTaken(c) \cup W) <= maxStudents[c]
        \/ courseLock[c] # q /\ W \subseteq SeatsTaken(c)
    <3>1. CASE W \subseteq SeatsTaken(c)
      <4>1. SeatsTaken(c) \cup W = SeatsTaken(c)
        BY <3>1
      <4>2. Cardinality(SeatsTaken(c) \cup W) <= maxStudents[c]
        BY <2>1, <4>1 DEF CapacityKept
      <4>3. QED
        BY <3>1, <4>2
    <3>2. CASE ~(W \subseteq SeatsTaken(c))
      BY <1>2, <1>7, <3>2 DEF ReservedBy, SeatReservedBy, HoldsCourse, Fits
    <3>3. QED
      BY <3>1, <3>2
  <2>3. \/ HoldsCourse(q)' /\ Fits(q)'
        \/ tx'[q].writes \subseteq SeatsTaken(tx[q].course)'
    <3>1. CASE courseLock[c] # q /\ W \subseteq SeatsTaken(c)
      <4>1. ASSUME NEW e \in W PROVE e \in SeatsTaken(c)'
        <5>1. e \in Rows /\ CourseOf(e) = c /\ status[e] \in OccupiesSeat
          BY <3>1, <4>1 DEF SeatsTaken
        <5>2. status'[e] \in OccupiesSeat
          BY <1>2, <1>7, <3>1, <4>1, <5>1 DEF CapacityApart, HoldsCourse
        <5>3. QED
          BY <5>1, <5>2 DEF SeatsTaken
      <4>2. QED
        BY <1>1, <1>2, <1>3, <4>1
    <3>2. CASE courseLock[c] = q /\ Cardinality(SeatsTaken(c) \cup W) <= maxStudents[c]
      BY <1>5, <2>1, <3>2
    <3>3. QED
      BY <2>2, <3>1, <3>2
  <2>4. ~Seating(q)' /\ tx'[q].at # "batch"
    BY <1>1, <1>7 DEF Patching, Seating
  <2>5. SeatReservedBy(q)' /\ EditFitsBy(q)'
    BY <1>1, <1>7, <2>3, <2>4 DEF SeatReservedBy, EditFitsBy, Patching
  <2>6. QED
    BY <1>4, <2>5 DEF ReservedBy
<1>8. CASE ~Seating(q) /\ ~Patching(q)
  <2>1. SeatReservedBy(q)'
    BY <1>1, <1>8 DEF SeatReservedBy, Seating, Patching
  <2>2. ASSUME tx[q].op = "update_course"
        PROVE  Cardinality(SeatsTaken(c)') <= tx[q].limit
    <3>1. c \in Courses /\ Cardinality(SeatsTaken(c)) <= tx[q].limit /\ tx[q].limit \in Nat
      BY <1>2, <2>2 DEF ReservedBy, EditFitsBy, TypeOK, Transactions
    <3>2. SeatsTaken(c)' \in SUBSET SeatsTaken(c)
      BY <1>2, <2>2 DEF CapacityApart, SeatsTaken
    <3>3. SeatsTaken(c) \in SUBSET Rows
      BY DEF SeatsTaken
    <3>4. QED
      BY <3>1, <3>2, <3>3, FewerRows, RowCount
  <2>3. EditFitsBy(q)'
    BY <1>1, <1>2, <1>3, <2>2 DEF ReservedBy, EditFitsBy
  <2>4. QED
    BY <1>4, <2>1, <2>3 DEF ReservedBy
<1>9. QED
  BY <1>6, <1>7, <1>8

\* A request that has ended has reserved nothing.
LEMMA EndReserved ==
  ASSUME TypeOK, NEW r \in Requests, End(r)
  PROVE  ReservedBy(r)'
<1>1. tx'[r] = NoTx
  BY DEF End, TypeOK
<1>2. QED
  BY <1>1 DEF NoTx, ReservedBy, PatchTiedBy, SeatReservedBy, EditFitsBy, Seating, Patching

\* A request that arrives has reserved nothing yet: a PATCH that commits at once
\* writes over a seat, or writes none.
LEMMA ArriveReserved ==
  ASSUME TypeOK, NEW r \in Requests, Arrive(r), ReservedBy(r)
  PROVE  ReservedBy(r)'
<1>1. ASSUME NEW t, Begin(r, t), t.at \in {"quota", "seat", "commit"},
             t.op \in {"create_enrollment", "bulk_enroll"} => t.at # "commit",
             t.op \notin {"update_enrollment", "update_course"}
      PROVE  ReservedBy(r)'
  <2>1. tx'[r] = t
    BY <1>1 DEF Begin, TypeOK
  <2>2. QED
    BY <1>1, <2>1 DEF ReservedBy, PatchTiedBy, SeatReservedBy, EditFitsBy, Seating, Patching
<1>2. CASE create_enrollment(r)
  <2>1. PICK s \in Students, c \in Courses, st \in BirthStates :
            Begin(r, [NoTx EXCEPT !.op = "create_enrollment", !.at = FirstLock(r),
                                  !.course = c, !.students = {s}, !.to = st])
    BY <1>2 DEF create_enrollment
  <2>2. QED
    BY <1>1, <2>1 DEF FirstLock, NoTx
<1>3. CASE update_enrollment(r)
  <2>1. PICK e \in Rows, target \in EnrollmentStatus, at \in {"quota", "seat", "commit"} :
            /\ at = "commit" => target \notin OccupiesSeat \/ status[e] \in OccupiesSeat
            /\ Begin(r, [NoTx EXCEPT !.op = "update_enrollment", !.at = at,
                                     !.course = CourseOf(e), !.students = {StudentOf(e)},
                                     !.writes = IF target = status[e] THEN {} ELSE {e},
                                     !.to = target])
    BY <1>3 DEF update_enrollment, FirstLock, TakesSeat
  <2>2. /\ tx'[r].op = "update_enrollment" /\ tx'[r].at = at /\ tx'[r].course = CourseOf(e)
        /\ tx'[r].writes = IF target = status[e] THEN {} ELSE {e}
        /\ tx'[r].to = target /\ status' = status
    BY <2>1 DEF Begin, TypeOK, NoTx, tables
  <2>3. Patching(r)' => tx'[r].writes \subseteq SeatsTaken(tx[r].course)'
    BY <2>1, <2>2 DEF Patching, SeatsTaken
  <2>4. CourseOf(e) \in Courses
    BY RowParts
  <2>5. SeatReservedBy(r)'
    BY <2>2, <2>3 DEF SeatReservedBy, Seating
  <2>6. QED
    BY <2>2, <2>4, <2>5 DEF ReservedBy, PatchTiedBy, EditFitsBy
<1>4. CASE bulk_enroll(r)
  BY <1>1, <1>4 DEF bulk_enroll, NoTx
<1>5. CASE delete_enrollment(r)
  BY <1>1, <1>5 DEF delete_enrollment, NoTx
<1>6. CASE create_grade(r)
  <2>1. tx' = tx /\ tx[r] = NoTx
    BY <1>6 DEF create_grade
  <2>2. QED
    BY <2>1 DEF NoTx, ReservedBy, PatchTiedBy, SeatReservedBy, EditFitsBy, Seating, Patching
<1>7. CASE update_course(r)
  <2>1. PICK c \in Courses, limit \in Limits :
            /\ limit >= Cardinality(SeatsTaken(c))
            /\ Begin(r, [NoTx EXCEPT !.op = "update_course",
                                     !.at = "commit", !.course = c, !.limit = limit])
    BY <1>7 DEF update_course
  <2>2. /\ tx'[r].op = "update_course" /\ tx'[r].at = "commit" /\ tx'[r].course = c
        /\ tx'[r].limit = limit /\ status' = status
    BY <2>1 DEF Begin, TypeOK, NoTx, tables
  <2>3. SeatsTaken(tx[r].course)' = SeatsTaken(c)
    BY <2>2 DEF SeatsTaken
  <2>4. Cardinality(SeatsTaken(c)) \in Nat /\ limit \in Nat
    BY SeatsCount, SeatsAssumption
  <2>5. Cardinality(SeatsTaken(c)) <= limit
    BY <2>1, <2>4
  <2>6. EditFitsBy(r)'
    BY <2>2, <2>3, <2>5 DEF EditFitsBy
  <2>7. QED
    BY <2>2, <2>6 DEF ReservedBy, PatchTiedBy, SeatReservedBy, Seating, Patching
<1>8. CASE change_course_status(r)
  BY <1>1, <1>8 DEF change_course_status, NoTx
<1>9. CASE delete_course(r)
  BY <1>1, <1>9 DEF delete_course, NoTx
<1>10. CASE activate_plan(r) \/ update_tenant(r)
  BY <1>1, <1>10 DEF activate_plan, update_tenant, NoTx
<1>11. QED
  BY <1>2, <1>3, <1>4, <1>5, <1>6, <1>7, <1>8, <1>9, <1>10 DEF Arrive

\* Each seat that a step finds is free, and is the only one it takes.
LEMMA StepReserved ==
  ASSUME TypeOK, BirthInv, CapacityKept, NEW r \in Requests, Step(r), ReservedBy(r)
  PROVE  ReservedBy(r)'
<1> PICK t \in Transactions : t = tx[r]
  BY DEF TypeOK
<1>1. Rollback(r) => ReservedBy(r)'
  BY EndReserved DEF Rollback
<1>2. CASE check_tenant_student_quota(r)
  BY <1>1, <1>2 DEF check_tenant_student_quota, ReservedBy, PatchTiedBy, SeatReservedBy,
     EditFitsBy, Seating, Patching, TypeOK, Transactions, tables
<1>3. CASE OpenEnrollment(r) /\ ~Rollback(r)
  <2>1. PICK e \in Rows :
           /\ Cardinality(SeatsTaken(t.course)) < maxStudents[t.course]
           /\ tx' = [tx EXCEPT ![r].at = "commit", ![r].writes = {e}]
           /\ UNCHANGED tables
    BY <1>3 DEF OpenEnrollment, open_enrollment, NextRow
  <2>2. /\ tx'[r].op = "create_enrollment" /\ tx'[r].at = "commit" /\ tx'[r].course = t.course
        /\ tx'[r].writes = {e} /\ tx'[r].to = t.to
    BY <1>3, <2>1 DEF OpenEnrollment, TypeOK, Transactions
  <2>3. Cardinality(SeatsTaken(t.course) \cup {e}) <= maxStudents[t.course]
    <3>1. t.course \in Courses
      BY <1>3 DEF OpenEnrollment, open_enrollment, BirthInv, NoRowYet
    <3>2. /\ Cardinality(SeatsTaken(t.course)) \in Nat
          /\ Cardinality(SeatsTaken(t.course) \cup {e}) \in Nat
          /\ maxStudents[t.course] \in Nat
      BY <3>1, SeatsCount DEF TypeOK
    <3>3. Cardinality(SeatsTaken(t.course) \cup {e}) <= Cardinality(SeatsTaken(t.course)) + 1
      BY SeatsCount, OneMoreRow
    <3>4. QED
      BY <2>1, <3>2, <3>3
  <2>4. SeatsTaken(tx[r].course)' = SeatsTaken(t.course)
    BY <2>1, <2>2 DEF SeatsTaken, tables
  <2>5. SeatReservedBy(r)'
    BY <2>1, <2>2, <2>3, <2>4 DEF SeatReservedBy, Fits, Patching, Seating, HoldsCourse, tables
  <2>6. QED
    BY <2>2, <2>5 DEF ReservedBy, PatchTiedBy, EditFitsBy
<1>4. CASE ReactivateEnrollment(r) /\ ~Rollback(r)
  <2>1. /\ Cardinality(SeatsTaken(t.course) \ t.writes) < maxStudents[t.course]
        /\ tx' = [tx EXCEPT ![r].at = "commit"]
        /\ courseLock' = [courseLock EXCEPT ![t.course] = r]
        /\ UNCHANGED tables
        /\ t.op = "update_enrollment"
    BY <1>4 DEF ReactivateEnrollment
  <2>2. /\ tx'[r].op = t.op /\ tx'[r].at = "commit" /\ tx'[r].course = t.course
        /\ tx'[r].writes = t.writes /\ tx'[r].to = t.to
    BY <2>1 DEF TypeOK, Transactions
  <2>3. t.course \in Courses /\ \A e, f \in t.writes : e = f
    BY <2>1 DEF ReservedBy, PatchTiedBy
  <2>4. Cardinality(SeatsTaken(t.course) \cup t.writes) <= maxStudents[t.course]
    <3> DEFINE S == SeatsTaken(t.course) \ t.writes
    <3>1. t.writes \subseteq Rows
      BY DEF Transactions
    <3>2. /\ S \in SUBSET Rows /\ Cardinality(S) \in Nat /\ maxStudents[t.course] \in Nat
          /\ Cardinality(SeatsTaken(t.course) \cup t.writes) \in Nat
      BY <2>3, <3>1, SeatsCount DEF TypeOK
    <3>3. CASE t.writes = {}
      <4>1. SeatsTaken(t.course) \cup t.writes = S
        BY <3>3
      <4>2. QED
        BY <2>1, <3>2, <4>1
    <3>4. CASE t.writes # {}
      <4>1. PICK e \in t.writes : t.writes = {e}
        BY <2>3, <3>4
      <4>2. SeatsTaken(t.course) \cup t.writes = S \cup {e}
        BY <4>1
      <4>3. Cardinality(S \cup {e}) <= Cardinality(S) + 1
        BY <3>2, OneMoreRow
      <4>4. QED
        BY <2>1, <3>2, <4>2, <4>3
    <3>5. QED
      BY <3>3, <3>4
  <2>5. SeatsTaken(tx[r].course)' = SeatsTaken(t.course)
    BY <2>1, <2>2 DEF SeatsTaken, tables
  <2>6. courseLock'[t.course] = r
    BY <2>1, <2>3 DEF TypeOK
  <2>7. SeatReservedBy(r)'
    BY <2>1, <2>2, <2>4, <2>5, <2>6 DEF SeatReservedBy, Fits, Patching, Seating, HoldsCourse, tables
  <2>8. QED
    BY <2>1, <2>2, <2>3, <2>7 DEF ReservedBy, PatchTiedBy, EditFitsBy
<1>5. CASE BulkLockCourse(r) /\ ~Rollback(r)
  <2>1. /\ tx' = [tx EXCEPT ![r].at = "batch", ![r].taken = Cardinality(SeatsTaken(t.course))]
        /\ UNCHANGED tables
        /\ t.op = "bulk_enroll" /\ t.at = "seat"
    BY <1>5 DEF BulkLockCourse
  <2>2. /\ tx'[r].op = t.op /\ tx'[r].at = "batch" /\ tx'[r].course = t.course
        /\ tx'[r].writes = t.writes /\ tx'[r].to = t.to
        /\ tx'[r].taken = Cardinality(SeatsTaken(t.course))
    BY <2>1 DEF TypeOK, Transactions
  <2>3. t.course \in Courses /\ t.writes = {}
    BY <2>1 DEF BirthInv, NoRowYet
  <2>4. SeatsTaken(t.course) \cup t.writes = SeatsTaken(t.course)
    BY <2>3
  <2>5. /\ Cardinality(SeatsTaken(t.course) \cup t.writes) <= Cardinality(SeatsTaken(t.course))
        /\ Cardinality(SeatsTaken(t.course)) \in Nat
        /\ Cardinality(SeatsTaken(t.course)) <= maxStudents[t.course]
    <3>1. Cardinality(SeatsTaken(t.course) \cup t.writes) = Cardinality(SeatsTaken(t.course))
      BY <2>4
    <3>2. Cardinality(SeatsTaken(t.course)) \in Nat
      BY SeatsCount
    <3>3. Cardinality(SeatsTaken(t.course)) <= maxStudents[t.course]
      BY <2>3 DEF CapacityKept
    <3>4. QED
      BY <3>1, <3>2, <3>3
  <2>6. SeatsTaken(tx[r].course)' = SeatsTaken(t.course)
    BY <2>1, <2>2 DEF SeatsTaken, tables
  <2>7. SeatReservedBy(r)'
    BY <2>1, <2>2, <2>5, <2>6 DEF SeatReservedBy, Fits, Patching, Seating, HoldsCourse, tables
  <2>8. QED
    BY <2>1, <2>2, <2>7 DEF ReservedBy, PatchTiedBy, EditFitsBy
<1>6. CASE BulkSeat(r)
  <2>1. /\ t.at = "batch" /\ t.op # "update_enrollment" /\ UNCHANGED tables
        /\ Seating(r)
    BY <1>6 DEF BulkSeat, BirthInv, WritesExisting, Seating
  <2>2. /\ t.course \in Courses /\ maxStudents[t.course] \in Nat /\ t.taken \in Nat
        /\ t.writes \in SUBSET Rows
    BY <2>1 DEF BirthInv, SeatLocked, TypeOK, Transactions
  <2>3. /\ Cardinality(SeatsTaken(t.course) \cup t.writes) <= t.taken
        /\ t.taken <= maxStudents[t.course]
        /\ Cardinality(SeatsTaken(t.course) \cup t.writes) \in Nat
    BY <2>1, <2>2, SeatsCount DEF ReservedBy, SeatReservedBy
  <2>4. PICK W \in SUBSET Rows, n \in Nat :
           /\ tx'[r].op = t.op /\ tx'[r].at = "batch" /\ tx'[r].course = t.course
           /\ tx'[r].writes = W /\ tx'[r].taken = n /\ tx'[r].to = t.to
           /\ Cardinality(SeatsTaken(t.course) \cup W) <= n
           /\ n <= maxStudents[t.course]
    <3>1. PICK s \in t.students :
             \/ /\ t.taken < maxStudents[t.course]
                /\ \E e \in NextRow(s, t.course) :
                     tx' = [tx EXCEPT ![r].students = @ \ {s}, ![r].writes = @ \cup {e}, ![r].taken = @ + 1]
             \/ tx' = [tx EXCEPT ![r].students = @ \ {s}]
      BY <1>6 DEF BulkSeat
    <3>2. ASSUME t.taken < maxStudents[t.course], NEW e \in Rows,
                 tx' = [tx EXCEPT ![r].students = @ \ {s}, ![r].writes = @ \cup {e}, ![r].taken = @ + 1]
          PROVE  /\ tx'[r].op = t.op /\ tx'[r].at = t.at /\ tx'[r].course = t.course
                 /\ tx'[r].writes = t.writes \cup {e} /\ tx'[r].taken = t.taken + 1
                 /\ tx'[r].to = t.to
                 /\ Cardinality(SeatsTaken(t.course) \cup (t.writes \cup {e})) <= t.taken + 1
                 /\ t.taken + 1 <= maxStudents[t.course]
      <4>1. /\ tx'[r].op = t.op /\ tx'[r].at = t.at /\ tx'[r].course = t.course
            /\ tx'[r].writes = t.writes \cup {e} /\ tx'[r].taken = t.taken + 1
            /\ tx'[r].to = t.to
        BY <3>2 DEF TypeOK, Transactions
      <4>2. SeatsTaken(t.course) \cup (t.writes \cup {e}) = (SeatsTaken(t.course) \cup t.writes) \cup {e}
        OBVIOUS
      <4>3. SeatsTaken(t.course) \cup t.writes \in SUBSET Rows
        BY <2>2, SeatsCount
      <4>4. /\ Cardinality((SeatsTaken(t.course) \cup t.writes) \cup {e})
                 <= Cardinality(SeatsTaken(t.course) \cup t.writes) + 1
            /\ Cardinality((SeatsTaken(t.course) \cup t.writes) \cup {e}) \in Nat
        BY <4>3, OneMoreRow, RowCount
      <4>5. /\ Cardinality(SeatsTaken(t.course) \cup (t.writes \cup {e})) <= t.taken + 1
            /\ t.taken + 1 <= maxStudents[t.course]
        <5> DEFINE m == Cardinality(SeatsTaken(t.course) \cup t.writes)
                   n == Cardinality((SeatsTaken(t.course) \cup t.writes) \cup {e})
        <5>1. Cardinality(SeatsTaken(t.course) \cup (t.writes \cup {e})) = n
          BY <4>2
        <5>2. /\ m \in Nat /\ n \in Nat /\ t.taken \in Nat /\ maxStudents[t.course] \in Nat
              /\ m <= t.taken /\ n <= m + 1 /\ t.taken < maxStudents[t.course]
          BY <2>2, <2>3, <3>2, <4>4
        <5> HIDE DEF m, n
        <5>3. QED
          BY <5>1, <5>2
      <4>6. QED
        BY <4>1, <4>5
    <3>3. ASSUME tx' = [tx EXCEPT ![r].students = @ \ {s}]
          PROVE  /\ tx'[r].op = t.op /\ tx'[r].at = t.at /\ tx'[r].course = t.course
                 /\ tx'[r].writes = t.writes /\ tx'[r].taken = t.taken /\ tx'[r].to = t.to
      BY <3>3 DEF TypeOK, Transactions
    <3>4. CASE /\ t.taken < maxStudents[t.course]
               /\ \E e \in NextRow(s, t.course) :
                    tx' = [tx EXCEPT ![r].students = @ \ {s}, ![r].writes = @ \cup {e}, ![r].taken = @ + 1]
      <4>1. PICK e \in Rows :
               tx' = [tx EXCEPT ![r].students = @ \ {s}, ![r].writes = @ \cup {e}, ![r].taken = @ + 1]
        BY <3>4 DEF NextRow
      <4>2. t.writes \cup {e} \in SUBSET Rows /\ t.taken + 1 \in Nat
        BY <2>2
      <4>3. QED
        BY <2>1, <3>2, <3>4, <4>1, <4>2
    <3>5. CASE tx' = [tx EXCEPT ![r].students = @ \ {s}]
      BY <2>1, <2>2, <2>3, <3>3, <3>5
    <3>6. QED
      BY <3>1, <3>4, <3>5
  <2>5. SeatsTaken(tx[r].course)' = SeatsTaken(t.course)
    BY <2>1, <2>4 DEF SeatsTaken, tables
  <2>6. SeatReservedBy(r)'
    BY <2>1, <2>4, <2>5 DEF SeatReservedBy, Fits, Patching, Seating, HoldsCourse, tables
  <2>7. QED
    BY <2>1, <2>4, <2>6 DEF ReservedBy, PatchTiedBy, EditFitsBy
<1>7. CASE BulkDone(r)
  <2>1. /\ t.at = "batch" /\ tx' = [tx EXCEPT ![r].at = "commit"] /\ UNCHANGED <<tables, locks>>
        /\ t.op # "update_enrollment" /\ Seating(r)
    BY <1>7 DEF BulkDone, BirthInv, WritesExisting, Seating
  <2>2. /\ tx'[r].op = t.op /\ tx'[r].at = "commit" /\ tx'[r].course = t.course
        /\ tx'[r].writes = t.writes /\ tx'[r].to = t.to
    BY <2>1 DEF TypeOK, Transactions
  <2>3. /\ t.course \in Courses /\ maxStudents[t.course] \in Nat /\ t.taken \in Nat
        /\ t.writes \in SUBSET Rows
    BY <2>1 DEF BirthInv, SeatLocked, TypeOK, Transactions
  <2>4. Cardinality(SeatsTaken(t.course) \cup t.writes) <= maxStudents[t.course]
    <3>1. /\ Cardinality(SeatsTaken(t.course) \cup t.writes) <= t.taken
          /\ t.taken <= maxStudents[t.course]
      BY <2>1 DEF ReservedBy, SeatReservedBy
    <3>2. Cardinality(SeatsTaken(t.course) \cup t.writes) \in Nat
      BY <2>3, SeatsCount
    <3>3. QED
      BY <2>3, <3>1, <3>2
  <2>5. SeatsTaken(tx[r].course)' = SeatsTaken(t.course)
    BY <2>1, <2>2 DEF SeatsTaken, tables
  <2>6. SeatReservedBy(r)'
    BY <2>1, <2>2, <2>4, <2>5 DEF SeatReservedBy, Fits, Patching, Seating, HoldsCourse, tables
  <2>7. QED
    BY <2>1, <2>2, <2>6 DEF ReservedBy, PatchTiedBy, EditFitsBy
<1>8. CASE CommitEnrollments(r) \/ CommitDeleteEnrollment(r) \/ CommitUpdateCourse(r)
           \/ CommitCourseStatus(r) \/ CommitDeleteCourse(r) \/ CommitTenant(r) \/ Fail(r)
  BY <1>1, <1>8, EndReserved DEF CommitEnrollments, CommitDeleteEnrollment, CommitUpdateCourse,
     CommitCourseStatus, CommitDeleteCourse, CommitTenant, Fail
<1>9. QED
  BY <1>1, <1>2, <1>3, <1>4, <1>5, <1>6, <1>7, <1>8 DEF Step, TakeLock, Finish

\* A step that adds seats has reserved them, and one that lowers a capacity has
\* counted them, so no course is overfull after it.
LEMMA StepKeepsCapacity ==
  ASSUME TypeOK, BirthInv, CapacityKept, NEW r \in Requests, Arrive(r) \/ Step(r), ReservedBy(r)
  PROVE  CapacityKept'
<1>1. SUFFICES ASSUME NEW c \in Courses
      PROVE  Cardinality(SeatsTaken(c)') <= maxStudents'[c]
  BY DEF CapacityKept
<1>2. maxStudents[c] \in Nat /\ Cardinality(SeatsTaken(c)) <= maxStudents[c]
  BY DEF TypeOK, CapacityKept
<1>3. PICK W \in SUBSET Rows : W = tx[r].writes
  BY DEF TypeOK, Transactions
<1>4. /\ SeatsTaken(c) \in SUBSET Rows /\ SeatsTaken(c) \cup W \in SUBSET Rows
      /\ Cardinality(SeatsTaken(c)) \in Nat /\ Cardinality(SeatsTaken(c) \cup W) \in Nat
  BY SeatsCount
<1>5. CASE maxStudents'[c] # maxStudents[c]
  <2>1. /\ tx[r].op = "update_course" /\ c = tx[r].course
        /\ maxStudents'[c] = tx[r].limit /\ status' = status
    BY <1>5, CapacityWrites
  <2>2. SeatsTaken(c)' = SeatsTaken(c)
    BY <2>1 DEF SeatsTaken
  <2>3. QED
    BY <2>1, <2>2 DEF ReservedBy, EditFitsBy
<1>6. CASE maxStudents'[c] = maxStudents[c] /\ SeatsTaken(c)' \subseteq SeatsTaken(c)
  <2>1. Cardinality(SeatsTaken(c)') <= Cardinality(SeatsTaken(c)) /\ Cardinality(SeatsTaken(c)') \in Nat
    BY <1>4, <1>6, FewerRows, RowCount
  <2>2. QED
    BY <1>2, <1>4, <1>6, <2>1
<1>7. CASE /\ maxStudents'[c] = maxStudents[c]
           /\ SeatsTaken(c)' \subseteq SeatsTaken(c) \cup W
           /\ Cardinality(SeatsTaken(c) \cup W) <= maxStudents[c]
  <2>1. /\ Cardinality(SeatsTaken(c)') <= Cardinality(SeatsTaken(c) \cup W)
        /\ Cardinality(SeatsTaken(c)') \in Nat
    BY <1>4, <1>7, FewerRows, RowCount
  <2>2. QED
    BY <1>2, <1>4, <1>7, <2>1
<1>8. QED
  BY <1>3, <1>5, <1>6, <1>7, SeatsAfter

-----------------------------------------------------------------------------

LEMMA CapacityInit == Init => CapacityKept /\ \A q \in Requests : ReservedBy(q)
<1>1. ASSUME Init, NEW c \in Courses
      PROVE  Cardinality(SeatsTaken(c)) <= maxStudents[c]
  <2>1. SeatsTaken(c) = {}
    BY <1>1 DEF Init, SeatsTaken, OccupiesSeat
  <2>2. QED
    BY <1>1, <2>1, FS_EmptySet, SeatsAssumption DEF Init
<1>2. QED
  BY <1>1 DEF Init, CapacityKept, ReservedBy, PatchTiedBy, SeatReservedBy, EditFitsBy,
     Patching, Seating, NoTx

LEMMA CapacityStutter ==
  ASSUME UNCHANGED vars, CapacityKept, \A q \in Requests : ReservedBy(q)
  PROVE  CapacityKept' /\ \A q \in Requests : ReservedBy(q)'
<1>1. CapacityKept'
  BY DEF vars, tables, CapacityKept, SeatsTaken
<1>2. ASSUME NEW q \in Requests
      PROVE  ReservedBy(q)'
  <2>1. SeatsTaken(tx[q].course)' = SeatsTaken(tx[q].course)
    BY DEF vars, tables, SeatsTaken
  <2>2. /\ Seating(q)' = Seating(q) /\ Patching(q)' = Patching(q)
        /\ HoldsCourse(q)' = HoldsCourse(q) /\ Fits(q)' = Fits(q)
    BY <2>1 DEF vars, tables, locks, Seating, Patching, HoldsCourse, Fits
  <2>3. QED
    BY <2>1, <2>2 DEF vars, tables, locks, ReservedBy, PatchTiedBy, SeatReservedBy, EditFitsBy
<1>3. QED
  BY <1>1, <1>2

\* However many enrolments, imports, pauses, reactivations, deletions, edits and
\* closings run at once, whatever the forms ask for, the seats held in a course
\* never exceed its capacity, but for two races: the seat of a matricula is taken
\* from under a PATCH that was let through because of it, or somebody sits down
\* between the count of a new capacity and its commit (CapacityApart).
THEOREM CapacityKeptApart == Spec /\ [][CapacityApart]_vars => []CapacityKept
<1> DEFINE Inv == CapacityKept /\ \A q \in Requests : ReservedBy(q)
<1>1. Init => Inv
  BY CapacityInit
<1>2. TypeOK /\ BirthInv /\ Inv /\ [Next]_vars /\ [CapacityApart]_vars => Inv'
  <2>1. ASSUME TypeOK, BirthInv, Inv, CapacityApart, NEW r \in Requests, Arrive(r) \/ Step(r)
        PROVE  Inv'
    <3>1. CapacityKept'
      BY <2>1, StepKeepsCapacity
    <3>2. ASSUME NEW q \in Requests PROVE ReservedBy(q)'
      BY <2>1, OthersReserved, ArriveReserved, StepReserved
    <3>3. QED
      BY <3>1, <3>2
  <2>2. UNCHANGED vars /\ Inv => Inv'
    BY CapacityStutter
  <2>3. QED
    BY <2>1, <2>2 DEF Next
<1>3. QED
  BY <1>1, <1>2, BirthInvariant, PTL DEF Spec

\* So where the academy's requests come one at a time, no sequence of them
\* overfills a course.
THEOREM CapacityKeptAlone ==
  ASSUME \A q, r \in Requests : q = r
  PROVE  Spec => []CapacityKept
<1>1. TypeOK /\ [Next]_vars => [CapacityApart]_vars
  <2>1. ASSUME TypeOK, NEW r \in Requests, Arrive(r) \/ Step(r) PROVE CapacityApart
    <3>1. CASE status' = status
      BY <3>1 DEF CapacityApart
    <3>2. CASE status' # status
      <4>1. ~Rollback(r)
        BY <3>2 DEF Rollback, tables
      <4>2. ~Arrive(r) /\ ~TakeLock(r)
        BY <3>2, <4>1 DEF Arrive, create_enrollment, update_enrollment, bulk_enroll,
           delete_enrollment, create_grade, update_course, change_course_status, delete_course,
           activate_plan, update_tenant, Begin, TakeLock, check_tenant_student_quota,
           OpenEnrollment, open_enrollment, ReactivateEnrollment, BulkLockCourse, BulkSeat, tables
      <4>3. CASE CommitEnrollments(r)
        <5>1. \A e \in Rows : status'[e] = IF e \in tx[r].writes THEN tx[r].to ELSE status[e]
          BY <4>1, <4>3 DEF CommitEnrollments
        <5>2. tx[r].op # "update_course"
          BY <4>3 DEF CommitEnrollments, SeatEndpoints
        <5>3. QED
          BY <5>1, <5>2 DEF CapacityApart, Patching
      <4>4. CASE CommitDeleteEnrollment(r) \/ CommitDeleteCourse(r)
        <5>1. tx[r].op \in {"delete_enrollment", "delete_course"}
          BY <4>4 DEF CommitDeleteEnrollment, CommitDeleteCourse
        <5>2. QED
          BY <5>1 DEF CapacityApart, Patching
      <4>5. QED
        BY <2>1, <3>2, <4>1, <4>2, <4>3, <4>4 DEF Step, Finish, Fail, BulkDone,
           CommitUpdateCourse, CommitCourseStatus, CommitTenant, tables
    <3>3. QED
      BY <3>1, <3>2
  <2>2. QED
    BY <2>1 DEF Next
<1>2. QED
  BY <1>1, TypeCorrect, CapacityKeptApart, PTL DEF Spec

-----------------------------------------------------------------------------
(* With no form that asks for "enrolled", a PATCH that makes a matricula    *)
(* active found it inactive, and needed the lock.                           *)

NoRowEnrolled == \A e \in Rows : status[e] # "enrolled"

PlainBy(q) ==
    /\ tx[q].to # "enrolled" /\ tx[q].op # "update_course"
    /\ tx[q].op = "update_enrollment" => tx[q].course \in Courses
    /\ Patching(q) /\ tx[q].writes # {} => HoldsCourse(q)

LEMMA StepNotEnrolled ==
  ASSUME TypeOK, NoRowEnrolled, NEW r \in Requests, Arrive(r) \/ Step(r), PlainBy(r)
  PROVE  NoRowEnrolled'
<1>1. Rollback(r) => status' = status
  BY DEF Rollback, tables
<1>2. ASSUME Arrive(r) PROVE status' = status
  BY <1>2 DEF Arrive, create_enrollment, update_enrollment, bulk_enroll, delete_enrollment,
     create_grade, update_course, change_course_status, delete_course, activate_plan,
     update_tenant, Begin, tables
<1>3. ASSUME TakeLock(r) PROVE status' = status
  BY <1>1, <1>3 DEF TakeLock, check_tenant_student_quota, OpenEnrollment, open_enrollment,
     ReactivateEnrollment, BulkLockCourse, BulkSeat, tables
<1>4. ASSUME CommitEnrollments(r) PROVE NoRowEnrolled'
  BY <1>1, <1>4 DEF CommitEnrollments, NoRowEnrolled, PlainBy
<1>5. ASSUME CommitDeleteEnrollment(r) \/ CommitDeleteCourse(r) PROVE NoRowEnrolled'
  BY <1>5 DEF CommitDeleteEnrollment, CommitDeleteCourse, NoRowEnrolled
<1>6. ASSUME Finish(r) \/ Fail(r) PROVE NoRowEnrolled'
  BY <1>1, <1>4, <1>5, <1>6 DEF Finish, Fail, BulkDone, CommitUpdateCourse,
     CommitCourseStatus, CommitTenant, tables, NoRowEnrolled
<1>7. QED
  BY <1>2, <1>3, <1>6 DEF Step, NoRowEnrolled

LEMMA ArrivePlain ==
  ASSUME TypeOK, NoRowEnrolled, NEW r \in Requests, Arrive(r), PlainBy(r),
         BirthStates \subseteq {"active"}, "update_course" \notin Endpoints
  PROVE  PlainBy(r)'
<1>1. ASSUME NEW t, Begin(r, t), t.op # "update_enrollment", t.to # "enrolled"
      PROVE  PlainBy(r)'
  <2>1. tx'[r] = t /\ t.op # "update_course"
    BY <1>1 DEF Begin, TypeOK
  <2>2. QED
    BY <1>1, <2>1 DEF PlainBy, Patching
<1> USE DEF NoTx
<1>2. CASE create_enrollment(r)
  <2>1. PICK s \in Students, c \in Courses, st \in BirthStates :
            Begin(r, [NoTx EXCEPT !.op = "create_enrollment", !.at = FirstLock(r),
                                  !.course = c, !.students = {s}, !.to = st])
    BY <1>2 DEF create_enrollment
  <2>2. st = "active"
    OBVIOUS
  <2>3. QED
    BY <1>1, <2>1, <2>2
<1>3. CASE update_enrollment(r)
  <2>1. PICK e \in Rows, target \in EnrollmentStatus, at \in {"quota", "seat", "commit"} :
            /\ Present(e)
            /\ EnrollmentTransitionAllowed(status[e], target)
            /\ at = "commit" => target \notin OccupiesSeat \/ status[e] \in OccupiesSeat
            /\ Begin(r, [NoTx EXCEPT !.op = "update_enrollment", !.at = at,
                                     !.course = CourseOf(e), !.students = {StudentOf(e)},
                                     !.writes = IF target = status[e] THEN {} ELSE {e},
                                     !.to = target])
    BY <1>3 DEF update_enrollment, FirstLock, TakesSeat
  <2>2. /\ tx'[r].op = "update_enrollment" /\ tx'[r].at = at /\ tx'[r].course = CourseOf(e)
        /\ tx'[r].writes = IF target = status[e] THEN {} ELSE {e}
        /\ tx'[r].to = target
    BY <2>1 DEF Begin, TypeOK
  <2>3. target # "enrolled"
    BY <2>1 DEF NoRowEnrolled, EnrollmentTransitionAllowed, EnrollmentTransitions, Present,
       EnrollmentStatus
  <2>4. Patching(r)' => tx'[r].writes = {}
    BY <2>1, <2>2, <2>3 DEF NoRowEnrolled, Patching, OccupiesSeat
  <2>5. CourseOf(e) \in Courses
    BY RowParts
  <2>6. QED
    BY <2>2, <2>3, <2>4, <2>5 DEF PlainBy
<1>4. CASE bulk_enroll(r)
  BY <1>1, <1>4 DEF bulk_enroll
<1>5. CASE delete_enrollment(r)
  BY <1>1, <1>5 DEF delete_enrollment
<1>6. CASE create_grade(r)
  BY <1>6 DEF create_grade, PlainBy, Patching
<1>7. CASE update_course(r)
  BY <1>7 DEF update_course, Begin
<1>8. CASE change_course_status(r)
  BY <1>1, <1>8 DEF change_course_status, CourseStatus
<1>9. CASE delete_course(r)
  BY <1>1, <1>9 DEF delete_course
<1>10. CASE activate_plan(r) \/ update_tenant(r)
  BY <1>1, <1>10 DEF activate_plan, update_tenant
<1>11. QED
  BY <1>2, <1>3, <1>4, <1>5, <1>6, <1>7, <1>8, <1>9, <1>10 DEF Arrive

LEMMA StepPlain ==
  ASSUME TypeOK, BirthInv, NEW r \in Requests, Step(r), PlainBy(r)
  PROVE  PlainBy(r)'
<1> PICK t \in Transactions : t = tx[r]
  BY DEF TypeOK
<1>1. End(r) => PlainBy(r)'
  BY DEF End, TypeOK, NoTx, PlainBy, Patching
<1>2. CASE check_tenant_student_quota(r) /\ ~End(r)
  <2>1. tx' = [tx EXCEPT ![r].at = "seat"]
    BY <1>2 DEF check_tenant_student_quota, Rollback
  <2>2. tx'[r].at = "seat" /\ tx'[r].op = t.op /\ tx'[r].to = t.to /\ tx'[r].course = t.course
    BY <2>1 DEF TypeOK, Transactions
  <2>3. QED
    BY <2>2 DEF PlainBy, Patching
<1>3. CASE OpenEnrollment(r) /\ ~End(r)
  <2>1. PICK e : tx' = [tx EXCEPT ![r].at = "commit", ![r].writes = {e}]
    BY <1>3 DEF OpenEnrollment, open_enrollment, Rollback
  <2>2. tx'[r].op = "create_enrollment" /\ tx'[r].to = t.to
    BY <1>3, <2>1 DEF OpenEnrollment, TypeOK, Transactions
  <2>3. QED
    BY <2>2 DEF PlainBy, Patching
<1>4. CASE ReactivateEnrollment(r) /\ ~End(r)
  <2>1. /\ tx' = [tx EXCEPT ![r].at = "commit"] /\ t.op = "update_enrollment"
        /\ courseLock' = [courseLock EXCEPT ![t.course] = r]
    BY <1>4 DEF ReactivateEnrollment, Rollback
  <2>2. tx'[r].op = t.op /\ tx'[r].to = t.to /\ tx'[r].course = t.course
    BY <2>1 DEF TypeOK, Transactions
  <2>3. t.course \in Courses /\ courseLock'[t.course] = r
    BY <2>1 DEF PlainBy, TypeOK
  <2>4. QED
    BY <2>2, <2>3 DEF PlainBy, HoldsCourse
<1>5. CASE (BulkLockCourse(r) \/ BulkSeat(r) \/ BulkDone(r)) /\ ~End(r)
  <2>1. t.op # "update_enrollment"
    BY <1>5 DEF BulkLockCourse, BulkSeat, BulkDone, BirthInv, WritesExisting
  <2>2. tx'[r].op = t.op
    BY <1>5, EndpointStays
  <2>3. tx'[r].to = t.to
    <3>1. ASSUME NEW s, NEW e,
                 tx' = [tx EXCEPT ![r].students = @ \ {s}, ![r].writes = @ \cup {e}, ![r].taken = @ + 1]
          PROVE  tx'[r].to = t.to
      BY <3>1 DEF TypeOK, Transactions
    <3>2. ASSUME NEW s, tx' = [tx EXCEPT ![r].students = @ \ {s}]
          PROVE  tx'[r].to = t.to
      BY <3>2 DEF TypeOK, Transactions
    <3>3. CASE BulkSeat(r)
      BY <3>1, <3>2, <3>3 DEF BulkSeat
    <3>4. CASE BulkLockCourse(r)
      BY <1>5, <3>4 DEF BulkLockCourse, Rollback, TypeOK, Transactions
    <3>5. CASE BulkDone(r)
      BY <3>5 DEF BulkDone, TypeOK, Transactions
    <3>6. QED
      BY <1>5, <3>3, <3>4, <3>5
  <2>4. QED
    BY <2>1, <2>2, <2>3 DEF PlainBy, Patching
<1>6. CASE ~TakeLock(r) /\ ~BulkDone(r)
  BY <1>1, <1>6 DEF Step, Finish, Fail, CommitEnrollments, CommitDeleteEnrollment,
     CommitUpdateCourse, CommitCourseStatus, CommitDeleteCourse, CommitTenant, Rollback
<1>7. QED
  BY <1>1, <1>2, <1>3, <1>4, <1>5, <1>6 DEF TakeLock

\* When every matricula is born active and no request edits a capacity, neither
\* race can happen: the seats held in a course never exceed its capacity, however
\* many enrollments, imports, pauses, reactivations and deletions run at once.
THEOREM CapacityNeverExceeded ==
  ASSUME BirthStates \subseteq {"active"}, "update_course" \notin Endpoints
  PROVE  Spec => []CapacityKept
<1> DEFINE Inv == NoRowEnrolled /\ \A q \in Requests : PlainBy(q)
<1>1. Init => Inv
  BY DEF Init, NoRowEnrolled, PlainBy, Patching, NoTx
<1>2. TypeOK /\ BirthInv /\ Inv /\ [Next]_vars => Inv'
  <2>1. ASSUME TypeOK, BirthInv, Inv, NEW r \in Requests, Arrive(r) \/ Step(r)
        PROVE  Inv'
    <3>1. NoRowEnrolled'
      BY <2>1, StepNotEnrolled
    <3>2. ASSUME NEW q \in Requests, q # r PROVE PlainBy(q)'
      <4>1. tx'[q] = tx[q]
        BY <2>1, <3>2, OthersKept
      <4>2. tx[q].course \in Courses /\ HoldsCourse(q) => HoldsCourse(q)'
        BY <2>1, <3>2, <4>1, LocksKept DEF HoldsCourse
      <4>3. QED
        BY <2>1, <4>1, <4>2 DEF PlainBy, Patching
    <3>3. PlainBy(r)'
      BY <2>1, ArrivePlain, StepPlain
    <3>4. QED
      BY <3>1, <3>2, <3>3
  <2>2. UNCHANGED vars /\ Inv => Inv'
    BY DEF vars, tables, locks, NoRowEnrolled, PlainBy, Patching, HoldsCourse
  <2>3. QED
    BY <2>1, <2>2 DEF Next
<1>3. Inv => CapacityApart
  BY DEF PlainBy, CapacityApart, Patching
<1>4. QED
  BY <1>1, <1>2, <1>3, BirthInvariant, CapacityKeptApart, PTL DEF Spec

(***************************************************************************)
(* The row of the academy.                                                 *)
(***************************************************************************)

QuotaSetting ==
    /\ BirthStates \subseteq {"active"}
    /\ Unscoped = {}
    /\ Endpoints \cap {"activate_plan", "update_tenant"} = {}

\* The students of the rows that q is about to write.
Written(q) == {s \in Students : \E e \in tx[q].writes : StudentOf(e) = s}

\* The students for whom q has been promised a place of the plan.
Claimed(q) ==
    IF tx[q].at = "seat" /\ tx[q].op \in {"create_enrollment", "update_enrollment"}
    THEN tx[q].students \cap Students
    ELSE IF \/ tx[q].op \in {"create_enrollment", "bulk_enroll"} /\ tx[q].at \in {"batch", "commit"}
            \/ tx[q].op = "update_enrollment" /\ tx[q].at = "commit" /\ tx[q].to = "active"
    THEN Written(q)
    ELSE {}

\* Which request stands where, and for whom.
ShapedBy(q) ==
    /\ tx[q].to # "enrolled" /\ tx[q].op \notin {"activate_plan", "update_tenant"}
    /\ tx[q].at = "batch" => tx[q].op = "bulk_enroll"
    /\ tx[q].at = "quota" => tx[q].op \in {"create_enrollment", "update_enrollment"}
    /\ tx[q].at \in {"quota", "seat"} /\ tx[q].op = "update_enrollment"
         => \A e \in tx[q].writes : tx[q].students = {StudentOf(e)}
    /\ tx[q].at \in {"quota", "seat"} /\ tx[q].op \in {"create_enrollment", "update_enrollment"}
         => \E s \in Students : tx[q].students = {s}
    /\ tx[q].at = "seat" /\ tx[q].op = "bulk_enroll" => tx[q].writes = {}

\* A promise is kept under the lock of the academy, and it fits the plan.
PromisedBy(q) ==
    /\ Claimed(q) # {} => tenantLock = q
    /\ Cardinality(Holders({}) \cup Claimed(q)) <= plan

NobodyEnrolled == \A e \in Rows : status[e] # "enrolled"

QuotaInv ==
    /\ QuotaKept /\ NobodyEnrolled
    /\ \A q \in Requests : ShapedBy(q) /\ PromisedBy(q)

-----------------------------------------------------------------------------
(* Counting students.                                                      *)

\* There are finitely many of them, so fewer are no more.
LEMMA FewerStudents ==
  ASSUME NEW T \in SUBSET Students, NEW S \in SUBSET T
  PROVE  /\ IsFiniteSet(T) /\ Cardinality(T) \in Nat
         /\ Cardinality(S) \in Nat /\ Cardinality(S) <= Cardinality(T)
BY SeatsAssumption, FS_Subset, FS_CardinalityType

LEMMA HoldersAreStudents ==
  ASSUME NEW own
  PROVE  Holders(own) \in SUBSET Students
BY DEF Holders

LEMMA ClaimedAreStudents == \A q \in Requests : Claimed(q) \in SUBSET Students
BY DEF Claimed, Written

\* What check_tenant_student_quota has allowed fits the plan.
LEMMA AllowedFits ==
  ASSUME TypeOK, NEW s \in Students, NEW own, QuotaAllows(s, own),
         Cardinality(Holders(own)) <= plan
  PROVE  Cardinality(Holders(own) \cup {s}) <= plan
<1>1. IsFiniteSet(Holders(own))
  BY HoldersAreStudents, FewerStudents
<1>2. CASE s \in Holders(own)
  <2>1. Holders(own) \cup {s} = Holders(own)
    BY <1>2
  <2>2. QED
    BY <2>1
<1>3. CASE s \notin Holders(own)
  <2>1. Cardinality(Holders(own) \cup {s}) = Cardinality(Holders(own)) + 1
    BY <1>1, <1>3, FS_AddElement
  <2>2. QED
    BY <1>3, <2>1 DEF QuotaAllows
<1>4. QED
  BY <1>2, <1>3

-----------------------------------------------------------------------------
(* What a step does to the tables and to the others.                       *)

\* Nobody comes to hold a seat but whom the step's request had claimed it for.
LEMMA HoldersGrow ==
  ASSUME TypeOK, NEW r \in Requests, Arrive(r) \/ Step(r), ShapedBy(r)
  PROVE  Holders({})' \subseteq Holders({}) \cup Claimed(r)
<1>1. Rollback(r) => status' = status
  BY DEF Rollback, tables
<1>2. ASSUME status' = status PROVE Holders({})' \subseteq Holders({}) \cup Claimed(r)
  BY <1>2 DEF Holders
<1>3. ASSUME Arrive(r) PROVE status' = status
  BY <1>3 DEF Arrive, create_enrollment, update_enrollment, bulk_enroll, delete_enrollment,
     create_grade, update_course, change_course_status, delete_course, activate_plan,
     update_tenant, Begin, tables
<1>4. ASSUME TakeLock(r) PROVE status' = status
  BY <1>1, <1>4 DEF TakeLock, check_tenant_student_quota, OpenEnrollment, open_enrollment,
     ReactivateEnrollment, BulkLockCourse, BulkSeat, tables
<1>5. ASSUME CommitEnrollments(r) PROVE Holders({})' \subseteq Holders({}) \cup Claimed(r)
  <2>1. CASE status' = status
    BY <2>1, <1>2
  <2>2. CASE status' = [e \in Rows |-> IF e \in tx[r].writes THEN tx[r].to ELSE status[e]]
    <3>1. /\ tx[r].at = "commit" /\ tx[r].op \in SeatEndpoints
          /\ tx[r].to # "enrolled"
      BY <1>5 DEF CommitEnrollments, ShapedBy
    <3>2. tx[r].to \in OccupiesSeat => Claimed(r) = Written(r)
      BY <3>1 DEF OccupiesSeat, SeatEndpoints, Claimed
    <3>3. ASSUME NEW e \in Rows, status'[e] \in OccupiesSeat
          PROVE  status[e] \in OccupiesSeat \/ StudentOf(e) \in Claimed(r)
      BY <2>2, <3>2, <3>3, RowParts DEF Written
    <3>4. QED
      BY <3>3 DEF Holders
  <2>3. QED
    BY <1>1, <1>5, <2>1, <2>2 DEF CommitEnrollments
<1>6. ASSUME CommitDeleteEnrollment(r) \/ CommitDeleteCourse(r)
      PROVE  Holders({})' \subseteq Holders({}) \cup Claimed(r)
  <2>1. \A e \in Rows : status'[e] \in {status[e], "deleted"}
    BY <1>6 DEF CommitDeleteEnrollment, CommitDeleteCourse
  <2>2. QED
    BY <2>1 DEF Holders, OccupiesSeat
<1>7. ASSUME Finish(r) \/ Fail(r) PROVE Holders({})' \subseteq Holders({}) \cup Claimed(r)
  BY <1>1, <1>2, <1>5, <1>6, <1>7 DEF Finish, Fail, BulkDone, CommitUpdateCourse,
     CommitCourseStatus, CommitTenant, tables
<1>8. QED
  BY <1>2, <1>3, <1>4, <1>7 DEF Step

\* The plan stays, and the academy's row with who holds it.
LEMMA PlanKept ==
  ASSUME QuotaSetting, TypeOK, NEW r \in Requests, Arrive(r) \/ Step(r), ShapedBy(r)
  PROVE  /\ plan' = plan
         /\ \A q \in Requests : q # r /\ tenantLock = q => tenantLock' = q
<1> USE SeatsAssumption
<1>1. End(r) => \A q \in Requests : q # r /\ tenantLock = q => tenantLock' = q
  BY DEF End
<1>2. Rollback(r) => plan' = plan
  BY DEF Rollback, tables
<1>3. ASSUME Arrive(r) PROVE plan' = plan /\ tenantLock' = tenantLock
  BY <1>3 DEF Arrive, create_enrollment, update_enrollment, bulk_enroll, delete_enrollment,
     create_grade, update_course, change_course_status, delete_course, activate_plan,
     update_tenant, Begin, tables, locks
<1>4. ASSUME TakeLock(r)
      PROVE  /\ plan' = plan
             /\ \A q \in Requests : q # r /\ tenantLock = q => tenantLock' = q
  BY <1>1, <1>2, <1>4 DEF TakeLock, check_tenant_student_quota, OpenEnrollment, open_enrollment,
     ReactivateEnrollment, BulkLockCourse, BulkSeat, Rollback, Free, QuotaSetting, tables
<1>5. ASSUME Finish(r) \/ Fail(r)
      PROVE  /\ plan' = plan
             /\ \A q \in Requests : q # r /\ tenantLock = q => tenantLock' = q
  BY <1>1, <1>2, <1>5 DEF Finish, Fail, BulkDone, CommitEnrollments, CommitDeleteEnrollment,
     CommitUpdateCourse, CommitCourseStatus, CommitDeleteCourse, CommitTenant, Rollback,
     ShapedBy, tables, locks
<1>6. QED
  BY <1>3, <1>4, <1>5 DEF Step

\* No matricula comes to be "enrolled".
LEMMA StillNobodyEnrolled ==
  ASSUME TypeOK, NobodyEnrolled, NEW r \in Requests, Arrive(r) \/ Step(r), ShapedBy(r)
  PROVE  NobodyEnrolled'
<1>1. Rollback(r) => status' = status
  BY DEF Rollback, tables
<1>2. ASSUME Arrive(r) PROVE status' = status
  BY <1>2 DEF Arrive, create_enrollment, update_enrollment, bulk_enroll, delete_enrollment,
     create_grade, update_course, change_course_status, delete_course, activate_plan,
     update_tenant, Begin, tables
<1>3. ASSUME TakeLock(r) PROVE status' = status
  BY <1>1, <1>3 DEF TakeLock, check_tenant_student_quota, OpenEnrollment, open_enrollment,
     ReactivateEnrollment, BulkLockCourse, BulkSeat, tables
<1>4. ASSUME Finish(r) \/ Fail(r) PROVE NobodyEnrolled'
  BY <1>1, <1>4 DEF Finish, Fail, BulkDone, CommitEnrollments, CommitDeleteEnrollment,
     CommitUpdateCourse, CommitCourseStatus, CommitDeleteCourse, CommitTenant, ShapedBy,
     tables, NobodyEnrolled
<1>5. QED
  BY <1>2, <1>3, <1>4 DEF Step, NobodyEnrolled

-----------------------------------------------------------------------------
(* What a step does to its own request.                                    *)

\* A request that has ended claims nothing.
LEMMA EndedIsShaped ==
  ASSUME NEW r \in Requests, tx'[r] = NoTx
  PROVE  ShapedBy(r)' /\ Claimed(r)' = {}
BY DEF ShapedBy, Claimed, NoTx

\* A request that arrives has been promised nothing yet: whoever asks for a
\* place has the academy's row to wait for.
LEMMA ArriveIsShaped ==
  ASSUME QuotaSetting, TypeOK, NobodyEnrolled, NEW r \in Requests, Arrive(r),
         ShapedBy(r), PromisedBy(r)
  PROVE  ShapedBy(r)' /\ (Claimed(r)' = {} \/ Claimed(r)' = Claimed(r))
<1>1. CASE create_grade(r)
  BY <1>1 DEF create_grade, ShapedBy, Claimed, Written
<1>2. CASE create_enrollment(r)
  <2>1. PICK s \in Students, c \in Courses, st \in BirthStates :
           Begin(r, [NoTx EXCEPT !.op = "create_enrollment", !.at = FirstLock(r), !.course = c,
                                 !.students = {s}, !.to = st])
    BY <1>2 DEF create_enrollment
  <2>2. /\ tx'[r].op = "create_enrollment" /\ tx'[r].at = "quota"
        /\ tx'[r].students = {s} /\ tx'[r].to = "active"
    BY <2>1 DEF Begin, FirstLock, NoTx, QuotaSetting, TypeOK
  <2>3. QED
    BY <2>2 DEF ShapedBy, Claimed
<1>3. CASE update_enrollment(r)
  <2>1. PICK e \in Rows, target \in EnrollmentStatus :
           /\ Present(e) /\ EnrollmentTransitionAllowed(status[e], target)
           /\ tx'[r] = [NoTx EXCEPT !.op = "update_enrollment",
                           !.at = IF TakesSeat(status[e], target) THEN "quota" ELSE "commit",
                           !.course = CourseOf(e), !.students = {StudentOf(e)},
                           !.writes = IF target = status[e] THEN {} ELSE {e},
                           !.to = target]
    BY <1>3 DEF update_enrollment, Begin, FirstLock, QuotaSetting, TypeOK
  <2>2. status[e] # "enrolled" /\ StudentOf(e) \in Students
    BY RowParts DEF NobodyEnrolled
  <2>3. target # "enrolled"
    BY <2>1, <2>2 DEF EnrollmentTransitionAllowed, EnrollmentTransitions, Present, EnrollmentStatus
  <2>4. ~TakesSeat(status[e], target) /\ target = "active" => target = status[e]
    BY <2>2 DEF TakesSeat, OccupiesSeat
  <2>5. QED
    BY <2>1, <2>2, <2>3, <2>4 DEF ShapedBy, Claimed, Written, NoTx
<1>4. CASE bulk_enroll(r)
  <2>1. PICK S \in SUBSET Students, c \in Courses :
           tx'[r] = [NoTx EXCEPT !.op = "bulk_enroll", !.at = "seat", !.course = c,
                                 !.students = S, !.to = "active"]
    BY <1>4 DEF bulk_enroll, Begin, TypeOK
  <2>2. /\ tx'[r].op = "bulk_enroll" /\ tx'[r].at = "seat"
        /\ tx'[r].writes = {} /\ tx'[r].to = "active"
    BY <2>1 DEF NoTx
  <2>3. QED
    BY <2>2 DEF ShapedBy, Claimed
<1>5. CASE delete_enrollment(r) \/ update_course(r) \/ change_course_status(r) \/ delete_course(r)
  <2>1. /\ tx'[r].op \in {"delete_enrollment", "update_course", "change_course_status",
                          "delete_course"}
        /\ tx'[r].at = "commit" /\ tx'[r].to \in CourseStatus \cup {"none"}
    <3>1. CASE delete_enrollment(r)
      BY <3>1 DEF delete_enrollment, Begin, NoTx, TypeOK
    <3>2. CASE update_course(r)
      BY <3>2 DEF update_course, Begin, NoTx, TypeOK
    <3>3. CASE change_course_status(r)
      BY <3>3 DEF change_course_status, Begin, NoTx, TypeOK
    <3>4. CASE delete_course(r)
      BY <3>4 DEF delete_course, Begin, NoTx, TypeOK
    <3>5. QED
      BY <1>5, <3>1, <3>2, <3>3, <3>4
  <2>2. QED
    BY <2>1 DEF ShapedBy, Claimed, CourseStatus
<1>6. ~activate_plan(r) /\ ~update_tenant(r)
  BY DEF activate_plan, update_tenant, Begin, QuotaSetting, NoTx
<1>7. QED
  BY <1>1, <1>2, <1>3, <1>4, <1>5, <1>6 DEF Arrive

\* What r is promised after a step is no more than before it, or one student
\* more, whom the count it has just made under the academy's row lets in.
Kept(r) ==
    /\ ShapedBy(r)'
    /\ Claimed(r)' # {} => tenantLock' = r
    /\ Cardinality(Holders({}) \cup Claimed(r)') <= plan

LEMMA ClaimedTypeNext ==
  ASSUME TypeOK, NEW r \in Requests
  PROVE  Claimed(r)' \in SUBSET Students
BY DEF Claimed, Written

LEMMA NothingClaimed ==
  ASSUME QuotaKept, NEW r \in Requests, ShapedBy(r)', Claimed(r)' = {}
  PROVE  Kept(r)
<1>1. Holders({}) \cup Claimed(r)' = Holders({})
  OBVIOUS
<1>2. QED
  BY <1>1 DEF Kept, QuotaKept

LEMMA NoMoreClaimed ==
  ASSUME TypeOK, QuotaKept, NEW r \in Requests, PromisedBy(r), ShapedBy(r)',
         Claimed(r)' \subseteq Claimed(r), Claimed(r) # {} => tenantLock' = r
  PROVE  Kept(r)
<1>1. Holders({}) \cup Claimed(r) \in SUBSET Students
  BY HoldersAreStudents, ClaimedAreStudents
<1>2. Holders({}) \cup Claimed(r)' \in SUBSET (Holders({}) \cup Claimed(r))
  OBVIOUS
<1>3. plan \in Nat
  BY DEF TypeOK
<1>4. Cardinality(Holders({}) \cup Claimed(r)') <= Cardinality(Holders({}) \cup Claimed(r))
  BY <1>1, <1>2, FewerStudents
<1>5. /\ Cardinality(Holders({}) \cup Claimed(r)') \in Nat
      /\ Cardinality(Holders({}) \cup Claimed(r)) \in Nat
  BY <1>1, <1>2, FewerStudents
<1>6. Cardinality(Holders({}) \cup Claimed(r)') <= plan
  BY <1>3, <1>4, <1>5 DEF PromisedBy
<1>7. QED
  BY <1>6 DEF Kept

\* Both endings of a request.
LEMMA EndKeeps ==
  ASSUME TypeOK, QuotaKept, NEW r \in Requests, End(r)
  PROVE  Kept(r)
<1>1. tx'[r] = NoTx
  BY DEF End, TypeOK
<1>2. QED
  BY <1>1, EndedIsShaped, NothingClaimed

LEMMA QuotaCheckKeeps ==
  ASSUME TypeOK, QuotaKept, NEW r \in Requests, ShapedBy(r), check_tenant_student_quota(r)
  PROVE  Kept(r)
<1>1. CASE Rollback(r)
  BY <1>1, EndKeeps DEF Rollback
<1>2. CASE ~Rollback(r)
  <2>1. PICK s \in tx[r].students :
           /\ QuotaAllows(s, {}) /\ tenantLock' = r /\ tx' = [tx EXCEPT ![r].at = "seat"]
    BY <1>2 DEF check_tenant_student_quota
  <2>2. /\ tx'[r].at = "seat" /\ tx'[r].op = tx[r].op /\ tx'[r].to = tx[r].to
        /\ tx'[r].students = tx[r].students /\ tx'[r].writes = tx[r].writes
    BY <2>1 DEF TypeOK, Transactions
  <2>3. /\ tx[r].at = "quota" /\ tx[r].op \in {"create_enrollment", "update_enrollment"}
    BY DEF check_tenant_student_quota, ShapedBy
  <2>4. s \in Students /\ tx[r].students = {s}
    BY <2>1, <2>3 DEF ShapedBy
  <2>5. Claimed(r)' = {s}
    BY <2>2, <2>3, <2>4 DEF Claimed
  <2>6. ShapedBy(r)'
    BY <2>2, <2>3 DEF ShapedBy
  <2>7. Cardinality(Holders({}) \cup {s}) <= plan
    BY <2>1, <2>4, AllowedFits DEF QuotaKept
  <2>8. QED
    BY <2>1, <2>5, <2>6, <2>7 DEF Kept
<1>3. QED
  BY <1>1, <1>2

\* The seat is found for the student the place of the plan was found for.
LEMMA SeatKeeps ==
  ASSUME TypeOK, QuotaKept, NEW r \in Requests, ShapedBy(r), PromisedBy(r),
         OpenEnrollment(r) \/ ReactivateEnrollment(r)
  PROVE  Kept(r)
<1>1. CASE Rollback(r)
  BY <1>1, EndKeeps DEF Rollback
<1>2. CASE ~Rollback(r)
  <2>1. /\ tx[r].at = "seat" /\ tx[r].op \in {"create_enrollment", "update_enrollment"}
        /\ tenantLock' = tenantLock
    BY <1>2 DEF OpenEnrollment, open_enrollment, ReactivateEnrollment
  <2>2. /\ tx'[r].at = "commit" /\ tx'[r].op = tx[r].op /\ tx'[r].to = tx[r].to
        /\ \A e \in tx'[r].writes : StudentOf(e) \in tx[r].students
    <3>1. CASE OpenEnrollment(r)
      <4>1. PICK s \in tx[r].students : \E e \in NextRow(s, tx[r].course) :
               tx' = [tx EXCEPT ![r].at = "commit", ![r].writes = {e}]
        BY <1>2, <3>1 DEF OpenEnrollment, open_enrollment
      <4>2. PICK e \in NextRow(s, tx[r].course) :
               tx' = [tx EXCEPT ![r].at = "commit", ![r].writes = {e}]
        BY <4>1
      <4>3. StudentOf(e) = s
        BY DEF NextRow
      <4>4. QED
        BY <4>2, <4>3 DEF TypeOK, Transactions
    <3>2. CASE ReactivateEnrollment(r)
      <4>1. tx' = [tx EXCEPT ![r].at = "commit"] /\ tx[r].op = "update_enrollment"
        BY <1>2, <3>2 DEF ReactivateEnrollment
      <4>2. \A e \in tx[r].writes : StudentOf(e) \in tx[r].students
        BY <2>1, <4>1 DEF ShapedBy
      <4>3. /\ tx'[r].at = "commit" /\ tx'[r].op = tx[r].op /\ tx'[r].to = tx[r].to
            /\ tx'[r].writes = tx[r].writes
        BY <4>1 DEF TypeOK, Transactions
      <4>4. QED
        BY <4>2, <4>3
    <3>3. QED
      BY <3>1, <3>2
  <2>3. Claimed(r)' \subseteq Claimed(r)
    <3>1. Claimed(r)' \subseteq {s \in Students : \E e \in tx'[r].writes : StudentOf(e) = s}
      BY <2>2 DEF Claimed, Written
    <3>2. Claimed(r) = tx[r].students \cap Students
      BY <2>1 DEF Claimed
    <3>3. QED
      BY <2>2, <3>1, <3>2
  <2>4. ShapedBy(r)'
    BY <2>1, <2>2 DEF ShapedBy
  <2>5. QED
    BY <2>1, <2>3, <2>4, NoMoreClaimed DEF PromisedBy
<1>3. QED
  BY <1>1, <1>2

LEMMA BulkLockKeeps ==
  ASSUME TypeOK, QuotaKept, NEW r \in Requests, ShapedBy(r), BulkLockCourse(r)
  PROVE  Kept(r)
<1>1. CASE Rollback(r)
  BY <1>1, EndKeeps DEF Rollback
<1>2. CASE ~Rollback(r)
  <2>1. /\ tx[r].at = "seat" /\ tx[r].op = "bulk_enroll"
        /\ tx' = [tx EXCEPT ![r].at = "batch",
                            ![r].taken = Cardinality(SeatsTaken(tx[r].course))]
    BY <1>2 DEF BulkLockCourse
  <2>2. /\ tx'[r].at = "batch" /\ tx'[r].op = "bulk_enroll" /\ tx'[r].to = tx[r].to
        /\ tx'[r].writes = tx[r].writes
    BY <2>1 DEF TypeOK, Transactions
  <2>3. tx'[r].writes = {}
    BY <2>1, <2>2 DEF ShapedBy
  <2>4. ShapedBy(r)'
    BY <2>1, <2>2 DEF ShapedBy
  <2>5. Claimed(r)' = {}
    BY <2>3, <2>2 DEF Claimed, Written
  <2>6. QED
    BY <2>4, <2>5, NothingClaimed
<1>3. QED
  BY <1>1, <1>2

\* The count of a batch includes the students it has already seated.
LEMMA HoldersOfBatch ==
  ASSUME TypeOK, NEW r \in Requests, tx[r].op = "bulk_enroll", tx[r].at = "batch"
  PROVE  Holders(tx[r].writes) = Holders({}) \cup Claimed(r)
<1>1. tx[r].writes \subseteq Rows
  BY DEF TypeOK, Transactions
<1>2. Claimed(r) = {s \in Students : \E e \in tx[r].writes : StudentOf(e) = s}
  BY DEF Claimed, Written
<1>3. QED
  BY <1>1, <1>2 DEF Holders

LEMMA BulkSeatKeeps ==
  ASSUME QuotaSetting, TypeOK, QuotaKept, NEW r \in Requests, ShapedBy(r), PromisedBy(r),
         BulkSeat(r)
  PROVE  Kept(r)
<1>1. /\ tx[r].at = "batch" /\ tx[r].op = "bulk_enroll" /\ tenantLock' = r
  BY DEF BulkSeat, ShapedBy, QuotaSetting
<1>2. Holders(tx[r].writes) = Holders({}) \cup Claimed(r)
  BY <1>1, HoldersOfBatch
<1>3. ASSUME NEW s \in tx[r].students, tx' = [tx EXCEPT ![r].students = @ \ {s}]
      PROVE  Kept(r)
  <2>1. /\ tx'[r].at = "batch" /\ tx'[r].op = "bulk_enroll" /\ tx'[r].to = tx[r].to
        /\ tx'[r].writes = tx[r].writes
    BY <1>1, <1>3 DEF TypeOK, Transactions
  <2>2. ShapedBy(r)'
    BY <2>1 DEF ShapedBy
  <2>3. Claimed(r)' \subseteq Claimed(r)
    BY <1>1, <2>1 DEF Claimed, Written
  <2>4. QED
    BY <1>1, <2>2, <2>3, NoMoreClaimed
<1>4. ASSUME NEW s \in tx[r].students, QuotaAllows(s, tx[r].writes),
             NEW e \in NextRow(s, tx[r].course),
             tx' = [tx EXCEPT ![r].students = @ \ {s}, ![r].writes = @ \cup {e},
                              ![r].taken = @ + 1]
      PROVE  Kept(r)
  <2>1. /\ tx'[r].at = "batch" /\ tx'[r].op = "bulk_enroll" /\ tx'[r].to = tx[r].to
        /\ tx'[r].writes = tx[r].writes \cup {e}
    BY <1>1, <1>4 DEF TypeOK, Transactions
  <2>2. ShapedBy(r)'
    BY <2>1 DEF ShapedBy
  <2>3. StudentOf(e) = s /\ s \in Students
    BY <1>4, RowParts DEF NextRow
  <2>4. Claimed(r)' = Claimed(r) \cup {s}
    <3>1. Claimed(r) = {t \in Students : \E f \in tx[r].writes : StudentOf(f) = t}
      BY <1>1 DEF Claimed, Written
    <3>2. Claimed(r)' = {t \in Students : \E f \in tx'[r].writes : StudentOf(f) = t}
      BY <2>1 DEF Claimed, Written
    <3>3. QED
      BY <2>1, <2>3, <3>1, <3>2
  <2>5. Cardinality(Holders(tx[r].writes)) <= plan
    BY <1>2 DEF PromisedBy
  <2>6. Cardinality(Holders(tx[r].writes) \cup {s}) <= plan
    BY <1>4, <2>3, <2>5, AllowedFits
  <2>7. Holders(tx[r].writes) \cup {s} = Holders({}) \cup Claimed(r)'
    BY <1>2, <2>4
  <2>8. QED
    BY <1>1, <2>2, <2>6, <2>7 DEF Kept
<1>5. QED
  BY <1>3, <1>4 DEF BulkSeat, QuotaSetting

LEMMA FinishKeeps ==
  ASSUME TypeOK, QuotaKept, NEW r \in Requests, ShapedBy(r), PromisedBy(r), Finish(r) \/ Fail(r)
  PROVE  Kept(r)
<1>1. CASE End(r)
  BY <1>1, EndKeeps
<1>2. CASE BulkDone(r)
  <2>1. /\ tx[r].at = "batch" /\ tx[r].op = "bulk_enroll" /\ tenantLock' = tenantLock
        /\ tx' = [tx EXCEPT ![r].at = "commit"]
    BY <1>2 DEF BulkDone, ShapedBy, locks
  <2>2. /\ tx'[r].at = "commit" /\ tx'[r].op = "bulk_enroll" /\ tx'[r].to = tx[r].to
        /\ tx'[r].writes = tx[r].writes
    BY <2>1 DEF TypeOK, Transactions
  <2>3. ShapedBy(r)'
    BY <2>1, <2>2 DEF ShapedBy
  <2>4. Claimed(r)' \subseteq Claimed(r)
    BY <2>1, <2>2 DEF Claimed, Written
  <2>5. QED
    BY <2>1, <2>3, <2>4, NoMoreClaimed DEF PromisedBy
<1>3. QED
  BY <1>1, <1>2 DEF Finish, Fail, Rollback, CommitEnrollments, CommitDeleteEnrollment,
     CommitUpdateCourse, CommitCourseStatus, CommitDeleteCourse, CommitTenant

LEMMA ArriveKeeps ==
  ASSUME QuotaSetting, TypeOK, NobodyEnrolled, QuotaKept, NEW r \in Requests, Arrive(r),
         ShapedBy(r), PromisedBy(r)
  PROVE  Kept(r)
<1>1. tenantLock' = tenantLock
  BY DEF Arrive, create_enrollment, update_enrollment, bulk_enroll, delete_enrollment,
     create_grade, update_course, change_course_status, delete_course, activate_plan,
     update_tenant, Begin, locks
<1>2. QED
  BY <1>1, ArriveIsShaped, NoMoreClaimed, NothingClaimed DEF PromisedBy

LEMMA OwnStepKeeps ==
  ASSUME QuotaSetting, TypeOK, NobodyEnrolled, QuotaKept, NEW r \in Requests,
         Arrive(r) \/ Step(r), ShapedBy(r), PromisedBy(r)
  PROVE  Kept(r)
BY ArriveKeeps, QuotaCheckKeeps, SeatKeeps, BulkLockKeeps, BulkSeatKeeps, FinishKeeps
   DEF Step, TakeLock

\* A request writes its matriculas with the commit that ends it.
LEMMA WritesLast ==
  ASSUME TypeOK, NEW r \in Requests, Arrive(r) \/ Step(r)
  PROVE  status' = status \/ tx'[r] = NoTx
<1>1. End(r) => tx'[r] = NoTx
  BY DEF End, TypeOK
<1>2. ASSUME Arrive(r) PROVE status' = status
  BY <1>2 DEF Arrive, create_enrollment, update_enrollment, bulk_enroll, delete_enrollment,
     create_grade, update_course, change_course_status, delete_course, activate_plan,
     update_tenant, Begin, tables
<1>3. ASSUME TakeLock(r) PROVE status' = status
  BY <1>3 DEF TakeLock, check_tenant_student_quota, OpenEnrollment, open_enrollment,
     ReactivateEnrollment, BulkLockCourse, BulkSeat, Rollback, tables
<1>4. ASSUME Finish(r) \/ Fail(r) PROVE status' = status \/ tx'[r] = NoTx
  BY <1>1, <1>4 DEF Finish, Fail, BulkDone, CommitEnrollments, CommitDeleteEnrollment,
     CommitUpdateCourse, CommitCourseStatus, CommitDeleteCourse, CommitTenant, Rollback, tables
<1>5. QED
  BY <1>2, <1>3, <1>4 DEF Step

-----------------------------------------------------------------------------
(* The invariant.                                                          *)

\* Only the holder of the academy's row claims anything, so r's claim and the
\* claim of any other request are never there together.
LEMMA QuotaInvStep ==
  ASSUME QuotaSetting, TypeOK, QuotaInv, NEW r \in Requests, Arrive(r) \/ Step(r)
  PROVE  QuotaInv'
<1>1. /\ QuotaKept /\ NobodyEnrolled /\ ShapedBy(r) /\ PromisedBy(r)
  BY DEF QuotaInv
<1>2. Kept(r)
  BY <1>1, OwnStepKeeps
<1>3. Holders({})' \subseteq Holders({}) \cup Claimed(r)
  BY <1>1, HoldersGrow
<1>4. plan' = plan /\ plan \in Nat
  BY <1>1, PlanKept DEF TypeOK
<1>5. Holders({}) \in SUBSET Students /\ Claimed(r) \in SUBSET Students
  BY HoldersAreStudents, ClaimedAreStudents
<1>6. Holders({})' \in SUBSET Students
  BY <1>3, <1>5
<1>7. QuotaKept'
  <2>1. /\ Cardinality(Holders({})') <= Cardinality(Holders({}) \cup Claimed(r))
        /\ Cardinality(Holders({})') \in Nat /\ Cardinality(Holders({}) \cup Claimed(r)) \in Nat
    BY <1>3, <1>5, FewerStudents
  <2>2. Cardinality(Holders({}) \cup Claimed(r)) <= plan
    BY <1>1 DEF PromisedBy
  <2>3. QED
    BY <1>4, <2>1, <2>2 DEF QuotaKept
<1>8. ASSUME NEW q \in Requests PROVE ShapedBy(q)' /\ PromisedBy(q)'
  <2>1. Claimed(q)' \in SUBSET Students
    BY <1>8, ClaimedTypeNext
  <2>2. ASSUME Claimed(q)' = {} PROVE Cardinality(Holders({}) \cup Claimed(q))' <= plan'
    <3>1. Holders({})' \cup Claimed(q)' = Holders({})'
      BY <2>2
    <3>2. QED
      BY <1>7, <3>1 DEF QuotaKept
  <2>3. ASSUME Holders({})' \subseteq Holders({}),
               Cardinality(Holders({}) \cup Claimed(q)') <= plan
        PROVE  Cardinality(Holders({}) \cup Claimed(q))' <= plan'
    <3> DEFINE New == Holders({})' \cup Claimed(q)'
               Old == Holders({}) \cup Claimed(q)'
    <3>1. Old \in SUBSET Students /\ New \in SUBSET Old
      BY <1>5, <2>1, <2>3
    <3> HIDE DEF New, Old
    <3>2. Cardinality(New) <= Cardinality(Old) /\ Cardinality(New) \in Nat /\ Cardinality(Old) \in Nat
      BY <3>1, FewerStudents
    <3>3. Cardinality(Old) <= plan
      BY <2>3 DEF Old
    <3>4. Cardinality(New) <= plan'
      BY <1>4, <3>2, <3>3
    <3>5. QED
      BY <3>4 DEF New
  <2>4. CASE q = r
    <3>1. CASE tx'[r] = NoTx
      BY <2>2, <2>4, <3>1, EndedIsShaped DEF PromisedBy
    <3>2. CASE status' = status
      <4>1. Holders({})' \subseteq Holders({})
        BY <3>2 DEF Holders
      <4>2. QED
        BY <1>2, <2>3, <2>4, <4>1 DEF Kept, PromisedBy
    <3>3. QED
      BY <3>1, <3>2, WritesLast
  <2>5. CASE q # r
    <3>1. tx'[q] = tx[q]
      BY <1>8, <2>5, OthersKept
    <3>2. ShapedBy(q)' /\ Claimed(q)' = Claimed(q)
      BY <1>8, <3>1 DEF QuotaInv, ShapedBy, Claimed, Written
    <3>3. CASE Claimed(q) = {}
      BY <2>2, <3>2, <3>3 DEF PromisedBy
    <3>4. CASE Claimed(q) # {}
      <4>1. tenantLock = q /\ Cardinality(Holders({}) \cup Claimed(q)) <= plan
        BY <1>8, <3>4 DEF QuotaInv, PromisedBy
      <4>2. Claimed(r) = {}
        BY <1>1, <2>5, <4>1 DEF PromisedBy
      <4>3. tenantLock' = q
        BY <1>1, <1>8, <2>5, <4>1, PlanKept
      <4>4. Holders({})' \subseteq Holders({})
        BY <1>3, <4>2
      <4>5. QED
        BY <2>3, <3>2, <4>1, <4>3, <4>4 DEF PromisedBy
    <3>5. QED
      BY <3>3, <3>4
  <2>6. QED
    BY <2>4, <2>5
<1>9. NobodyEnrolled'
  BY <1>1, StillNobodyEnrolled
<1>10. QED
  BY <1>7, <1>8, <1>9 DEF QuotaInv

LEMMA QuotaInvInit == Init => QuotaInv
<1> SUFFICES ASSUME Init PROVE QuotaInv
  OBVIOUS
<1>1. \A q \in Requests : tx[q] = NoTx
  BY DEF Init
<1>2. \A q \in Requests : ShapedBy(q) /\ Claimed(q) = {}
  BY <1>1 DEF ShapedBy, Claimed, NoTx
<1>3. Holders({}) = {}
  BY DEF Init, Holders, OccupiesSeat
<1>4. Cardinality(Holders({})) <= plan
  BY <1>3, FS_EmptySet, SeatsAssumption DEF Init
<1>5. \A q \in Requests : PromisedBy(q)
  <2>1. \A q \in Requests : Holders({}) \cup Claimed(q) = Holders({})
    BY <1>2
  <2>2. QED
    BY <1>2, <1>4, <2>1 DEF PromisedBy
<1>6. NobodyEnrolled
  BY DEF Init, NobodyEnrolled
<1>7. QED
  BY <1>2, <1>4, <1>5, <1>6 DEF QuotaInv, QuotaKept

LEMMA QuotaInvStutter == UNCHANGED vars /\ QuotaInv => QuotaInv'
BY DEF vars, tables, locks, QuotaInv, QuotaKept, NobodyEnrolled, ShapedBy, PromisedBy,
   Claimed, Written, Holders

\* "The tenant row is locked so two simultaneous enrollments cannot both take
\* the last place" (services/enrollments.py:61): the students who hold a seat
\* fit the plan of their academy, however many requests run at once.
THEOREM QuotaNeverExceeded ==
  ASSUME QuotaSetting
  PROVE  Spec => []QuotaKept
<1>1. TypeOK /\ QuotaInv /\ [Next]_vars => QuotaInv'
  BY QuotaInvStep, QuotaInvStutter DEF Next
<1>2. QuotaInv => QuotaKept
  BY DEF QuotaInv
<1>3. QED
  BY <1>1, <1>2, QuotaInvInit, TypeCorrect, PTL DEF Spec

-----------------------------------------------------------------------------
(* The same lock keeps a student out of two rooms at once.  The row of the *)
(* course would not: two overlapping courses have two rows.                *)

\* No form insists on a clash, and a course does not overlap with itself.
ClashSetting == Forced \subseteq {FALSE} /\ \A c \in Courses : {c} \notin Clashing

\* q has found a seat for the rows that it will write.
SeatFound(q) ==
    \/ tx[q].op \in {"create_enrollment", "bulk_enroll"} /\ tx[q].at \in {"batch", "commit"}
    \/ tx[q].op = "update_enrollment" /\ tx[q].at = "commit" /\ tx[q].to = "active"

\* They are of one course, and of no student who sits in another at that time.
ClearBy(q) ==
    /\ tx[q].op \in SeatEndpoints => \A e \in tx[q].writes : CourseOf(e) = tx[q].course
    /\ SeatFound(q) =>
         \A e \in tx[q].writes, f \in Rows :
            StudentOf(f) = StudentOf(e) /\ status[f] \in OccupiesSeat
              => {CourseOf(e), CourseOf(f)} \notin Clashing

ClearInv == QuotaInv /\ NoDoubleBooking /\ \A q \in Requests : ClearBy(q)

\* Until it has a course locked, a new enrollment writes nothing.
LEMMA NothingWrittenYet ==
  ASSUME BirthInv, NEW r \in Requests, tx[r].op \in {"create_enrollment", "bulk_enroll"},
         tx[r].at \in {"quota", "seat"}
  PROVE  tx[r].writes = {}
BY DEF BirthInv, NoRowYet

\* Whoever has found a seat holds the academy's row.
LEMMA SeatFoundLocks ==
  ASSUME TypeOK, NEW q \in Requests, PromisedBy(q), SeatFound(q), tx[q].writes # {}
  PROVE  tenantLock = q
<1>1. PICK e \in tx[q].writes : TRUE
  OBVIOUS
<1>2. e \in Rows
  BY <1>1 DEF TypeOK, Transactions
<1>3. StudentOf(e) \in Claimed(q)
  BY <1>1, <1>2, RowParts DEF SeatFound, Claimed, Written
<1>4. QED
  BY <1>3 DEF PromisedBy

\* A row comes to hold a seat only with the commit that found it one.
LEMMA SeatsComeFromCommits ==
  ASSUME TypeOK, NEW r \in Requests, Arrive(r) \/ Step(r), ShapedBy(r),
         NEW e \in Rows, status'[e] \in OccupiesSeat, status[e] \notin OccupiesSeat
  PROVE  SeatFound(r) /\ e \in tx[r].writes /\ tx[r].op \in SeatEndpoints
<1>1. status' # status
  OBVIOUS
<1>2. ~Rollback(r)
  BY <1>1 DEF Rollback, tables
<1>3. ~Arrive(r)
  BY <1>1 DEF Arrive, create_enrollment, update_enrollment, bulk_enroll, delete_enrollment,
     create_grade, update_course, change_course_status, delete_course, activate_plan,
     update_tenant, Begin, tables
<1>4. ~TakeLock(r)
  BY <1>1, <1>2 DEF TakeLock, check_tenant_student_quota, OpenEnrollment, open_enrollment,
     ReactivateEnrollment, BulkLockCourse, BulkSeat, tables
<1>5. ~CommitDeleteEnrollment(r) /\ ~CommitDeleteCourse(r)
  BY DEF CommitDeleteEnrollment, CommitDeleteCourse, OccupiesSeat
<1>6. CommitEnrollments(r)
  BY <1>1, <1>2, <1>3, <1>4, <1>5 DEF Step, Finish, Fail, BulkDone, CommitUpdateCourse,
     CommitCourseStatus, CommitTenant, tables
<1>7. /\ tx[r].op \in SeatEndpoints /\ tx[r].at = "commit"
      /\ status' = [f \in Rows |-> IF f \in tx[r].writes THEN tx[r].to ELSE status[f]]
  BY <1>2, <1>6 DEF CommitEnrollments
<1>8. e \in tx[r].writes /\ tx[r].to = "active"
  BY <1>7 DEF ShapedBy, OccupiesSeat
<1>9. QED
  BY <1>7, <1>8 DEF SeatFound, SeatEndpoints

LEMMA EndedIsClear ==
  ASSUME NEW r \in Requests, tx'[r] = NoTx
  PROVE  ClearBy(r)'
BY DEF ClearBy, SeatFound, NoTx, SeatEndpoints

LEMMA ArriveIsClear ==
  ASSUME QuotaSetting, TypeOK, NobodyEnrolled, NEW r \in Requests, Arrive(r), ClearBy(r)
  PROVE  ClearBy(r)'
<1>1. CASE create_grade(r)
  BY <1>1 DEF create_grade, ClearBy, SeatFound
<1>2. ASSUME NEW t, Begin(r, t), t.writes = {}
      PROVE  ClearBy(r)'
  <2>1. tx'[r] = t
    BY <1>2 DEF Begin, TypeOK
  <2>2. QED
    BY <1>2, <2>1 DEF ClearBy
<1>3. CASE create_enrollment(r)
  BY <1>2, <1>3 DEF create_enrollment, NoTx
<1>4. CASE bulk_enroll(r)
  BY <1>2, <1>4 DEF bulk_enroll, NoTx
<1>5. CASE update_enrollment(r)
  <2>1. PICK e \in Rows, target \in EnrollmentStatus :
           /\ Present(e) /\ EnrollmentTransitionAllowed(status[e], target)
           /\ Begin(r, [NoTx EXCEPT !.op = "update_enrollment",
                           !.at = IF TakesSeat(status[e], target) THEN FirstLock(r) ELSE "commit",
                           !.course = CourseOf(e), !.students = {StudentOf(e)},
                           !.writes = IF target = status[e] THEN {} ELSE {e},
                           !.to = target])
    BY <1>5 DEF update_enrollment
  <2>2. /\ tx'[r].op = "update_enrollment" /\ tx'[r].course = CourseOf(e) /\ tx'[r].to = target
        /\ tx'[r].at = IF TakesSeat(status[e], target) THEN FirstLock(r) ELSE "commit"
        /\ tx'[r].writes = IF target = status[e] THEN {} ELSE {e}
    BY <2>1 DEF Begin, NoTx, TypeOK
  <2>3. status[e] # "enrolled"
    BY DEF NobodyEnrolled
  <2>4. CASE TakesSeat(status[e], target)
    BY <2>2, <2>4 DEF ClearBy, SeatFound, FirstLock
  <2>5. CASE ~TakesSeat(status[e], target)
    <3>1. target = "active" => target = status[e]
      BY <2>3, <2>5 DEF TakesSeat, OccupiesSeat
    <3>2. QED
      BY <2>2, <3>1 DEF ClearBy, SeatFound
  <2>6. QED
    BY <2>4, <2>5
<1>6. CASE delete_enrollment(r) \/ update_course(r) \/ change_course_status(r) \/ delete_course(r)
  <2>1. ASSUME NEW t, Begin(r, t),
               t.op \in {"delete_enrollment", "update_course", "change_course_status",
                         "delete_course"}
        PROVE  ClearBy(r)'
    <3>1. tx'[r] = t
      BY <2>1 DEF Begin, TypeOK
    <3>2. QED
      BY <2>1, <3>1 DEF ClearBy, SeatFound, SeatEndpoints
  <2>2. CASE delete_enrollment(r)
    BY <2>1, <2>2 DEF delete_enrollment, NoTx
  <2>3. CASE update_course(r)
    BY <2>1, <2>3 DEF update_course, NoTx
  <2>4. CASE change_course_status(r)
    BY <2>1, <2>4 DEF change_course_status, NoTx
  <2>5. CASE delete_course(r)
    BY <2>1, <2>5 DEF delete_course, NoTx
  <2>6. QED
    BY <1>6, <2>2, <2>3, <2>4, <2>5
<1>7. ~activate_plan(r) /\ ~update_tenant(r)
  BY DEF activate_plan, update_tenant, Begin, QuotaSetting, NoTx
<1>8. QED
  BY <1>1, <1>3, <1>4, <1>5, <1>6, <1>7 DEF Arrive

\* The timetable is looked at for the student and the course of the new row.
LEMMA NoClashIsClear ==
  ASSUME ClashSetting, NEW e \in Rows, NEW own,
         ~TimetableClash(StudentOf(e), CourseOf(e), own)
  PROVE  \A f \in Rows : StudentOf(f) = StudentOf(e) /\ status[f] \in OccupiesSeat
                           => {CourseOf(e), CourseOf(f)} \notin Clashing
<1> SUFFICES ASSUME NEW f \in Rows, StudentOf(f) = StudentOf(e), status[f] \in OccupiesSeat
             PROVE  {CourseOf(e), CourseOf(f)} \notin Clashing
  OBVIOUS
<1>1. CASE CourseOf(f) = CourseOf(e)
  <2>1. {CourseOf(e), CourseOf(f)} = {CourseOf(e)}
    BY <1>1
  <2>2. QED
    BY <2>1, RowParts DEF ClashSetting
<1>2. CASE CourseOf(f) # CourseOf(e)
  BY <1>2 DEF TimetableClash
<1>3. QED
  BY <1>1, <1>2

LEMMA OpenIsClear ==
  ASSUME ClashSetting, TypeOK, NEW r \in Requests, OpenEnrollment(r)
  PROVE  ClearBy(r)'
<1>1. CASE Rollback(r)
  <2>1. tx'[r] = NoTx
    BY <1>1 DEF Rollback, End, TypeOK
  <2>2. QED
    BY <2>1, EndedIsClear
<1>2. CASE ~Rollback(r)
  <2>1. PICK s \in tx[r].students, force \in Forced :
           /\ force \/ ~TimetableClash(s, tx[r].course, {})
           /\ \E e \in NextRow(s, tx[r].course) :
                tx' = [tx EXCEPT ![r].at = "commit", ![r].writes = {e}]
           /\ UNCHANGED tables
    BY <1>2 DEF OpenEnrollment, open_enrollment
  <2>2. PICK e \in NextRow(s, tx[r].course) :
           tx' = [tx EXCEPT ![r].at = "commit", ![r].writes = {e}]
    BY <2>1
  <2>3. e \in Rows /\ StudentOf(e) = s /\ CourseOf(e) = tx[r].course
    BY DEF NextRow
  <2>4. ~TimetableClash(StudentOf(e), CourseOf(e), {})
    BY <2>1, <2>3 DEF ClashSetting
  <2>5. tx'[r].writes = {e} /\ tx'[r].course = tx[r].course /\ status' = status
    <3>1. status' = status
      BY <2>1 DEF tables
    <3>2. tx'[r] = [tx[r] EXCEPT !.at = "commit", !.writes = {e}]
      BY <2>2 DEF TypeOK
    <3>3. tx[r] \in Transactions
      BY DEF TypeOK
    <3>4. QED
      BY <3>1, <3>2, <3>3 DEF Transactions
  <2>6. QED
    BY <2>3, <2>4, <2>5, NoClashIsClear DEF ClearBy
<1>3. QED
  BY <1>1, <1>2

LEMMA ReactivateIsClear ==
  ASSUME ClashSetting, TypeOK, NEW r \in Requests, ShapedBy(r), ClearBy(r),
         ReactivateEnrollment(r)
  PROVE  ClearBy(r)'
<1>1. CASE Rollback(r)
  <2>1. tx'[r] = NoTx
    BY <1>1 DEF Rollback, End, TypeOK
  <2>2. QED
    BY <2>1, EndedIsClear
<1>2. CASE ~Rollback(r)
  <2>1. PICK s \in tx[r].students, force \in Forced :
           /\ force \/ ~TimetableClash(s, tx[r].course, {})
           /\ tx' = [tx EXCEPT ![r].at = "commit"]
           /\ UNCHANGED tables
    BY <1>2 DEF ReactivateEnrollment
  <2>2. /\ tx[r].op = "update_enrollment" /\ tx[r].at = "seat"
        /\ \A e \in tx[r].writes : StudentOf(e) = s /\ CourseOf(e) = tx[r].course
    BY <2>1 DEF ReactivateEnrollment, ShapedBy, ClearBy, SeatEndpoints
  <2>3. ~TimetableClash(s, tx[r].course, {}) /\ tx[r].writes \subseteq Rows
    BY <2>1 DEF ClashSetting, TypeOK, Transactions
  <2>4. tx'[r].writes = tx[r].writes /\ tx'[r].course = tx[r].course /\ status' = status
    BY <2>1 DEF TypeOK, Transactions, tables
  <2>5. QED
    BY <2>2, <2>3, <2>4, NoClashIsClear DEF ClearBy
<1>3. QED
  BY <1>1, <1>2

\* Between two steps of a request, before it has found a seat, nothing changes
\* of what it is to write; a batch starts with nothing and grows row by row.
LEMMA QuotaCheckIsClear ==
  ASSUME TypeOK, NEW r \in Requests, ClearBy(r), check_tenant_student_quota(r)
  PROVE  ClearBy(r)'
<1>1. CASE Rollback(r)
  <2>1. tx'[r] = NoTx
    BY <1>1 DEF Rollback, End, TypeOK
  <2>2. QED
    BY <2>1, EndedIsClear
<1>2. CASE ~Rollback(r)
  <2>1. tx' = [tx EXCEPT ![r].at = "seat"]
    BY <1>2 DEF check_tenant_student_quota
  <2>2. /\ tx'[r].at = "seat" /\ tx'[r].writes = tx[r].writes /\ tx'[r].op = tx[r].op
        /\ tx'[r].course = tx[r].course
    BY <2>1 DEF TypeOK, Transactions
  <2>3. QED
    BY <2>2 DEF ClearBy, SeatFound
<1>3. QED
  BY <1>1, <1>2

LEMMA BulkIsClear ==
  ASSUME TypeOK, BirthInv, NEW r \in Requests, ShapedBy(r), ClearBy(r),
         BulkLockCourse(r) \/ BulkDone(r)
  PROVE  ClearBy(r)'
<1>1. CASE Rollback(r)
  <2>1. tx'[r] = NoTx
    BY <1>1 DEF Rollback, End, TypeOK
  <2>2. QED
    BY <2>1, EndedIsClear
<1>2. CASE BulkLockCourse(r) /\ ~Rollback(r)
  <2>1. /\ tx[r].at = "seat" /\ tx[r].op = "bulk_enroll"
        /\ tx' = [tx EXCEPT ![r].at = "batch",
                            ![r].taken = Cardinality(SeatsTaken(tx[r].course))]
    BY <1>2 DEF BulkLockCourse
  <2>2. tx'[r].writes = tx[r].writes
    BY <2>1 DEF TypeOK, Transactions
  <2>3. tx'[r].writes = {}
    BY <2>1, <2>2, NothingWrittenYet
  <2>4. QED
    BY <2>3 DEF ClearBy
<1>3. CASE BulkDone(r)
  <2>1. /\ tx[r].at = "batch" /\ tx[r].op = "bulk_enroll" /\ status' = status
        /\ tx' = [tx EXCEPT ![r].at = "commit"]
    BY <1>3 DEF BulkDone, ShapedBy, tables
  <2>2. /\ tx'[r].writes = tx[r].writes /\ tx'[r].op = tx[r].op
        /\ tx'[r].course = tx[r].course
    BY <2>1 DEF TypeOK, Transactions
  <2>3. QED
    BY <2>1, <2>2 DEF ClearBy, SeatFound
<1>4. QED
  BY <1>1, <1>2, <1>3

LEMMA BulkSeatIsClear ==
  ASSUME ClashSetting, TypeOK, NEW r \in Requests, ShapedBy(r), ClearBy(r), BulkSeat(r)
  PROVE  ClearBy(r)'
<1>1. /\ tx[r].at = "batch" /\ tx[r].op = "bulk_enroll" /\ status' = status
      /\ SeatFound(r)
  BY DEF BulkSeat, ShapedBy, SeatFound, tables
<1>2. tx[r].writes \subseteq Rows /\ tx[r] \in Transactions
  BY DEF TypeOK, Transactions
<1>3. ASSUME NEW s \in tx[r].students, tx' = [tx EXCEPT ![r].students = @ \ {s}]
      PROVE  ClearBy(r)'
  <2>1. tx'[r] = [tx[r] EXCEPT !.students = @ \ {s}]
    BY <1>3 DEF TypeOK
  <2>2. tx'[r].writes = tx[r].writes /\ tx'[r].course = tx[r].course
    BY <1>2, <2>1 DEF Transactions
  <2>3. QED
    BY <1>1, <2>2 DEF ClearBy, SeatEndpoints
<1>4. ASSUME NEW s \in tx[r].students, NEW e \in NextRow(s, tx[r].course),
             ~TimetableClash(s, tx[r].course, tx[r].writes),
             tx' = [tx EXCEPT ![r].students = @ \ {s}, ![r].writes = @ \cup {e},
                              ![r].taken = @ + 1]
      PROVE  ClearBy(r)'
  <2>1. tx'[r] = [tx[r] EXCEPT !.students = @ \ {s}, !.writes = @ \cup {e}, !.taken = @ + 1]
    BY <1>4 DEF TypeOK
  <2>2. tx'[r].writes = tx[r].writes \cup {e} /\ tx'[r].course = tx[r].course
    BY <1>2, <2>1 DEF Transactions
  <2>3. e \in Rows /\ StudentOf(e) = s /\ CourseOf(e) = tx[r].course
    BY <1>4 DEF NextRow
  <2>4. \A f \in Rows : StudentOf(f) = StudentOf(e) /\ status[f] \in OccupiesSeat
                          => {CourseOf(e), CourseOf(f)} \notin Clashing
    BY <1>4, <2>3, NoClashIsClear
  <2>5. QED
    BY <1>1, <2>2, <2>3, <2>4 DEF ClearBy, SeatEndpoints
<1>5. QED
  BY <1>3, <1>4 DEF BulkSeat, ClashSetting

LEMMA OwnStepIsClear ==
  ASSUME QuotaSetting, ClashSetting, TypeOK, BirthInv, NobodyEnrolled, NEW r \in Requests,
         Arrive(r) \/ Step(r), ShapedBy(r), ClearBy(r)
  PROVE  ClearBy(r)'
<1>1. CASE Arrive(r)
  BY <1>1, ArriveIsClear
<1>2. CASE TakeLock(r)
  BY <1>2, QuotaCheckIsClear, OpenIsClear, ReactivateIsClear, BulkIsClear, BulkSeatIsClear
     DEF TakeLock
<1>3. CASE BulkDone(r)
  BY <1>3, BulkIsClear
<1>4. CASE End(r)
  <2>1. tx'[r] = NoTx
    BY <1>4 DEF End, TypeOK
  <2>2. QED
    BY <2>1, EndedIsClear
<1>5. QED
  BY <1>1, <1>2, <1>3, <1>4 DEF Step, Finish, Fail, Rollback, CommitEnrollments,
     CommitDeleteEnrollment, CommitUpdateCourse, CommitCourseStatus, CommitDeleteCourse,
     CommitTenant

LEMMA ClearInvStep ==
  ASSUME QuotaSetting, ClashSetting, TypeOK, BirthInv, ClearInv, NEW r \in Requests,
         Arrive(r) \/ Step(r)
  PROVE  ClearInv'
<1>1. /\ NobodyEnrolled /\ ShapedBy(r) /\ PromisedBy(r) /\ ClearBy(r) /\ QuotaInv
  BY DEF ClearInv, QuotaInv
<1>2. QuotaInv'
  BY <1>1, QuotaInvStep
<1>3. NoDoubleBooking'
  <2> SUFFICES ASSUME NEW e \in Rows, NEW f \in Rows, StudentOf(e) = StudentOf(f),
                      status'[e] \in OccupiesSeat, status'[f] \in OccupiesSeat
               PROVE  {CourseOf(e), CourseOf(f)} \notin Clashing
    BY DEF NoDoubleBooking
  <2>1. CASE status[e] \in OccupiesSeat /\ status[f] \in OccupiesSeat
    BY <2>1 DEF ClearInv, NoDoubleBooking
  <2>2. CASE status[e] \notin OccupiesSeat /\ status[f] \in OccupiesSeat
    BY <1>1, <2>2, SeatsComeFromCommits DEF ClearBy
  <2>3. CASE status[e] \in OccupiesSeat /\ status[f] \notin OccupiesSeat
    <3>1. {CourseOf(f), CourseOf(e)} \notin Clashing
      BY <1>1, <2>3, SeatsComeFromCommits DEF ClearBy
    <3>2. {CourseOf(f), CourseOf(e)} = {CourseOf(e), CourseOf(f)}
      OBVIOUS
    <3>3. QED
      BY <3>1, <3>2
  <2>4. CASE status[e] \notin OccupiesSeat /\ status[f] \notin OccupiesSeat
    <3>1. CourseOf(e) = CourseOf(f)
      BY <1>1, <2>4, SeatsComeFromCommits DEF ClearBy
    <3>2. {CourseOf(e), CourseOf(f)} = {CourseOf(e)}
      BY <3>1
    <3>3. QED
      BY <3>2, RowParts DEF ClashSetting
  <2>5. QED
    BY <2>1, <2>2, <2>3, <2>4
<1>4. ASSUME NEW q \in Requests PROVE ClearBy(q)'
  <2>1. CASE q = r
    BY <1>1, <2>1, OwnStepIsClear
  <2>2. CASE q # r
    <3>1. tx'[q] = tx[q] /\ ClearBy(q) /\ PromisedBy(q)
      BY <1>4, <2>2, OthersKept DEF ClearInv, QuotaInv
    <3>2. CASE ~SeatFound(q) \/ tx[q].writes = {}
      BY <3>1, <3>2 DEF ClearBy, SeatFound
    <3>3. CASE SeatFound(q) /\ tx[q].writes # {}
      <4>1. tenantLock = q
        BY <1>4, <3>1, <3>3, SeatFoundLocks
      <4>2. ~(SeatFound(r) /\ tx[r].writes # {})
        BY <1>1, <2>2, <4>1, SeatFoundLocks
      <4>3. \A f \in Rows : status'[f] \in OccupiesSeat => status[f] \in OccupiesSeat
        BY <1>1, <4>2, SeatsComeFromCommits
      <4>4. QED
        BY <3>1, <4>3 DEF ClearBy, SeatFound
    <3>4. QED
      BY <3>2, <3>3
  <2>3. QED
    BY <2>1, <2>2
<1>5. QED
  BY <1>2, <1>3, <1>4 DEF ClearInv

\* A student never holds two seats whose timetables overlap
\* (routers/enrollments.py:193): the check looks at one course with that course
\* locked, and the academy's row keeps a check of the other from running beside it.
THEOREM NobodyInTwoRooms ==
  ASSUME QuotaSetting, ClashSetting
  PROVE  Spec => []NoDoubleBooking
<1>1. Init => ClearInv
  <2> SUFFICES ASSUME Init PROVE ClearInv
    OBVIOUS
  <2>1. QuotaInv
    BY QuotaInvInit
  <2>2. \A q \in Requests : ClearBy(q)
    BY DEF Init, ClearBy, SeatFound, NoTx, SeatEndpoints
  <2>3. NoDoubleBooking
    BY DEF Init, NoDoubleBooking, OccupiesSeat
  <2>4. QED
    BY <2>1, <2>2, <2>3 DEF ClearInv
<1>2. TypeOK /\ BirthInv /\ ClearInv /\ [Next]_vars => ClearInv'
  <2>1. UNCHANGED vars /\ ClearInv => ClearInv'
    <3>1. UNCHANGED vars /\ QuotaInv => QuotaInv'
      BY QuotaInvStutter
    <3>2. QED
      BY <3>1 DEF vars, tables, locks, ClearInv, NoDoubleBooking, ClearBy, SeatFound
  <2>2. QED
    BY <2>1, ClearInvStep DEF Next
<1>3. ClearInv => NoDoubleBooking
  BY DEF ClearInv
<1>4. QED
  BY <1>1, <1>2, <1>3, BirthInvariant, PTL DEF Spec
=============================================================================
