----------------------------- MODULE Lifecycles -----------------------------
(***************************************************************************)
(* The two state machines that the rest of the backend asks questions of:  *)
(* the life of a matricula (an enrollment) and the life of a course, as    *)
(* the tables of backend/app/models/enums.py define them.                  *)
(***************************************************************************)

EnrollmentStatus == {"enrolled", "active", "inactive", "graduated", "withdrawn"}

CourseStatus == {"draft", "open", "in_progress", "closed", "archived"}

\* Statuses that hold a seat: they count against max_students and the plan.
OccupiesSeat == {"enrolled", "active"}

\* Statuses in which a matricula may be created.
OpeningStates == {"enrolled", "active"}

\* Courses that accept a new matricula.
AcceptsEnrolment == {"open", "in_progress"}

\* Courses whose sessions are on the agenda.
CourseIsActive == {"open", "in_progress"}

EnrollmentTransitions ==
    [enrolled  |-> {"active", "inactive", "withdrawn"},
     active    |-> {"inactive", "graduated", "withdrawn"},
     inactive  |-> {"active", "withdrawn"},
     graduated |-> {},
     withdrawn |-> {}]

\* Staying put is always allowed.
EnrollmentTransitionAllowed(current, target) ==
    current = target \/ target \in EnrollmentTransitions[current]

CourseTransitions ==
    [draft       |-> {"open", "archived"},
     open        |-> {"in_progress", "draft", "archived"},
     in_progress |-> {"closed"},
     closed      |-> {"archived", "in_progress"},
     archived    |-> {}]

CourseTransitionAllowed(current, target) ==
    current = target \/ target \in CourseTransitions[current]

=============================================================================
