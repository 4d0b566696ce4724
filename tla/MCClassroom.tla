---------------------------- MODULE MCClassroom -----------------------------
EXTENDS Classroom, TLC

CONSTANTS mA, x1, x2, p1, p2

\* The course whose register is taken: one seat, and two days of which the
\* second is not on the timetable.
HomeA == mA :> "A"
CourseA == x1 :> "A" @@ x2 :> "A"
CapacityA == "A" :> 1
Today == x1 :> 0 @@ x2 :> 0

\* The course with one place for a visitor from A, today and tomorrow.
CourseB == x1 :> "B" @@ x2 :> "B"
CapacityB == "A" :> 1 @@ "B" :> 1
TwoDays == x1 :> 0 @@ x2 :> 1

Alike == Permutations({p1, p2}) \cup Permutations(Requests)
=============================================================================
