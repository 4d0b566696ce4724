------------------------------- MODULE Figures --------------------------------
(***************************************************************************)
(* The rules the web client works out by itself, as functions, each one    *)
(* against what it is meant to be: the server's own rule where it copies   *)
(* one, otherwise a definition that says what and not how.  Every          *)
(* comparison is over all inputs of a bounded size.                        *)
(***************************************************************************)
EXTENDS Integers, Sequences, FiniteSets

Rules == INSTANCE Lifecycles

Upto(n, S) == UNION {[1..k -> S] : k \in 0..n}
Where(s, Test(_)) == SelectSeq(s, Test)
RoundedDiv(a, b) == (2 * a + b) \div (2 * b)

-----------------------------------------------------------------------------
(* Attendance: lib/attendance.ts. *)

Marks == {"present", "late", "absent", "excused"}
Came(mark) == mark \in {"present", "late"}
Counts(mark) == mark \in {"present", "late", "absent"}

NoRate == -1
AttendancePct(marks) ==
    LET counted == Where(marks, Counts)
    IN  IF counted = << >> THEN NoRate
        ELSE RoundedDiv(100 * Len(Where(counted, Came)), Len(counted))

(* The latest mark first; an excused one neither breaks the run nor adds. *)
AbsenceStreak(latest) ==
    LET run[i \in 1..(Len(latest) + 1)] ==
            IF i > Len(latest) THEN 0
            ELSE CASE latest[i] = "excused" -> run[i + 1]
                   [] latest[i] = "absent" -> 1 + run[i + 1]
                   [] OTHER -> 0
    IN  run[1]

(* The server's: over the marks that count, how many until one who came. *)
ReportStreak(latest) ==
    LET counted == Where(latest, Counts)
        came == {i \in DOMAIN counted : Came(counted[i])}
    IN  IF came = {} THEN Len(counted)
        ELSE (CHOOSE i \in came : \A j \in came : i <= j) - 1

(* The teacher's page and the report of students at risk count one run of  *)
(* absences the same way, as long as both see the classes in one order.    *)
ASSUME StreaksAgree == \A s \in Upto(5, Marks) : AbsenceStreak(s) = ReportStreak(s)

(* An excused absence never changes the figure.                            *)
ASSUME ExcusesAreNeutral ==
    \A s \in Upto(4, Marks) : AttendancePct(s) = AttendancePct(Where(s, Counts))

-----------------------------------------------------------------------------
(* Matriculas and courses: lib/enrollment.ts, CourseStatusControl. *)

EnrollmentMoves ==
    [enrolled |-> <<"active", "inactive", "withdrawn">>,
     active |-> <<"inactive", "graduated", "withdrawn">>,
     inactive |-> <<"active", "withdrawn">>,
     graduated |-> << >>,
     withdrawn |-> << >>]

AllowedTransitions(current) == <<current>> \o EnrollmentMoves[current]
IsTerminalStatus(status) == EnrollmentMoves[status] = << >>
HoldsSeat(status) == status \in {"enrolled", "active"}
IsCurrent(status) == status \in {"enrolled", "active"}

CourseMoves ==
    [draft |-> <<"open", "archived">>,
     open |-> <<"in_progress", "draft", "archived">>,
     in_progress |-> <<"closed">>,
     closed |-> <<"archived", "in_progress">>,
     archived |-> << >>]

Members(s) == {s[i] : i \in DOMAIN s}

(* The drop-down of a matricula offers what the server allows, all of it   *)
(* and nothing else, and so do the buttons of a course.                    *)
ASSUME OffersTheTable ==
    /\ \A st \in Rules!EnrollmentStatus :
          /\ Members(AllowedTransitions(st)) = {st} \cup Rules!EnrollmentTransitions[st]
          /\ IsTerminalStatus(st) <=> Rules!EnrollmentTransitions[st] = {}
          /\ HoldsSeat(st) <=> st \in Rules!OccupiesSeat
    /\ \A st \in Rules!CourseStatus : Members(CourseMoves[st]) = Rules!CourseTransitions[st]

PaymentStatus == {"pending", "paid", "overdue"}
Matriculas == [status : Rules!EnrollmentStatus, payment_status : PaymentStatus]

IsDelinquent(e) ==
    e.payment_status = "overdue" /\ e.status \in {"enrolled", "active", "inactive"}

(* student_is_solvent: no overdue matricula that owes. *)
Owes == {"enrolled", "active", "inactive"}
Solvent(mine) == ~\E e \in mine : e.status \in Owes /\ e.payment_status = "overdue"

(* The label of a student in the list: the debt first. *)
DeriveStatus(is_active, mine) ==
    LET current == {e \in mine : IsCurrent(e.status)}
    IN  CASE ~is_active -> "baja"
          [] is_active /\ (\E e \in current : e.payment_status = "overdue") -> "moroso"
          [] is_active /\ current # {} /\ (\A e \in current : e.payment_status # "overdue") ->
                "activo"
          [] is_active /\ current = {} ->
                IF \E e \in mine : e.status = "graduated" THEN "egresado" ELSE "sin_curso"

SmallSets(S) == {T \in SUBSET S : Cardinality(T) <= 2}

(* The student's page warns exactly when the server refuses the grades.    *)
(* The list of students never calls a solvent one delinquent, but misses   *)
(* one kind: whoever owes on paused matriculas only.                       *)
ASSUME DebtsAreSeen ==
    \A mine \in SmallSets(Matriculas) :
        /\ (\E e \in mine : IsDelinquent(e)) <=> ~Solvent(mine)
        /\ DeriveStatus(TRUE, mine) = "moroso" => ~Solvent(mine)
        /\ ~Solvent(mine) /\ DeriveStatus(TRUE, mine) # "moroso" =>
              \E e \in mine : IsDelinquent(e) /\ e.status = "inactive"

-----------------------------------------------------------------------------
(* Ways of holding a class: lib/format.ts. *)

Modality == {"presencial", "semi_presencial", "virtual"}
UsesRoom(modality) == modality # "virtual"
NeedsLink(modality) == modality # "presencial"
ModalityUsesRoom == {"presencial", "semi_presencial"}
ModalityNeedsLink == {"virtual", "semi_presencial"}

CourseModality(slots) ==
    IF slots = << >> THEN "none"
    ELSE IF \A i \in DOMAIN slots : slots[i] = slots[1] THEN slots[1] ELSE "mixta"

(* A mixed class asks for both halves, here as on the server, and a course *)
(* is of one modality only when all of its slots are.                      *)
ASSUME BothHalves ==
    /\ \A md \in Modality :
          (UsesRoom(md) <=> md \in ModalityUsesRoom) /\ (NeedsLink(md) <=> md \in ModalityNeedsLink)
    /\ \A s \in Upto(3, Modality) : \A md \in Modality :
          CourseModality(s) = md <=> (s # << >> /\ Members(s) = {md})

-----------------------------------------------------------------------------
(* The calendar. *)

IsLeap(y) == (y % 4 = 0 /\ y % 100 # 0) \/ y % 400 = 0
DaysIn(y, m) ==
    CASE m = 2 -> IF IsLeap(y) THEN 29 ELSE 28
      [] m \in {4, 6, 9, 11} -> 30
      [] OTHER -> 31

Periods == [mensual |-> 1, bimensual |-> 2, trimestral |-> 3, cuatrimestral |-> 4,
            semestral |-> 6, anual |-> 12]

(* Carried month by month, and down to the last day of the month it ends in. *)
CalculateEndDate(date, periodicity) ==
    LET carry[ym \in (date.year..(date.year + 2)) \X (1..24)] ==
            IF ym[2] > 12 THEN carry[<<ym[1] + 1, ym[2] - 12>>] ELSE ym
        end == carry[<<date.year, date.month + Periods[periodicity]>>]
        last == DaysIn(end[1], end[2])
    IN  [year |-> end[1], month |-> end[2], day |-> IF date.day > last THEN last ELSE date.day]

Dates(years) ==
    {d \in [year : years, month : 1..12, day : 1..31] : d.day <= DaysIn(d.year, d.month)}
Months(d) == 12 * d.year + d.month

(* A period ends as many months later, on a day that exists, the same day  *)
(* unless that month is shorter; a later start never ends earlier.         *)
ASSUME EndDateRight ==
    \A d \in Dates({2023, 2024}) : \A p \in DOMAIN Periods :
        LET e == CalculateEndDate(d, p)
        IN  /\ Months(e) = Months(d) + Periods[p]
            /\ e.day <= DaysIn(e.year, e.month)
            /\ e.day = d.day \/ (e.day < d.day /\ e.day = DaysIn(e.year, e.month))

(* The month before, first to last day, for the payroll. *)
PrevMonthRange(date) ==
    LET month == IF date.month = 1 THEN 12 ELSE date.month - 1
        year == IF date.month = 1 THEN date.year - 1 ELSE date.year
    IN  [from |-> [year |-> year, month |-> month, day |-> 1],
         to |-> [year |-> year, month |-> month, day |-> DaysIn(year, month)]]

(* Days as JavaScript counts them, from Sunday; as the schedules, from Monday. *)
LocalDow(js) == (js + 6) % 7
DaysToSunday(js) == IF (7 - js) % 7 = 0 THEN 7 ELSE (7 - js) % 7

(* The preset of the weekend is the next Sunday there is, never today.     *)
ASSUME NextSunday ==
    \A js \in 0..6 : LocalDow((js + DaysToSunday(js)) % 7) = 6 /\ DaysToSunday(js) \in 1..7
=============================================================================
