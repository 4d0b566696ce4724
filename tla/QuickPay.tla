------------------------------- MODULE QuickPay --------------------------------
(***************************************************************************)
(* The cash desk's dialog: which student and which matricula a payment is  *)
(* for.  It opens with nobody, with a student, or with one matricula of    *)
(* theirs, over lists that may still be on their way, and two effects      *)
(* choose for the user when there is nothing to choose.                    *)
(***************************************************************************)
EXTENDS FiniteSets, Naturals

CONSTANTS
    Of,             \* the student each matricula is of
    NoOne,
    MaxPayments

VARIABLES
    desk,           \* the dialog
    known,          \* the students and matriculas listed by now
    paid            \* what was paid: for which matricula, and what had been chosen

vars == <<desk, known, paid>>

Matriculas == DOMAIN Of
Students == {Of[m] : m \in Matriculas}

Nothing == [student |-> NoOne, matricula |-> NoOne]

(* The matricula clicked last, and the ones there were when one was taken   *)
(* unasked.                                                                *)
Shut == [shown |-> FALSE, opened |-> Nothing, given |-> Nothing, student |-> NoOne,
         matricula |-> NoOne, clicked |-> NoOne, among |-> {}]

Mine(student) == {m \in known'.matriculas : Of[m] = student}

(* A slip: the first of several is taken. *)
OnlyOrFirst(mine) == mine # {}

(* Taken unasked. *)
Only(mine) == Cardinality(mine) = 1

(* The student it was opened with is found as soon as they are listed.  An *)
(* only matricula is taken, and the one it was opened with always is.      *)
Settled(d) ==
    LET student == IF d.student = NoOne /\ d.given.student \in known'.students
                   THEN d.given.student ELSE d.student
        mine == Mine(student)
        unasked == d.matricula = NoOne /\ Only(mine)
    IN  [d EXCEPT !.student = student,
                  !.matricula = IF d.given.matricula \in mine THEN d.given.matricula
                                ELSE IF unasked THEN CHOOSE m \in mine : TRUE ELSE @,
                  !.among = IF unasked THEN mine ELSE @]

Init ==
    /\ desk = Shut
    /\ known \in [students : SUBSET Students, matriculas : SUBSET Matriculas]
    /\ paid = {}

(* From the list of students, the record of one, or the palette; again     *)
(* over the open dialog, it keeps what it has.                             *)
Open(given) ==
    /\ desk.shown => given = Nothing
    /\ UNCHANGED <<known, paid>>
    /\ desk' = Settled(IF desk.shown THEN [desk EXCEPT !.given = given]
                       ELSE [Shut EXCEPT !.shown = TRUE, !.opened = given, !.given = given,
                                         !.matricula = given.matricula])

SelectStudent(student) ==
    /\ desk.shown /\ desk.student = NoOne /\ student \in known.students
    /\ UNCHANGED <<known, paid>>
    /\ desk' = Settled([desk EXCEPT !.student = student, !.matricula = NoOne,
                                    !.clicked = NoOne])

(* Opened with a student, it has them again at once. *)
ChangeStudent ==
    /\ desk.shown /\ desk.student # NoOne
    /\ UNCHANGED <<known, paid>>
    /\ desk' = Settled([desk EXCEPT !.student = NoOne, !.matricula = NoOne,
                                    !.clicked = NoOne])

SelectMatricula(m) ==
    /\ desk.shown /\ m \in known.matriculas /\ Of[m] = desk.student
    /\ UNCHANGED <<known, paid>>
    /\ desk' = Settled([desk EXCEPT !.matricula = m, !.clicked = m])

(* The lists arrive, and grow. *)
Listed(students, matriculas) ==
    /\ known' = [students |-> known.students \cup students,
                 matriculas |-> known.matriculas \cup matriculas]
    /\ desk' = IF desk.shown THEN Settled(desk) ELSE desk
    /\ UNCHANGED paid

(* The matricula shown as selected, of the student shown. *)
Submit ==
    /\ desk.shown /\ desk.matricula \in known.matriculas /\ Of[desk.matricula] = desk.student
    /\ Cardinality(paid) < MaxPayments
    /\ paid' = paid \cup {[to |-> desk.matricula, clicked |-> desk.clicked,
                           opened |-> desk.opened.matricula, among |-> desk.among]}
    /\ UNCHANGED <<desk, known>>

(* With or without the receipt. *)
Close == desk.shown /\ desk' = Shut /\ UNCHANGED <<known, paid>>

Next ==
    \/ \E s \in Students : \E m \in {NoOne} \cup {n \in Matriculas : Of[n] = s} :
          Open([student |-> s, matricula |-> m])
    \/ Open(Nothing) \/ ChangeStudent \/ Submit \/ Close
    \/ \E s \in Students : SelectStudent(s) \/ Listed({s}, {})
    \/ \E m \in Matriculas : SelectMatricula(m) \/ Listed({}, {m})

Spec == Init /\ [][Next]_vars

-----------------------------------------------------------------------------
(* "Selecciona una matricula para aplicar el pago" (QuickPayModal:131-135): *)
(* a payment goes to the matricula the user clicked, or the dialog was      *)
(* opened with, or that was the only one of the student when it was taken   *)
(* unasked.                                                                 *)
PaidAsChosen ==
    \A p \in paid :
        p.to = p.clicked \/ p.to = p.opened \/ (p.clicked = NoOne /\ p.among = {p.to})

-----------------------------------------------------------------------------
(* Why it holds. *)

Picks == [student : Students \cup {NoOne}, matricula : Matriculas \cup {NoOne}]
Dialogs == [shown : BOOLEAN, opened : Picks, given : Picks,
            student : Students \cup {NoOne}, matricula : Matriculas \cup {NoOne},
            clicked : Matriculas \cup {NoOne}, among : SUBSET Matriculas]

\* The variables hold values of their types.
TypeOK ==
    /\ desk \in Dialogs
    /\ known \in [students : SUBSET Students, matriculas : SUBSET Matriculas]

\* What the dialog still has of how it was opened is what it was opened with.
GivenAsOpened(d) == d.given.matricula \in {NoOne, d.opened.matricula}

\* The matricula shown as selected was clicked, given, or the only one.
ChosenInDialog(d) ==
    /\ d.matricula = NoOne => d.clicked = NoOne
    /\ \/ d.matricula = d.clicked \/ d.matricula = d.opened.matricula
       \/ d.clicked = NoOne /\ d.among = {d.matricula}

DeskInv == TypeOK /\ GivenAsOpened(desk) /\ ChosenInDialog(desk) /\ PaidAsChosen
===============================================================================
