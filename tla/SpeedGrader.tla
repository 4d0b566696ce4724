----------------------------- MODULE SpeedGrader ------------------------------
(***************************************************************************)
(* The deliveries of one task, graded one after the other                  *)
(* (features/assignments: TeacherSpeedGrader over the roster that          *)
(* AssignmentsPanel loads).  One form serves every student: it is filled   *)
(* anew when another student comes under it, which the list also does by   *)
(* itself, when a graded one leaves the filter or a reload brings rows     *)
(* that changed.                                                           *)
(***************************************************************************)
EXTENDS Naturals, Sequences

CONSTANTS
    Last,        \* the students are 1..Last, in the order of the roster
    MaxCalls,    \* bound: grades sent
    MaxOthers    \* bound: what others do to the deliveries meanwhile

VARIABLES
    server,      \* each delivery: none, pending or its score
    roster,      \* the copy on the screen
    filter,      \* which of them the list holds
    index,       \* the place in the list, from 1
    synced,      \* what the form was last filled for
    input,       \* the score in the form, and the student it was loaded or typed for
    saving,      \* the buttons and fields are off
    calls,       \* the grades on their way
    loads,       \* the reloads on their way, with what they read
    sent, others

vars == <<server, roster, filter, index, synced, input, saving, calls, loads, sent, others>>

Students == 1..Last
Scores == {"ten", "low"}
NoOne == 0

(* As AssignmentsPanel leaves it when the request for the rows fails. *)
Emptied == [s \in Students |-> "unknown"]

Passes(status, by) ==
    CASE by = "pending" -> status = "pending"
      [] by = "graded" -> status \in Scores
      [] by = "unsubmitted" -> status = "none"
      [] by = "all" -> status # "unknown"

Filtered(rows, by) == SelectSeq([s \in Students |-> s], LAMBDA s : Passes(rows[s], by))

(* filteredStudents[currentIndex] || filteredStudents[0] *)
ActiveOf(list, place) ==
    IF list = << >> THEN NoOne
    ELSE IF place \in DOMAIN list THEN list[place] ELSE list[1]

Active == ActiveOf(Filtered(roster, filter), index)

(* A slip: only when the place in the list changes. *)
FillsOnPlace(place, student) == place

(* What the form is filled again on: another student under it. *)
FillsOn(place, student) == student

(* What every change ends with (two effects of the component): the place   *)
(* stays within the list, and the form shows who is there, 10 when there   *)
(* is no score yet.                                                        *)
Show(rows, by, place) ==
    LET list == Filtered(rows, by)
        inside == IF list # << >> /\ place > Len(list) THEN Len(list) ELSE place
        student == ActiveOf(list, inside)
        key == FillsOn(inside, student)
    IN  /\ roster' = rows /\ filter' = by /\ index' = inside
        /\ synced' = key
        /\ input' = IF student = NoOne \/ key = synced THEN input
                    ELSE [score |-> IF rows[student] \in Scores THEN rows[student] ELSE "ten",
                          student |-> student]

Init ==
    /\ server \in [Students -> {"none", "pending"}]
    /\ roster = server
    /\ filter = "pending"
    /\ index = 1
    /\ LET first == ActiveOf(Filtered(server, "pending"), 1)
       IN  /\ synced = FillsOn(1, first)
           /\ input = [score |-> "ten", student |-> first]
    /\ saving = FALSE
    /\ calls = {} /\ loads = {}
    /\ sent = 0 /\ others = 0

-----------------------------------------------------------------------------
Filter(by) ==
    /\ by # filter
    /\ Show(roster, by, 1)
    /\ UNCHANGED <<server, saving, calls, loads, sent, others>>

(* The arrows and the drop-down work while a grade is being saved. *)
Select(place) ==
    /\ place \in DOMAIN Filtered(roster, filter) \ {index}
    /\ Show(roster, filter, place)
    /\ UNCHANGED <<server, saving, calls, loads, sent, others>>

Type ==
    /\ ~saving
    /\ Active # NoOne /\ roster[Active] # "none"
    /\ \E score \in Scores \ {input.score} : input' = [score |-> score, student |-> Active]
    /\ UNCHANGED <<server, roster, filter, index, synced, saving, calls, loads, sent, others>>

(* Control and Enter do not look at saving. *)
Save(onward) ==
    /\ Active # NoOne /\ roster[Active] # "none"
    /\ sent < MaxCalls
    /\ sent' = sent + 1
    /\ saving' = TRUE
    /\ calls' = calls \cup
         {[student |-> Active, entered |-> input.student, score |-> input.score,
           onward |-> onward, place |-> index, by |-> filter,
           length |-> Len(Filtered(roster, filter)), stage |-> "sent"]}
    /\ UNCHANGED <<server, roster, filter, index, synced, input, loads, others>>

(* With nothing to grade, the same keys go on to the next. *)
Skip ==
    /\ Active # NoOne /\ roster[Active] = "none"
    /\ index < Len(Filtered(roster, filter))
    /\ Show(roster, filter, index + 1)
    /\ UNCHANGED <<server, saving, calls, loads, sent, others>>

Serve(call) ==
    /\ call.stage = "sent"
    /\ server' = [server EXCEPT ![call.student] = call.score]
    /\ calls' = (calls \ {call}) \cup {[call EXCEPT !.stage = "done"]}
    /\ UNCHANGED <<roster, filter, index, synced, input, saving, loads, sent, others>>

(* Where the answer leaves the list: of the pending ones the graded one    *)
(* will go, so only the last place moves; the rest go on by one.           *)
Onward(call) ==
    IF ~call.onward THEN index
    ELSE IF call.by = "pending"
    THEN IF call.place >= call.length /\ call.length > 1 /\ index > 1 THEN index - 1 ELSE index
    ELSE IF call.place < call.length THEN index + 1 ELSE index

(* onGraded: the rows are asked for again, and nobody waits for them. *)
Answer(call) ==
    /\ call.stage = "done"
    /\ calls' = calls \ {call}
    /\ saving' = FALSE
    /\ loads' = loads \cup {[read |-> FALSE, rows |-> Emptied]}
    /\ Show(roster, filter, Onward(call))
    /\ UNCHANGED <<server, sent, others>>

Fail(call) ==
    /\ calls' = calls \ {call}
    /\ saving' = FALSE
    /\ UNCHANGED <<server, roster, filter, index, synced, input, loads, sent, others>>

Read(load) ==
    /\ ~load.read
    /\ loads' = (loads \ {load}) \cup {[load EXCEPT !.read = TRUE, !.rows = server]}
    /\ UNCHANGED <<server, roster, filter, index, synced, input, saving, calls, sent, others>>

(* loadData puts what came, whichever load it was: a failed one is empty. *)
Reload(load, failed) ==
    /\ load.read \/ failed
    /\ loads' = loads \ {load}
    /\ Show(IF failed THEN Emptied ELSE load.rows, filter, index)
    /\ UNCHANGED <<server, saving, calls, sent, others>>

(* A student hands in, or somebody else grades. *)
Other(s) ==
    /\ others < MaxOthers
    /\ others' = others + 1
    /\ server' = [server EXCEPT ![s] = IF @ = "none" THEN "pending" ELSE "ten"]
    /\ UNCHANGED <<roster, filter, index, synced, input, saving, calls, loads, sent>>

Next ==
    \/ \E by \in {"pending", "graded", "unsubmitted", "all"} : Filter(by)
    \/ \E place \in Students : Select(place)
    \/ Type \/ Skip
    \/ \E onward \in BOOLEAN : Save(onward)
    \/ \E call \in calls : Serve(call) \/ Answer(call) \/ Fail(call)
    \/ \E load \in loads : Read(load) \/ Reload(load, TRUE) \/ Reload(load, FALSE)
    \/ \E s \in Students : Other(s)

-----------------------------------------------------------------------------
(* A grade is never saved for a student whose score was not the one typed  *)
(* or shown in the form: whatever moved under the teacher's hands, what is *)
(* sent for somebody was entered for them.                                 *)
EnteredForThem == \A call \in calls : call.entered = call.student

-----------------------------------------------------------------------------
(* Why it holds: the form has been filled for whoever is under it.         *)
FilledForActive ==
    /\ synced = Active
    /\ Active # NoOne => input.student = Active

\* A grade on its way still says whom it is for, and for whom it was entered.
CallsAsEntered ==
    \A call \in calls :
        call = [student |-> call.student, entered |-> call.student, score |-> call.score,
                onward |-> call.onward, place |-> call.place, by |-> call.by,
                length |-> call.length, stage |-> call.stage]

GraderInv == FilledForActive /\ CallsAsEntered
===============================================================================
