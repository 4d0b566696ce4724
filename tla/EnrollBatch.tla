------------------------------ MODULE EnrollBatch ------------------------------
(***************************************************************************)
(* Enrolling several students at once: the ticks of the list of students,  *)
(* the wizard that takes them over, the batch it sends and what it makes   *)
(* of a batch that left some of them out.  One course, Seats places; a     *)
(* clerk elsewhere enrols and withdraws meanwhile.                         *)
(***************************************************************************)
EXTENDS Naturals, Sequences, FiniteSets

CONSTANTS Students, Busy, Gone, Seats, MaxBatches, MaxOthers

Lists == INSTANCE ListFigures

VARIABLES
    tab, selected,      \* the list of students and its ticks
    wizard,             \* what it shows, for the how many-th time, whom it holds
    calls,              \* the batches sent
    in,                 \* who is in the course, on the server
    known,              \* and as the client last read it
    others

vars == <<tab, selected, wizard, calls, in, known, others>>

Tabs == {"activos", "sin_curso", "baja", "todos"}
Away == [shown |-> "no", nth |-> 0, picked |-> {}, clash |-> FALSE]

Heard == [who |-> {}, force |-> FALSE, nth |-> 0, stage |-> "heard", out |-> {}, clash |-> FALSE]

Init ==
    /\ tab = "activos" /\ selected = {}
    /\ wizard = Away
    /\ calls = << >>
    /\ in = {} /\ known = {}
    /\ others = 0

(* The label of each one; nobody owes anything here. *)
Label(s) == IF s \in Gone THEN "baja" ELSE IF s \in known THEN "activo" ELSE "sin_curso"
Visible == {s \in Students : Lists!InStudentTab(Label(s), tab)}

(* By hand a change of tab takes the ticks away; a link does not. *)
ChooseTab(t) ==
    /\ wizard.shown = "no"
    /\ tab' = t /\ selected' = {}
    /\ UNCHANGED <<wizard, calls, in, known, others>>

FollowLink(t) ==
    /\ wizard.shown = "no"
    /\ tab' = t
    /\ UNCHANGED <<selected, wizard, calls, in, known, others>>

Tick(s) ==
    /\ wizard.shown = "no" /\ s \in Visible
    /\ selected' = IF s \in selected THEN selected \ {s} ELSE selected \cup {s}
    /\ UNCHANGED <<tab, wizard, calls, in, known, others>>

TickAll ==
    /\ wizard.shown = "no"
    /\ selected' = Lists!ToggleAll(selected, Visible)
    /\ UNCHANGED <<tab, wizard, calls, in, known, others>>

Mount(students) ==
    wizard' = [shown |-> "form", nth |-> Len(calls) + 1, picked |-> students, clash |-> FALSE]

OpenWizard ==
    /\ wizard.shown = "no" /\ selected # {}
    /\ Mount(selected)
    /\ UNCHANGED <<tab, selected, calls, in, known, others>>

(* From the record of one student. *)
OpenFromRecord(s) ==
    /\ wizard.shown = "no" /\ s \in Visible
    /\ selected' = {s} /\ Mount({s})
    /\ UNCHANGED <<tab, calls, in, known, others>>

Add(s) ==
    /\ wizard.shown = "form" /\ s \notin Gone \cup wizard.picked
    /\ wizard' = [wizard EXCEPT !.picked = @ \cup {s}]
    /\ UNCHANGED <<tab, selected, calls, in, known, others>>

Remove(s) ==
    /\ wizard.shown = "form" /\ s \in wizard.picked
    /\ wizard' = [wizard EXCEPT !.picked = @ \ {s}]
    /\ UNCHANGED <<tab, selected, calls, in, known, others>>

Pending == \E i \in DOMAIN calls : calls[i].stage # "heard" /\ calls[i].nth = wizard.nth

CanSubmit ==
    /\ wizard.picked # {} /\ wizard.picked \cap known = {}
    /\ Cardinality(wizard.picked) + Cardinality(known) <= Seats

(* The button that overrides asks for nothing but a clash told before. *)
Submit(force) ==
    /\ wizard.shown = "form" /\ ~Pending
    /\ IF force THEN wizard.clash ELSE CanSubmit
    /\ Len(calls) < MaxBatches
    /\ calls' = Append(calls, [who |-> wizard.picked, force |-> force, nth |-> wizard.nth,
                               stage |-> "sent", out |-> {}, clash |-> FALSE])
    /\ UNCHANGED <<tab, selected, wizard, in, known, others>>

(* bulk_enroll: one by one, while there is room, whoever is not in it yet  *)
(* and, unless forced, whose timetable does not clash; who comes after the *)
(* last place is told that it is full and nothing of a clash.              *)
Serve(i) ==
    /\ calls[i].stage = "sent"
    /\ LET new == calls[i].who \ in
           clashing == IF calls[i].force THEN {} ELSE new \cap Busy
           may == new \ clashing
           free == Seats - Cardinality(in)
       IN  \E made \in SUBSET may, told \in SUBSET clashing :
              /\ Cardinality(made) = IF Cardinality(may) <= free THEN Cardinality(may) ELSE free
              /\ IF Cardinality(may) < free THEN told = clashing
                 ELSE free = 0 => told = {}
              /\ in' = in \cup made
              /\ calls' = [calls EXCEPT ![i].stage = "done", ![i].out = calls[i].who \ made,
                                        ![i].clash = (told # {})]
    /\ UNCHANGED <<tab, selected, wizard, known, others>>

Close == wizard' = Away /\ selected' = {}

(* Everybody in: it goes away. Otherwise the list of who was left out      *)
(* takes the place of the form; a wizard closed meanwhile hears nothing.   *)
Answer(i) ==
    /\ calls[i].stage = "done"
    /\ calls' = [calls EXCEPT ![i] = [Heard EXCEPT !.force = calls[i].force]]
    /\ IF wizard.shown = "no" \/ wizard.nth # calls[i].nth THEN UNCHANGED <<wizard, selected>>
       ELSE IF calls[i].out = {} THEN Close
       ELSE /\ wizard' = [wizard EXCEPT !.shown = "result", !.clash = @ \/ calls[i].clash]
            /\ UNCHANGED selected
    /\ UNCHANGED <<tab, in, known, others>>

CloseForm == wizard.shown = "form" /\ Close /\ UNCHANGED <<tab, calls, in, known, others>>

(* A slip: back to the form, which is what the override was made for. *)
BackToForm ==
    /\ wizard.shown = "result"
    /\ wizard' = [wizard EXCEPT !.shown = "form"]
    /\ UNCHANGED <<tab, selected, calls, in, known, others>>

(* The result clears itself and closes the wizard in the same breath. *)
CloseResult == wizard.shown = "result" /\ Close /\ UNCHANGED <<tab, calls, in, known, others>>

Reread ==
    /\ known # in
    /\ known' = in
    /\ UNCHANGED <<tab, selected, wizard, calls, in, others>>

Elsewhere ==
    /\ others < MaxOthers
    /\ others' = others + 1
    /\ \/ \E s \in in : in' = in \ {s}
       \/ \E s \in Students \ in : Cardinality(in) < Seats /\ in' = in \cup {s}
    /\ UNCHANGED <<tab, selected, wizard, calls, known>>

Next ==
    \/ \E t \in Tabs : ChooseTab(t) \/ FollowLink(t)
    \/ \E s \in Students : Tick(s) \/ OpenFromRecord(s) \/ Add(s) \/ Remove(s)
    \/ TickAll \/ OpenWizard \/ CloseForm \/ CloseResult \/ Reread \/ Elsewhere
    \/ Submit(FALSE) \/ Submit(TRUE)
    \/ \E i \in DOMAIN calls : Serve(i) \/ Answer(i)

Spec == Init /\ [][Next]_vars

-----------------------------------------------------------------------------
Batches == [who : SUBSET Students, force : BOOLEAN, nth : Nat,
            stage : {"sent", "done", "heard"}, out : SUBSET Students, clash : BOOLEAN]

TypeOK ==
    /\ selected \subseteq Students
    /\ wizard \in [shown : {"no", "form", "result"}, nth : Nat, picked : SUBSET Students,
                   clash : BOOLEAN]
    /\ calls \in Seq(Batches)

(* A form on the screen has not been told of a clash. *)
FormKnowsOfNone == wizard.shown = "form" => ~wizard.clash

BatchInv == TypeOK /\ FormKnowsOfNone /\ \A i \in DOMAIN calls : ~calls[i].force

(* Nobody is ever enrolled over a clash from here: by the time the wizard  *)
(* knows of one it shows who was left out, and closing that closes it, so  *)
(* the button that overrides is never on the screen.                       *)
NeverForced == \A i \in DOMAIN calls : ~calls[i].force
===============================================================================
