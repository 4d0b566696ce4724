----------------------------- MODULE FormSession ------------------------------
(***************************************************************************)
(* One form of the web client while requests travel: it is opened, filled, *)
(* sent, closed by hand at any moment (Escape, the veil and the cross are  *)
(* never blocked: Modal in components/ui.tsx) and opened again, and the    *)
(* answers act on it when they arrive.                                     *)
(*                                                                         *)
(* What an answer may still do depends on who asked.  The callbacks given  *)
(* to mutate() are called for the latest call only, and not once the       *)
(* component that owns the hook is gone; code after an await always runs.  *)
(***************************************************************************)
EXTENDS Forms, Naturals

CONSTANTS MaxOpens, MaxSends, MaxFaults

VARIABLES
    form,     \* which one it is
    view,     \* is it open, for the how many-th time, what it holds, complete or not
    calls,    \* what was sent, in order, and what became of it
    copies,   \* how often the server carried out each draft
    faults

vars == <<form, view, calls, copies, faults>>

Stages == {"sent", "done", "refused", "lost", "heard"}
Drafts == 1..(MaxOpens + MaxSends)

InFlight(call) == call.stage # "heard"

(* A slip: the flag of a dialog, where the panel keeps what is typed. *)
BusyHere == \E i \in DOMAIN calls : InFlight(calls[i]) /\ calls[i].nth = view.nth

(* isPending of the hook, or the flag the form keeps while it waits. *)
Busy == \E i \in DOMAIN calls :
            InFlight(calls[i]) /\ (form.owner = "panel" \/ calls[i].nth = view.nth)

(* A new one: the next number. *)
Fresh == [view EXCEPT !.draft = @ + 1, !.ready = (form.needs = {} \/ form.begins = "record")]

TypeOK ==
    /\ form \in AllForms
    /\ view \in [open : BOOLEAN, nth : 0..MaxOpens, draft : 0..(MaxOpens + MaxSends), ready : BOOLEAN]
    /\ \A i \in DOMAIN calls :
          calls[i] \in [nth : 1..MaxOpens, draft : Drafts, stage : Stages, unsure : BOOLEAN]
    /\ copies \in [Drafts -> 0..MaxSends]
    /\ faults \in 0..MaxFaults

Init ==
    /\ form \in AllForms
    /\ view = [open |-> FALSE, nth |-> 0, draft |-> 0, ready |-> FALSE]
    /\ calls = << >>
    /\ copies = [d \in Drafts |-> 0]
    /\ faults = 0

(* What is typed outlives the dialog only when the panel keeps it. *)
Open ==
    /\ ~view.open
    /\ view.nth < MaxOpens
    /\ LET kept == form.holds = "panel" /\ view.draft > 0
       IN  view' = [(IF kept THEN view ELSE Fresh) EXCEPT !.open = TRUE, !.nth = @ + 1]
    /\ UNCHANGED <<form, calls, copies, faults>>

Fill ==
    /\ view.open /\ ~view.ready
    /\ view' = [view EXCEPT !.ready = TRUE]
    /\ UNCHANGED <<form, calls, copies, faults>>

Send ==
    /\ view.open /\ view.ready
    /\ form.blocks => ~Busy
    /\ Len(calls) < MaxSends
    /\ calls' = Append(calls, [nth |-> view.nth, draft |-> view.draft, stage |-> "sent",
                               unsure |-> FALSE])
    /\ UNCHANGED <<form, view, copies, faults>>

(* onClose of Modal. *)
Close ==
    /\ view.open
    /\ view' = [view EXCEPT !.open = FALSE]
    /\ UNCHANGED <<form, calls, copies, faults>>

Serve(i) ==
    /\ calls[i].stage = "sent"
    /\ calls' = [calls EXCEPT ![i].stage = "done"]
    /\ copies' = [copies EXCEPT ![calls[i].draft] = @ + 1]
    /\ UNCHANGED <<form, view, faults>>

Refuse(i) ==
    /\ calls[i].stage = "sent"
    /\ calls' = [calls EXCEPT ![i].stage = "refused"]
    /\ UNCHANGED <<form, view, copies, faults>>

(* The request or its answer is lost: the client hears of an error. *)
Lose(i) ==
    /\ calls[i].stage \in {"sent", "done"}
    /\ faults < MaxFaults
    /\ calls' = [calls EXCEPT ![i].stage = "lost", ![i].unsure = TRUE]
    /\ faults' = faults + 1
    /\ UNCHANGED <<form, view, copies>>

(* A slip: the callbacks that outlive the dialog that asked. *)
HeardAnyway(i) == i \in DOMAIN calls

(* The answer finds its code still there. *)
Heard(i) ==
    \/ form.awaits
    \/ /\ \A j \in (i + 1)..Len(calls) : form.owner # "panel" /\ calls[j].nth # calls[i].nth
       /\ form.owner = "panel" \/ (view.open /\ calls[i].nth = view.nth)

(* What onSuccess does to the form on the screen, whichever it is by now. *)
Saved ==
    CASE form.saved = "closes" -> IF form.holds = "panel" THEN [Fresh EXCEPT !.open = FALSE]
                                  ELSE [view EXCEPT !.open = FALSE]
      [] form.saved = "clears" -> Fresh
      [] form.saved = "stays" -> view

Failed == IF form.failed = "closes" THEN [view EXCEPT !.open = FALSE] ELSE view

Answer(i) ==
    /\ calls[i].stage \in {"done", "refused", "lost"}
    /\ calls' = [calls EXCEPT ![i].stage = "heard"]
    /\ view' = IF ~Heard(i) THEN view
               ELSE IF calls[i].stage = "done" THEN Saved ELSE Failed
    /\ UNCHANGED <<form, copies, faults>>

Next ==
    \/ Open \/ Fill \/ Send \/ Close
    \/ \E i \in DOMAIN calls : Serve(i) \/ Refuse(i) \/ Lose(i) \/ Answer(i)

-----------------------------------------------------------------------------
(* What begins blank and goes away when saved is carried out once, however *)
(* often it is pressed, closed and opened again meanwhile; only after an   *)
(* answer was lost may it be carried out again.                            *)
SavedOnce ==
    (form.begins = "blank" /\ form.saved # "stays")
    => \A d \in Drafts :
          copies[d] > 1 => \E i \in DOMAIN calls : calls[i].draft = d /\ calls[i].unsure

(* What there is about a form that begins blank and goes away when saved.  *)
BlankAndGone(f) == f.begins = "blank" /\ f.saved # "stays"

Sound(f) ==
    BlankAndGone(f) =>
       /\ f.blocks
       /\ f.saved \in {"closes", "clears"}
       /\ f.holds = "dialog" \/ (f.holds = "panel" /\ f.owner = "panel")

(* TypeOK without the bounds of the runs. *)
Views == [open : BOOLEAN, nth : Nat, draft : Nat, ready : BOOLEAN]
Calls == [nth : Nat, draft : Nat, stage : Stages, unsure : BOOLEAN]

ViewsAndCalls ==
    /\ view \in Views
    /\ calls \in Seq(Calls)
    /\ copies \in [Drafts -> Nat]

(* No call is of an opening or of a draft to come. *)
CallsArePast ==
    \A i \in DOMAIN calls : calls[i].nth <= view.nth /\ calls[i].draft <= view.draft

(* What the dialog keeps is not seen again in a later opening. *)
DraftOfItsOpening ==
    form.holds = "dialog"
    => \A i \in DOMAIN calls : calls[i].draft = view.draft => calls[i].nth = view.nth

(* While a request is under way its draft is not sent again, nor does the  *)
(* same hook send another.                                                 *)
OneAtATime ==
    \A i, j \in DOMAIN calls :
        i < j /\ InFlight(calls[i]) =>
           /\ form.owner # "panel" /\ calls[j].nth # calls[i].nth
           /\ InFlight(calls[j]) => calls[j].draft # calls[i].draft

(* Once carried out a draft is at its end: its answer is on the way, or it *)
(* has left the form, or the dialog it was in is closed.                   *)
CarriedOutIsOver ==
    \A d \in Drafts : copies[d] > 0 =>
       \/ \E i \in DOMAIN calls : calls[i].draft = d /\ calls[i].unsure
       \/ /\ copies[d] = 1
          /\ d <= view.draft
          /\ \A i \in DOMAIN calls : calls[i].draft = d => calls[i].stage # "sent"
          /\ \/ \E i \in DOMAIN calls : calls[i].draft = d /\ calls[i].stage = "done"
             \/ d < view.draft
             \/ form.holds = "dialog" /\ ~view.open

SessionInv ==
    BlankAndGone(form) =>
       /\ ViewsAndCalls /\ CallsArePast /\ DraftOfItsOpening /\ OneAtATime
       /\ CarriedOutIsOver

(* The forms whose answer closes, or begins anew, whatever is open when it *)
(* comes, though that was opened since for another record: the code awaits *)
(* the answer, or the hook is of the panel that stays.                     *)
ActOnAnother ==
    {EditUser, DeleteUser, DeactivateStudent, TenantStatus, RejectPlan, QuickCourse, DeleteCourse,
     DeleteEnrollment, StudentPayment, CourseMove, RejectProposal, RejectRenewal, AddLanguage,
     AddLevel, DeleteLanguage, DeleteLevel, AddRoom, DeleteRoom, AddHoliday, DeleteHoliday, Rate,
     ChangePassword, AddOwnLanguage, ScheduleEdit, DeleteSchedule, NewAssignment, Delivery,
     RescheduleClass, CancelClass, CloseRegister, AwardXP}

(* What makes one of them. *)
Reaches(f) == (f.awaits \/ f.owner = "panel") /\ (f.saved # "stays" \/ f.failed = "closes")

(* But for those, an answer closes or clears only the opening it was sent  *)
(* from: never a dialog opened since for another record.                   *)
OwnAnswer ==
    form \notin ActOnAnother
    => \A i \in DOMAIN calls :
          (calls'[i].stage = "heard" /\ InFlight(calls[i]) /\ view' # view)
          => calls[i].nth = view.nth
===============================================================================
