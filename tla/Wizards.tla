------------------------------- MODULE Wizards --------------------------------
(***************************************************************************)
(* The dialogs that make several things in a row: a course with its        *)
(* teacher and its classes (UnifiedCourseWizardModal), a teacher with a    *)
(* course and its classes (RegisterTeacherWizard), the classes of a course *)
(* (CreateScheduleModal).  Each sends one request after another and stops  *)
(* at the first that is refused; what was made stays made, and the next    *)
(* try begins again with what the dialog remembers.                        *)
(***************************************************************************)
EXTENDS Naturals, FiniteSets, Sequences

CONSTANTS Days,          \* the hours a class may be given
          MaxTries,      \* submissions
          MaxFaults      \* answers lost, hours taken by others

Wizards == {"course", "teacher", "schedule"}

VARIABLES
    wizard,    \* which one
    draft,     \* [slots, staffed: a teacher was chosen, qualified: speaks the language of the
               \*  course, fresh: is to be given an account, languages: and languages]
    dialog,    \* [open, warned: hours whose warnings are on screen, account: remembered,
               \*  hook: which submission asked last for a class, or 0]
    try,       \* the submissions under way: two at most
    made,      \* what the server has: accounts, languages, courses, staff, classes by hour
    taken,     \* hours at which others have the teacher or the room
    promised,  \* hours of the submissions that were announced as done
    tries, faults,
    stopped    \* which steps of making the account a submission stopped at

vars == <<wizard, draft, dialog, try, made, taken, promised, tries, faults, stopped>>

Turns == 1..2
NoTry == [stage |-> "none", todo |-> <<>>, slots |-> {}, force |-> FALSE]
Slot(d) == <<"class", d>>
Slots == {Slot(d) : d \in Days}
Account == <<"account">>
Languages == <<"languages">>

Idle(i) == try[i].stage = "none"
Doing(i) == Head(try[i].todo)

(* Hours that break a rule which may be overridden. *)
CONSTANT Outside

(* Only somebody new is given an account and languages, and who is new     *)
(* teaches nothing yet; a new course has nobody.                           *)
Init ==
    /\ wizard \in Wizards
    /\ draft \in [slots : (SUBSET Days) \ {{}}, staffed : BOOLEAN, qualified : BOOLEAN,
                  fresh : BOOLEAN, languages : BOOLEAN]
    /\ (wizard # "course" => draft.staffed)
    /\ (draft.fresh => wizard = "teacher") /\ (draft.languages => draft.fresh)
    /\ (draft.fresh /\ ~draft.languages => draft.qualified)
    /\ dialog = [open |-> TRUE, warned |-> {}, account |-> FALSE, hook |-> 0]
    /\ try = [i \in Turns |-> NoTry]
    /\ made \in [accounts : {0}, languages : {~draft.fresh}, courses : {0}, staff : BOOLEAN,
                 classes : {[d \in Days |-> 0]}]
    /\ (made.staff => wizard # "course" /\ ~draft.fresh)
    /\ taken = {} /\ promised = {} /\ tries = 0 /\ faults = 0 /\ stopped = {}

-----------------------------------------------------------------------------
(* The dialog. *)

(* The hours may be changed at any time, warnings on screen or not; what   *)
(* is under way goes on with those it began with.                          *)
Choose(slots) ==
    /\ dialog.open /\ slots # draft.slots
    /\ draft' = [draft EXCEPT !.slots = slots]
    /\ UNCHANGED <<wizard, dialog, try, made, taken, promised, tries, faults, stopped>>

(* In whatever order the draft lists them. *)
Classes(slots) ==
    {list \in [1..Cardinality(slots) -> {Slot(d) : d \in slots}] :
        \A d \in slots : \E i \in DOMAIN list : list[i] = Slot(d)}

(* A slip: nothing is remembered of an earlier try. *)
AccountStepsAnew ==
    IF draft.languages THEN <<Account, Languages>>
    ELSE IF draft.fresh THEN <<Account>> ELSE <<>>

(* A slip: the languages are left for another day. *)
AccountStepsBare == IF ~draft.fresh \/ dialog.account THEN <<>> ELSE <<Account>>

(* An account made by an earlier try is not made again, nor are its        *)
(* languages sent again.                                                   *)
AccountSteps ==
    IF ~draft.fresh \/ dialog.account THEN <<>>
    ELSE IF draft.languages THEN <<Account, Languages>> ELSE <<Account>>

CourseSteps == <<<<"course">>>> \o (IF draft.staffed THEN <<<<"staff">>>> ELSE <<>>)
TeacherSteps == AccountSteps \o <<<<"staff">>, <<"check">>>>
ScheduleSteps == <<<<"check">>>>

Steps ==
    CASE wizard = "course" -> CourseSteps
      [] wizard = "teacher" -> TeacherSteps
      [] wizard = "schedule" -> ScheduleSteps

(* A wizard's button waits for the whole submission; that of the classes   *)
(* only while the class asked for last is awaited, so that another one may *)
(* be sent while the hours are being checked.                              *)
Waits ==
    IF wizard = "schedule"
    THEN dialog.hook # 0 /\ ~Idle(dialog.hook) /\ Doing(dialog.hook) \in Slots
    ELSE \E i \in Turns : ~Idle(i)

(* With warnings on screen the button says: all the same. *)
Submit(i) ==
    /\ dialog.open /\ ~Waits /\ tries < MaxTries
    /\ Idle(i) /\ \A j \in 1..(i - 1) : ~Idle(j)
    /\ \E classes \in Classes(draft.slots) :
          try' = [try EXCEPT ![i] = [stage |-> "asked", todo |-> Steps \o classes,
                                     slots |-> draft.slots, force |-> dialog.warned # {}]]
    /\ dialog' = [dialog EXCEPT !.warned = {}]
    /\ tries' = tries + 1
    /\ UNCHANGED <<wizard, draft, made, taken, promised, faults, stopped>>

(* Closing the dialog does not call back what is under way. *)
Close ==
    /\ dialog.open
    /\ dialog' = [dialog EXCEPT !.open = FALSE]
    /\ UNCHANGED <<wizard, draft, try, made, taken, promised, tries, faults, stopped>>

-----------------------------------------------------------------------------
(* The server. *)

Clashes(d) == d \in taken \/ made.classes[d] > 0

(* Who has no languages is taken to teach any. *)
Qualified == made.languages => draft.qualified

(* A slip: whoever is named is given the class. *)
TeachesAnyone == TRUE

(* Only who teaches the course is given a class of it. *)
Teaches == made.staff

Doubtful(d) == d \in Outside \/ ~Qualified

TakesClass(i, d) == Teaches /\ ~Clashes(d) /\ (Doubtful(d) => try[i].force)

WithClass(d) == [made EXCEPT !.classes[d] = @ + 1]

(* A new course begins with nobody. *)
Accepted(i) ==
    CASE Doing(i) = Account -> made.accounts = 0
      [] Doing(i) = <<"staff">> -> Qualified /\ ~made.staff
      [] Doing(i) \in Slots -> TakesClass(i, Doing(i)[2])
      [] OTHER -> TRUE

Effect(i) ==
    CASE Doing(i) = Account -> [made EXCEPT !.accounts = @ + 1]
      [] Doing(i) = Languages -> [made EXCEPT !.languages = TRUE]
      [] Doing(i) = <<"course">> -> [made EXCEPT !.courses = @ + 1, !.staff = FALSE]
      [] Doing(i) = <<"staff">> -> [made EXCEPT !.staff = TRUE]
      [] Doing(i) \in Slots -> WithClass(Doing(i)[2])
      [] OTHER -> made

(* What the check of the hours finds stops the submission: a clash in any  *)
(* case, a warning unless it was overridden.                               *)
Found(i) ==
    IF Doing(i) # <<"check">> THEN "yes"
    ELSE IF \E d \in try[i].slots : Clashes(d) THEN "clash"
    ELSE IF ~try[i].force /\ (\E d \in try[i].slots : Doubtful(d)) THEN "warns" ELSE "yes"

Serve(i) ==
    /\ try[i].stage = "asked"
    /\ IF Accepted(i) THEN made' = Effect(i) /\ try' = [try EXCEPT ![i].stage = Found(i)]
       ELSE try' = [try EXCEPT ![i].stage = "no"] /\ UNCHANGED made
    /\ UNCHANGED <<wizard, draft, dialog, taken, promised, tries, faults, stopped>>

(* The request or its answer is lost; to the dialog both are a refusal. *)
Lose(i) ==
    /\ try[i].stage \in {"asked", "yes", "warns", "clash"} /\ faults < MaxFaults
    /\ try' = [try EXCEPT ![i].stage = "lost"] /\ faults' = faults + 1
    /\ UNCHANGED <<wizard, draft, dialog, made, taken, promised, tries, stopped>>

(* Another clerk gives the teacher or the room something else to do. *)
Take(d) ==
    /\ d \notin taken /\ made.classes[d] = 0 /\ faults < MaxFaults
    /\ taken' = taken \cup {d} /\ faults' = faults + 1
    /\ UNCHANGED <<wizard, draft, dialog, try, made, promised, tries, stopped>>

-----------------------------------------------------------------------------
(* The answers. *)

Onward(i) ==
    LET rest == Tail(try[i].todo)
    IN  try' = [try EXCEPT ![i] = IF Len(try[i].todo) > 1
                                  THEN [@ EXCEPT !.stage = "asked", !.todo = rest] ELSE NoTry]

(* The account that was made, and whose class is asked for next. *)
Remember(i) ==
    [dialog EXCEPT !.account = @ \/ Doing(i) = Account,
                   !.hook = IF try[i].todo[2] \in Slots THEN i ELSE @]

(* The last answer announces it all and closes the dialog. *)
Proceed(i) ==
    /\ try[i].stage = "yes"
    /\ Onward(i)
    /\ IF Len(try[i].todo) > 1
       THEN dialog' = Remember(i) /\ UNCHANGED promised
       ELSE /\ dialog' = [dialog EXCEPT !.open = FALSE]
            /\ promised' = promised \cup try[i].slots
    /\ UNCHANGED <<wizard, draft, made, taken, tries, faults, stopped>>

(* That the teacher could not be assigned is taken for being assigned. *)
Swallowed(i) == wizard = "teacher" /\ Doing(i) = <<"staff">>

Swallow(i) ==
    /\ try[i].stage \in {"no", "lost"} /\ Swallowed(i)
    /\ Onward(i)
    /\ UNCHANGED <<wizard, draft, dialog, made, taken, promised, tries, faults, stopped>>

Ends(i) == try' = [try EXCEPT ![i] = NoTry]

Warn(i) ==
    /\ try[i].stage \in {"warns", "clash"}
    /\ Ends(i)
    /\ dialog' = IF try[i].stage = "clash" THEN dialog
                 ELSE [dialog EXCEPT !.warned = {d \in try[i].slots : Doubtful(d)}]
    /\ UNCHANGED <<wizard, draft, made, taken, promised, tries, faults, stopped>>

Stop(i) ==
    /\ try[i].stage \in {"no", "lost"} /\ ~Swallowed(i)
    /\ Ends(i)
    /\ stopped' = stopped \cup ({Doing(i)} \cap {Account, Languages})
    /\ UNCHANGED <<wizard, draft, dialog, made, taken, promised, tries, faults>>

Next ==
    \/ \E slots \in (SUBSET Days) \ {{}} : Choose(slots)
    \/ Close
    \/ \E i \in Turns : Submit(i) \/ Serve(i) \/ Lose(i) \/ Proceed(i) \/ Swallow(i)
                        \/ Warn(i) \/ Stop(i)
    \/ \E d \in Days : Take(d)

Spec == Init /\ [][Next]_vars

-----------------------------------------------------------------------------
Calls == {Account, Languages, <<"course">>, <<"staff">>, <<"check">>} \cup Slots
Drafts == [slots : (SUBSET Days) \ {{}}, staffed : BOOLEAN, qualified : BOOLEAN,
           fresh : BOOLEAN, languages : BOOLEAN]
Dialogs == [open : BOOLEAN, warned : SUBSET Days, account : BOOLEAN, hook : 0..2]
Tries == [stage : {"none", "asked", "yes", "warns", "clash", "no", "lost"}, todo : Seq(Calls),
          slots : SUBSET Days, force : BOOLEAN]
Things == [accounts : 0..1, languages : BOOLEAN, courses : Nat, staff : BOOLEAN,
           classes : [Days -> 0..1]]

WizardTypeOK ==
    /\ wizard \in Wizards /\ draft \in Drafts /\ dialog \in Dialogs
    /\ try \in [Turns -> Tries]
    /\ made \in Things /\ taken \subseteq Days /\ promised \subseteq Days
    /\ faults \in Nat /\ stopped \subseteq {Account, Languages}
    /\ (draft.fresh => wizard = "teacher") /\ (draft.languages => draft.fresh)

(* Only the dialog of the classes has a second submission under way, and   *)
(* neither asks for anything but classes.                                  *)
Apart ==
    /\ wizard # "schedule" => Idle(2)
    /\ wizard = "schedule" => \A i \in Turns : \A k \in DOMAIN try[i].todo :
                                 try[i].todo[k] \in {<<"check">>} \cup Slots

(* A try ends with a class, and the account and then its languages are the *)
(* first things it asks for.                                               *)
ClassesLast ==
    \A i \in Turns : ~Idle(i) =>
        /\ try[i].todo # << >>
        /\ try[i].todo[Len(try[i].todo)] \in Slots
        /\ draft.fresh /\ ~dialog.account => Doing(i) = Account
        /\ \A k \in DOMAIN try[i].todo :
              try[i].todo[k] = Account => k = 1 /\ ~dialog.account
        /\ draft.languages /\ Doing(i) = Account => try[i].todo[2] = Languages

(* An hour of the try has its class, or it is still to be asked for. *)
NoneForgotten ==
    \A i \in Turns : \A d \in try[i].slots :
        \/ made.classes[d] = 1
        \/ \E k \in DOMAIN try[i].todo : try[i].todo[k] = Slot(d) /\ (try[i].stage = "yes" => k > 1)

ClassHasTeacher ==
    \A i \in Turns : try[i].stage = "yes" /\ Doing(i) \in Slots => made.staff

(* Languages that are to be stored are, unless a try stopped at them, or   *)
(* they are what the try asks for.                                         *)
LanguagesFollow ==
    draft.languages /\ dialog.account
    => \/ made.languages \/ Languages \in stopped
       \/ ~Idle(1) /\ Doing(1) = Languages /\ try[1].stage # "yes"

DoneIsOver == promised # {} => ~dialog.open /\ (wizard # "schedule" => Idle(1))

(* Only the check finds a warning or a clash; and a try fails at the       *)
(* account, or hears of nothing, only when something was lost.             *)
StagesTell ==
    \A i \in Turns :
        /\ try[i].stage \in {"warns", "clash"} => Doing(i) = <<"check">>
        /\ try[i].stage = "lost" \/ (try[i].stage = "no" /\ Doing(i) = Account) => faults > 0

AccountKnown ==
    faults = 0 /\ made.accounts # 0
    => dialog.account \/ (try[1].stage = "yes" /\ Doing(1) = Account)

(* What is announced as done is done, whatever was refused, lost, tried    *)
(* again or sent twice before, and though a refused assignment is not      *)
(* noticed: each hour of the submission has one class, of a teacher who    *)
(* teaches the course.  The languages of a new teacher are stored too,     *)
(* unless an earlier try stopped at them: they are never sent again.       *)
SaysDoneWhenDone ==
    promised # {} =>
        /\ made.staff
        /\ \A d \in promised : made.classes[d] = 1
        /\ draft.languages => made.languages \/ Languages \in stopped

(* Trying again never stumbles over the account the first try made, unless *)
(* an answer was lost.                                                     *)
RetriesSkipTheAccount == Account \in stopped => faults > 0

WizardInv ==
    WizardTypeOK /\ Apart /\ ClassesLast /\ NoneForgotten /\ ClassHasTeacher /\ StagesTell
    /\ LanguagesFollow /\ DoneIsOver /\ AccountKnown /\ SaysDoneWhenDone /\ RetriesSkipTheAccount

(* The full wizard announces the whole onboarding: account, qualifications, *)
(* course and timetable.  It does not hold: when the languages could not   *)
(* be stored the next try goes past them, and announces it all the same.   *)
OnboardingIsWhole ==
    promised # {} /\ draft.languages => made.languages

(* A class outside the teacher's hours is one whose warning was read.  It  *)
(* does not hold: the hours may be changed with the warning on screen.     *)
ForcedWhatWasWarned ==
    [][\A i \in Turns : \A d \in Outside :
        try'[i].force /\ ~try[i].force /\ d \in try'[i].slots => d \in dialog.warned]_vars

(* One course for one wizard.  It does not hold: a class that is refused   *)
(* leaves the course behind, and trying again makes another.               *)
OneCourse == made.courses <= 1
=============================================================================
