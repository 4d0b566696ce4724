----------------------------- MODULE ListFigures ------------------------------
(***************************************************************************)
(* What the lists of the web client hold and count: tabs, filters, totals, *)
(* and the tables it keeps a copy of.                                      *)
(***************************************************************************)
EXTENDS Integers, Sequences, FiniteSets

Few(S) == {T \in SUBSET S : Cardinality(T) <= 2}
Listed(S, n) == UNION {[1..k -> S] : k \in 0..n}

Total(s, Of(_)) ==
    LET sum[i \in 0..Len(s)] == IF i = 0 THEN 0 ELSE sum[i - 1] + Of(s[i]) IN sum[Len(s)]

AtLeast0(x) == IF x < 0 THEN 0 ELSE x

-----------------------------------------------------------------------------
(* The tabs of the students, by the label each one carries. *)

StudentLabels == {"activo", "moroso", "egresado", "sin_curso", "baja"}
InStudentTab(label, tab) ==
    CASE tab = "activos" -> label = "activo"
      [] tab = "sin_curso" -> label \in {"sin_curso", "egresado"}
      [] tab = "morosos" -> label = "moroso"
      [] tab = "baja" -> label = "baja"
      [] tab = "todos" -> TRUE

StudentCount(tab) ==
    CASE tab = "activos" -> {"activo"}
      [] tab = "sin_curso" -> {"sin_curso", "egresado"}
      [] tab = "morosos" -> {"moroso"}
      [] tab = "baja" -> {"baja"}

(* Every student is under one tab besides "all", and the number on a tab   *)
(* is how many it lists.                                                   *)
ASSUME StudentTabsPartition ==
    \A label \in StudentLabels :
        LET tabs == {t \in {"activos", "sin_curso", "morosos", "baja"} : InStudentTab(label, t)}
        IN  Cardinality(tabs) = 1 /\ \A t \in tabs : label \in StudentCount(t)

(* "Select all" ticks what is on the screen, or takes its ticks away when  *)
(* all of it is ticked; what is ticked elsewhere stays.                    *)
ToggleAll(selected, visible) ==
    IF visible # {} /\ visible \subseteq selected THEN selected \ visible
    ELSE selected \cup visible

ASSUME TogglesOnlyTheVisible ==
    \A selected \in SUBSET (1..3) : \A visible \in SUBSET (1..3) :
        LET once == ToggleAll(selected, visible)
        IN  /\ once \ visible = selected \ visible
            /\ visible \subseteq once \/ once \cap visible = {}
            /\ ToggleAll(once, visible) \ visible = selected \ visible

-----------------------------------------------------------------------------
(* The tabs of the tasks. Staff: by what is left to grade. *)

Deliveries == {"submitted", "graded"}
InTaskTab(subs, tab) ==
    LET pending == {i \in DOMAIN subs : subs[i] # "graded"}
    IN  CASE tab = "pending" -> pending # {}
          [] tab = "graded" -> subs # << >> /\ pending = {}
          [] tab = "all" -> TRUE

(* A student: by the own delivery. *)
InOwnTab(own, tab) ==
    CASE tab = "pending" -> own = "none"
      [] tab = "submitted" -> own \notin {"none", "graded"}
      [] tab = "graded" -> own = "graded"
      [] tab = "all" -> TRUE

(* A task that somebody handed in is either to grade or graded; one nobody *)
(* handed in is in neither, and a student's is in exactly one.             *)
ASSUME TaskTabsPartition ==
    /\ \A subs \in Listed(Deliveries, 3) :
          /\ ~(InTaskTab(subs, "pending") /\ InTaskTab(subs, "graded"))
          /\ (InTaskTab(subs, "pending") \/ InTaskTab(subs, "graded")) <=> subs # << >>
    /\ \A own \in Deliveries \cup {"none"} :
          Cardinality({t \in {"pending", "submitted", "graded"} : InOwnTab(own, t)}) = 1

-----------------------------------------------------------------------------
(* The filters of the courses: an area, a level of it. *)

Levels == {1, 2, 3}
AreaOf(level) == IF level = 1 THEN "english" ELSE "digital"

(* A level of another area goes when the area changes. *)
ChooseArea(level, area) == IF level # 0 /\ area # "any" /\ AreaOf(level) # area THEN 0 ELSE level

InCourses(course, area, level) ==
    /\ area = "any" \/ AreaOf(course) = area
    /\ level = 0 \/ course = level

(* Whichever area is chosen after whichever level, some level stays to see. *)
ASSUME FiltersNeverContradict ==
    \A level \in Levels \cup {0} : \A area \in {"any", "english", "digital"} :
        \E course \in Levels : InCourses(course, area, ChooseArea(level, area))

-----------------------------------------------------------------------------
(* Whose records a member of the staff is offered to change (UsersPanel),  *)
(* and whose the server lets them (users._manageable_roles).               *)

Roles == {"student", "teacher", "assistant", "admin", "superadmin"}
OffersRole(viewer, held, role) ==
    CASE viewer \in {"admin", "superadmin"} -> TRUE
      [] viewer = "assistant" ->
            \/ role = "teacher" /\ "manage_teachers" \in held
            \/ role = "student" /\ "manage_students" \in held
      [] OTHER -> FALSE

RoleOf == [manage_teachers |-> "teacher", manage_students |-> "student"]
ManageableRoles(actor, held) ==
    CASE actor \in {"admin", "superadmin"} -> Roles
      [] actor = "assistant" -> {RoleOf[p] : p \in held \cap DOMAIN RoleOf}
      [] OTHER -> {}

(* The panel offers exactly the records the server will let be changed. *)
ASSUME OffersManageable ==
    \A viewer \in Roles : \A held \in SUBSET {"manage_teachers", "manage_students", "manage_finance"} :
        {r \in Roles : OffersRole(viewer, held, r)} = ManageableRoles(viewer, held)

-----------------------------------------------------------------------------
(* The money of an academy, on its start page: charged, owed, collected.   *)

Accounts == [amount : 0..2, paid : 0..3, status : {"paid", "overdue"}]
BalanceOf(e) == e.amount - e.paid

Summary(accounts, payroll) ==
    LET charged == Total(accounts, LAMBDA e : e.amount)
        owed == Total(accounts, LAMBDA e : AtLeast0(BalanceOf(e)))
        collected == AtLeast0(charged - owed)
        late == SelectSeq(accounts, LAMBDA e : e.status = "overdue")
    IN  [collected |-> collected,
         overdueOwed |-> Total(late, LAMBDA e : AtLeast0(BalanceOf(e))),
         overdueCount |-> Len(late),
         margin |-> collected - payroll]

(* What it calls collected is what was paid of the fees: money paid ahead  *)
(* is not in it, so it is never more than what came in.                    *)
ASSUME CollectedIsPaid ==
    \A accounts \in Listed(Accounts, 2) :
        LET s == Summary(accounts, 0)
        IN  /\ s.collected = Total(accounts, LAMBDA e : IF e.paid < e.amount THEN e.paid ELSE e.amount)
            /\ s.collected <= Total(accounts, LAMBDA e : e.paid)
            /\ s.overdueOwed <= Total(accounts, LAMBDA e : e.amount)

-----------------------------------------------------------------------------
(* The plans as the public pages show them (lib/plans.ts) and as they are  *)
(* sold (services/plans.py); which ones an academy of a size may be given. *)

PlanCatalog ==
    [free |-> <<15, 0>>, starter |-> <<100, 199>>, pro |-> <<300, 499>>, scale |-> <<1000, 999>>]
ServerPlans ==
    [free |-> <<15, 0>>, starter |-> <<100, 199>>, pro |-> <<300, 499>>, scale |-> <<1000, 999>>]

OfferedPlans(current, students) ==
    {code \in DOMAIN PlanCatalog : code # current /\ PlanCatalog[code][1] >= students}

UsageTone(students, quota) ==
    LET ratio == IF quota = 0 THEN 0 ELSE (100 * students) \div quota
    IN  IF ratio >= 100 THEN "red" ELSE IF ratio >= 80 THEN "amber" ELSE "slate"

(* The prices shown are the prices asked; every plan offered holds the     *)
(* students there are, and red means that there is no room.                *)
ASSUME PlansAgree ==
    /\ PlanCatalog = ServerPlans
    /\ \A students \in {0, 15, 16, 100, 300, 301, 1000} : \A current \in DOMAIN ServerPlans :
          /\ \A code \in OfferedPlans(current, students) : ServerPlans[code][1] >= students
          /\ UsageTone(students, ServerPlans[current][1]) = "red"
             <=> students >= ServerPlans[current][1]
=============================================================================
