------------------------------- MODULE Access --------------------------------
(***************************************************************************)
(* Who gets to see and press what.  The client decides what a menu, the    *)
(* palette and a screen offer from its own copy of the account             *)
(* (lib/nav.ts); the server decides again, with the guard of each endpoint *)
(* (core/deps.py), from the account as it is.  An administrator may change *)
(* what an assistant holds while the assistant's pages are open.           *)
(***************************************************************************)
EXTENDS Naturals, FiniteSets, Screens

CONSTANT Grants  \* bound: the sets of permissions that an assistant may hold

Permissions == {"manage_teachers", "manage_students", "manage_catalog", "manage_schedules",
                "manage_enrollments", "manage_finance", "manage_grades", "view_reports"}
Admins == {"admin", "superadmin"}
Roles == Admins \cup {"assistant", "teacher", "student"}

-----------------------------------------------------------------------------
(* The server. *)

(* has_user_permission *)
Holds(who, p) == who.role \in Admins \/ (who.role = "assistant" /\ p \in who.held)

(* require_role of the routers of academies, plans and trails. *)
OfThePlatform == {"useCreateNationality", "useUpdateNationality", "useDeleteNationality",
    "useTenants", "useTenantAdmins", "useCreateTenant", "useUpdateTenant",
    "useCreateTenantAdmin", "useActivatePlan", "useRejectPlanRequest", "useToggleLudiAddon"}

OfAdmins == {"useAudit", "useAcademyPlan", "useRequestPlan", "useCancelPlanRequest",
    "useRequestLudiAddon", "useDirectToggleLudiAddon", "NotificationSettings"}

OfStudents == {"useRenewalOptions", "useRequestRenewal", "useWithdrawRenewal"}

(* _get_staff_actor: those who manage some population of accounts. *)
OfTheDirectory == {"useUsers", "useCreateUser", "useUpdateUser", "useDeleteUser"}

(* require_permission of each router. *)
Permitted(p) ==
    CASE p = "manage_catalog" ->
            {"useCreateLanguage", "useUpdateLanguage", "useDeleteLanguage", "useCreateLevel",
             "useUpdateLevel", "useDeleteLevel", "useCreateCourse", "useUpdateCourse",
             "useDeleteCourse", "useChangeCourseStatus", "useLanguageDeleteImpact",
             "useLevelDeleteImpact", "useCourseDeleteImpact", "useCreateRoom", "useUpdateRoom",
             "useDeleteRoom", "useCreateHoliday", "useDeleteHoliday", "QuickSetup"}
      [] p = "manage_teachers" ->
            {"useAssignCourseTeacher", "useUnassignCourseTeacher", "useTeacherAssignments",
             "useReassignTeacher", "useUpdateTeacherRate"}
      [] p = "manage_schedules" ->
            {"useCreateSchedule", "useUpdateSchedule", "useDeleteSchedule", "useReviewProposal",
             "VideoProviders"}
      [] p = "manage_enrollments" ->
            {"useCreateEnrollment", "useUpdateEnrollment", "useDeleteEnrollment",
             "useBulkEnroll", "usePendingRenewals", "useReviewRenewal"}
      [] p = "manage_finance" -> {"useCreatePayment", "useIssueInvoice"}
      [] p = "view_reports" -> {"useExecutiveKpis"}
      [] OTHER -> {}

(* require_staff_permission: teachers too, each for what they teach. *)
StaffPermitted(p) ==
    CASE p = "manage_catalog" -> {"useCourseStudents"}
      [] p = "manage_schedules" ->
            {"useGenerateSessions", "useEnsureSession", "useCancelSession",
             "useRescheduleSession", "useCloseRegister", "useReopenRegister",
             "useUpdateSession", "useProposeLocation", "useLocationProposals"}
      [] p = "manage_grades" ->
            {"useClassBoard", "useMakeupVisitors", "useMarkMakeupVisitor",
             "useCreateAttendance", "useBulkAttendance", "useCreateGrade", "useUpdateGrade",
             "TeacherAssignmentModal", "TeacherSpeedGrader"}
      [] p = "view_reports" -> {"useRaiseAtRiskAlerts"}
      [] OTHER -> {}

May(who, hook) ==
    /\ hook \in OfThePlatform => who.role = "superadmin"
    /\ hook \in OfAdmins => who.role \in Admins
    /\ hook \in OfStudents => who.role = "student"
    /\ hook \in OfTheDirectory => Holds(who, "manage_teachers") \/ Holds(who, "manage_students")
    /\ hook = "useAcademyPayrollSummary" =>
            Holds(who, "manage_teachers") \/ Holds(who, "view_reports")
    /\ hook = "useTeacherPayroll" =>
            \/ who.role = "teacher"
            \/ Holds(who, "manage_teachers") \/ Holds(who, "view_reports")
    /\ hook \in {"useSetTeacherLanguages", "useAddAvailability", "useDeleteAvailability"} =>
            who.role = "teacher" \/ Holds(who, "manage_teachers")
    /\ hook = "useReport" /\ who.role = "assistant" => Holds(who, "view_reports")
    /\ hook = "useStudentKardex" => who.role = "student" \/ Holds(who, "manage_students")
    /\ hook = "useEnrollmentLedger" => who.role = "student" \/ Holds(who, "manage_finance")
    /\ hook = "useEnrollmentInvoices" => who.role = "student" \/ Holds(who, "manage_finance")
    /\ \A p \in Permissions :
        /\ hook \in Permitted(p) => Holds(who, p)
        /\ hook \in StaffPermitted(p) => who.role = "teacher" \/ Holds(who, p)

(* What waits for the account on the start page, and where it leads. *)
TrayItems(who) ==
    CASE who.role = "teacher" -> {"clases", "tareas"}
      [] who.role = "student" -> {"inicio", "tareas"}
      [] OTHER ->
            (IF Holds(who, "manage_schedules") THEN {"pendientes"} ELSE {})
            \cup (IF Holds(who, "manage_enrollments") THEN {"enrollments", "courses"} ELSE {})
            \cup (IF Holds(who, "manage_finance") THEN {"enrollments"} ELSE {})

-----------------------------------------------------------------------------
(* The client: lib/nav.ts. *)

MenuOfAcademy ==
    {"inicio", "horarios", "enrollments", "students", "courses", "teachers", "nomina",
     "reports", "users", "catalog", "rooms", "video_providers", "notifications_settings",
     "holidays", "audit", "perfil"}

MenuOf(role) ==
    CASE role = "superadmin" -> {"tenants", "audit", "perfil"}
      [] role \in {"admin", "assistant"} -> MenuOfAcademy
      [] role = "teacher" -> {"hoy", "clases", "tareas", "ludi", "nomina", "reportes", "perfil"}
      [] role = "student" -> {"inicio", "tareas", "progreso", "perfil"}

Extra(role) ==
    CASE role \in {"admin", "assistant"} -> {"pendientes"}
      [] role = "student" -> {"calificaciones", "reportes", "pagos", "kardex", "expediente"}
      [] OTHER -> {}

(* sectionsForRole *)
SectionsFor(role) == MenuOf(role) \cup Extra(role)

OpensWith(section) ==
    CASE section = "users" -> {"manage_teachers", "manage_students"}
      [] section = "teachers" -> {"manage_teachers"}
      [] section = "nomina" -> {"manage_teachers", "view_reports"}
      [] section = "students" -> {"manage_students"}
      [] section = "courses" -> {"manage_schedules", "manage_catalog"}
      [] section \in {"horarios", "pendientes"} -> {"manage_schedules"}
      [] section = "enrollments" -> {"manage_enrollments", "manage_finance"}
      [] section = "reports" -> {"view_reports"}
      [] section \in {"catalog", "rooms", "holidays"} -> {"manage_catalog"}
      [] section \in {"video_providers", "notifications_settings"} ->
            {"manage_schedules", "manage_catalog"}
      [] OTHER -> {}

CanSee(who, section) ==
    /\ section = "tenants" => who.role = "superadmin"
    /\ section \in SectionsFor(who.role)
    /\ who.role = "assistant" =>
            section \in {"inicio", "perfil"} \/ OpensWith(section) \cap who.held # {}

(* getNavForUser *)
Menu(who) == {s \in MenuOf(who.role) : CanSee(who, s)}

DefaultSection(role) ==
    CASE role = "superadmin" -> "tenants" [] role = "teacher" -> "hoy" [] OTHER -> "inicio"

CanManageGrades(who) ==
    who.role # "student" /\ (who.role = "assistant" => "manage_grades" \in who.held)

(* A slip: who sees the list of matriculas, as of the money. *)
SeesEnrollments(who) ==
    \/ who.role \in Admins
    \/ who.role = "assistant" /\ {"manage_enrollments", "manage_finance"} \cap who.held # {}

CanManageEnrollments(who) ==
    who.role \in Admins \/ (who.role = "assistant" /\ "manage_enrollments" \in who.held)

CanViewFinance(who) ==
    who.role \in Admins \/ (who.role = "assistant" /\ "manage_finance" \in who.held)

(* A slip: what the role may have, whatever the account holds. *)
PaletteOfTheRole(who) == MenuOf(who.role)

(* The commands of the palette that go somewhere; typing finds people and  *)
(* records besides.                                                        *)
Palette(who) ==
    Menu(who)
    \cup (IF CanManageEnrollments(who) THEN {"enrollments"} ELSE {})
    \cup (IF who.role \in Admins \/ "manage_students" \in who.held THEN {"students"} ELSE {})
    \cup (IF who.role \in Admins \/ {"manage_catalog", "manage_schedules"} \cap who.held # {}
          THEN {"courses"} ELSE {})
    \cup (IF who.role = "student" THEN {"kardex", "pagos", "reportes"} ELSE {})

(* getNotificationRoute: by the words of the notice, whoever reads it. *)
BellRoutes == {"tareas", "progreso", "inicio", "perfil"}

-----------------------------------------------------------------------------
(* What each section mounts (AdminDashboard, TeacherDashboard,             *)
(* StudentDashboard), with the conditions of the screens.                  *)

If(condition, screen) == IF condition THEN {screen} ELSE {}

(* InicioPanel *)
HomeOf(who) ==
    {Start, Figures}
    \cup If(who.role \in Admins \/ CanSee(who, "nomina") \/ CanSee(who, "reports"),
            FinancialSummary)
    \cup If(who.role = "admin", PlanOfAcademy)
    \cup If(CanSee(who, "horarios"), WeekPreview)

EnrollmentsOf(who) ==
    {EnrollmentsScreen, EnrollDesk}
    \cup If(CanViewFinance(who), FinancesDialog)
    \cup If(CanManageEnrollments(who), RenewalsCard)

HomeworkOf(who) == IF CanManageGrades(who) THEN {HomeworkToSet} ELSE {HomeworkToDo}

SectionOfOffice(who, section) ==
    CASE section = "inicio" -> HomeOf(who)
      [] section = "tenants" -> {TenantsScreen}
      [] section = "pendientes" -> {Proposals}
      [] section = "horarios" -> {Planner}
      [] section = "courses" ->
            {CoursesScreen, CoursePreview, ScheduleDialog, CourseStatus, CourseWizard,
             AssignTeacher, EnrollDesk}
      [] section = "catalog" -> {CatalogScreen}
      [] section = "enrollments" -> EnrollmentsOf(who)
      [] section = "users" -> {UsersScreen, EnrollDesk, Statement}
      [] section = "teachers" -> {TeachersScreen, TeacherWizard, AssignTeacher}
      [] section = "nomina" -> {PayrollScreen}
      [] section = "students" -> {StudentsScreen, StudentDrawer, EnrollDesk}
      [] section = "rooms" -> {RoomsScreen}
      [] section = "holidays" -> {HolidaysScreen}
      [] section = "reports" -> {Report}
      [] section = "audit" -> {Trail}
      [] section = "perfil" -> {Profile}
      [] OTHER -> {}

SectionOfTeacher(who, section) ==
    CASE section = "hoy" -> {Today}
      [] section = "clases" -> {TeacherClasses, ClassRegister, GradeSheet}
      [] section = "tareas" -> HomeworkOf(who)
      [] section = "ludi" -> {Ludi}
      [] section = "nomina" -> {Payslip}
      [] section = "reportes" -> {Report}
      [] section = "perfil" -> {Profile}
      [] OTHER -> {Today}

SectionOfStudent(section) ==
    CASE section = "tareas" -> {HomeworkToDo}
      [] section = "perfil" -> {Profile}
      [] section \in {"progreso", "calificaciones", "reportes", "pagos", "kardex"} ->
            {Marks, Payments, Report}
      [] OTHER -> {StudentHome, NextLevel, MakeupDialog}

Mounted(who, section) ==
    CASE who.role = "teacher" -> SectionOfTeacher(who, section)
      [] who.role = "student" -> SectionOfStudent(section)
      [] OTHER -> IF CanSee(who, section) THEN SectionOfOffice(who, section) ELSE {}

(* The bar and the bell of every page, the palette, and the quick payment. *)
Around(who) ==
    {Frame, Bell}
    \cup If(who.role \in Admins \cup {"assistant"}, PaletteOfStaff)
    \cup If(who.role = "teacher", PaletteOfTeachers)
    \cup If(who.role = "student", PaletteOfStudents)
    \cup If(CanViewFinance(who), QuickPay)

(* The two panels of settings that call the server without a hook. *)
Settings(who, section) ==
    If(section = "video_providers" /\ CanSee(who, section), "VideoProviders")
    \cup If(section = "notifications_settings" /\ CanSee(who, section), "NotificationSettings")

(* Fields of teachers, in the profile of one and in the accounts that may  *)
(* be edited.                                                              *)
OfTeachers == {"useTeacherLoad", "useTeacherLanguages", "useTeacherAvailability",
               "useSetTeacherLanguages", "useAddAvailability", "useDeleteAvailability"}

Teaches(who, section) ==
    CASE section = "perfil" -> who.role = "teacher"
      [] section = "users" -> who.role = "admin" \/ "manage_teachers" \in who.held
      [] OTHER -> TRUE

Shown(who, section) == Mounted(who, section) \cup Around(who)

Offered(who, section) ==
    ({c.hook : c \in UNION {s.does : s \in Shown(who, section)}} \cup Settings(who, section))
    \ (IF Teaches(who, section) THEN {} ELSE OfTeachers)

AskedFor(who, section) ==
    {q.hook : q \in UNION {s.asks : s \in Shown(who, section)}}
    \ (IF Teaches(who, section) THEN {} ELSE OfTeachers)

-----------------------------------------------------------------------------
VARIABLES
    account,   \* on the server: role, and what an assistant holds
    mine,      \* the page's copy of what it holds, as of the last load
    items,     \* where the items of the start page lead, as of the last answer
    at,        \* the section of the address
    via,       \* how it was reached
    answer,    \* of the last question asked or button pressed: the hook, and whether
               \* the server took it
    revised    \* the account has changed since the page was loaded

vars == <<account, mine, items, at, via, answer, revised>>

Me == [role |-> account.role, held |-> mine]
Quiet == [hook |-> "none", taken |-> TRUE]
Holdings(role) == IF role = "assistant" THEN Grants ELSE {{}}

Init ==
    /\ account \in UNION {[role : {r}, held : Holdings(r)] : r \in Roles}
    /\ mine = account.held
    /\ items = TrayItems(account)
    /\ at = DefaultSection(account.role) /\ via = "start"
    /\ answer = Quiet /\ revised = FALSE

Go(section, how) ==
    /\ at' = section /\ via' = how
    /\ answer' = Quiet
    /\ UNCHANGED <<account, mine, items, revised>>

FromMenu == \E s \in Menu(Me) : Go(s, "menu")
FromPalette == \E s \in Palette(Me) : Go(s, "palette")
FromBell == \E s \in BellRoutes : Go(s, "bell")

(* The tray is part of the first page of everyone but the platform. *)
FromTray ==
    /\ at = DefaultSection(account.role) /\ account.role # "superadmin"
    /\ \E s \in items : Go(s, "tray")

(* A component of the page mounts and asks. *)
Ask ==
    \E h \in AskedFor(Me, at) :
        /\ answer' = [hook |-> h, taken |-> May(account, h)]
        /\ items' = IF h = "useDashboard" THEN TrayItems(account) ELSE items
        /\ UNCHANGED <<account, mine, at, via, revised>>

Press ==
    \E h \in Offered(Me, at) :
        /\ answer' = [hook |-> h, taken |-> May(account, h)]
        /\ UNCHANGED <<account, mine, items, at, via, revised>>

(* An administrator grants or takes a permission; the page is not told. *)
Revise ==
    /\ ~revised
    /\ \E held \in Holdings(account.role) \ {account.held} : account' = [account EXCEPT !.held = held]
    /\ revised' = TRUE
    /\ UNCHANGED <<mine, items, at, via, answer>>

(* The page is loaded again, and reads the account again (AuthProvider). *)
Reload ==
    /\ mine' = account.held
    /\ items' = TrayItems(account)
    /\ via' = "address" /\ answer' = Quiet /\ revised' = FALSE
    /\ UNCHANGED <<account, at>>

Next ==
    \/ FromMenu \/ FromPalette \/ FromTray \/ FromBell
    \/ Ask \/ Press \/ Revise \/ Reload

Spec == Init /\ [][Next]_vars

-----------------------------------------------------------------------------
(* The links of the client itself that lead where the account may not go:  *)
(* the bell of an office, three commands of the platform's palette, and    *)
(* the courses that are nearly full.                                       *)
Misleading ==
    \/ via = "bell"
    \/ via = "palette" /\ account.role = "superadmin"
    \/ via = "tray" /\ at = "courses"

(* While the account has not changed, no other link of a menu, of the      *)
(* palette or of the start page leads to a section that is then refused:   *)
(* the tables of lib/nav.ts agree with each other, and with the items that *)
(* services/dashboard.py lists.  What Misleading names are the dead ends   *)
(* there are, "courses" of the tray among them, of which dashboard.py says *)
(* "an item is never a dead end".                                          *)
LinksOpen == ~revised /\ ~Misleading /\ via # "address" => CanSee(Me, at)

(* What the screens of an assistant ask or offer though the server refuses *)
(* it to some assistant who is shown them.                                 *)
Overoffered ==
    {"useUsers", "useExecutiveKpis", "useEnrollmentLedger", "useCreateUser", "useBulkEnroll",
     "useUpdateEnrollment", "useDeleteEnrollment", "useCreateSchedule", "useAssignCourseTeacher",
     "useChangeCourseStatus", "useCreateCourse", "useUpdateCourse", "useDeleteCourse",
     "useCreatePayment", "useUpdateTeacherRate", "NotificationSettings", "VideoProviders"}

(* While the account has not changed, the server takes everything a screen *)
(* asks or offers, for every role and permission, but for these.           *)
(* UsersPanel.tsx:59-61 calls offering what is then refused worse than not *)
(* offering it.                                                            *)
OffersWhatItMay ==
    ~revised => answer.taken \/ (account.role = "assistant" /\ answer.hook \in Overoffered)

-----------------------------------------------------------------------------
(* Why they hold: until the account is revised the page goes by the        *)
(* account as it is, and so do the items of its start page.                *)

AccountInv ==
    /\ account.role \in Roles /\ account.held \in Holdings(account.role)
    /\ account = [role |-> account.role, held |-> account.held]

UpToDate == ~revised => mine = account.held /\ items = TrayItems(account)

AccessInv == AccountInv /\ UpToDate /\ LinksOpen /\ OffersWhatItMay
=============================================================================
